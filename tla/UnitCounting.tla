---------------------------- MODULE UnitCounting ----------------------------
(***************************************************************************)
(* Counting reserved units as sets of pairs <<order, n>>.  The sum of the  *)
(* lines of a set of orders is the size of such a set, which lets a proof  *)
(* add and remove one order's line with the library's theorems about       *)
(* cardinality instead of an induction over orders.  AddOne counts rows    *)
(* that are added one at a time.                                           *)
(***************************************************************************)
EXTENDS Integers, FiniteSets, FiniteSetTheorems, TLAPS

\* One more element is at most one more.
LEMMA AddOne ==
  ASSUME NEW S, IsFiniteSet(S), NEW x
  PROVE  /\ IsFiniteSet(S \cup {x}) /\ Cardinality(S \cup {x}) \in Nat
         /\ Cardinality(S \cup {x}) <= Cardinality(S) + 1
<1>1. Cardinality(S) \in Nat
  BY FS_CardinalityType
<1>2. /\ IsFiniteSet(S \cup {x})
      /\ Cardinality(S \cup {x}) = IF x \in S THEN Cardinality(S) ELSE Cardinality(S) + 1
  BY FS_AddElement
<1> QED
  BY <1>1, <1>2, FS_CardinalityType

\* A line of n units is a set of n units.
LEMMA LineSize ==
  ASSUME NEW o, NEW n \in Nat
  PROVE  /\ IsFiniteSet({o} \X (1..n))
         /\ Cardinality({o} \X (1..n)) = n
<1>1. IsFiniteSet({o}) /\ Cardinality({o}) = 1
  BY FS_Singleton
<1>2. IsFiniteSet(1..n) /\ Cardinality(1..n) = n
  BY FS_Interval
<1>3. /\ IsFiniteSet({o} \X (1..n))
      /\ Cardinality({o} \X (1..n)) = 1 * n
  BY <1>1, <1>2, FS_Product
<1> QED
  BY <1>3

\* Closing a claim gives up at most the units of its line.
LEMMA LoseOneLine ==
  ASSUME NEW H, IsFiniteSet(H), NEW G, IsFiniteSet(G),
         NEW o, NEW n \in Nat, H \subseteq G \cup ({o} \X (1..n))
  PROVE  Cardinality(H) <= Cardinality(G) + n
<1> DEFINE U == {o} \X (1..n)
<1>1. IsFiniteSet(U) /\ Cardinality(U) = n
  BY LineSize
<1>2. /\ IsFiniteSet(G \cup U)
      /\ Cardinality(G \cup U) = Cardinality(G) + Cardinality(U) - Cardinality(G \cap U)
  BY <1>1, FS_Union
<1>3. Cardinality(H) <= Cardinality(G \cup U)
  BY <1>2, FS_Subset
<1>4. Cardinality(G \cap U) \in Nat
  BY FS_Intersection, FS_CardinalityType
<1>5. Cardinality(G) \in Nat /\ Cardinality(H) \in Nat
  BY FS_CardinalityType
<1> QED
  BY <1>1, <1>2, <1>3, <1>4, <1>5

\* Opening a claim adds all units of its line.
LEMMA GainOneLine ==
  ASSUME NEW H, IsFiniteSet(H), NEW G, IsFiniteSet(G),
         NEW o, NEW n \in Nat, H \cup ({o} \X (1..n)) \subseteq G,
         H \cap ({o} \X (1..n)) = {}
  PROVE  Cardinality(H) + n <= Cardinality(G)
<1> DEFINE U == {o} \X (1..n)
<1>1. IsFiniteSet(U) /\ Cardinality(U) = n
  BY LineSize
<1>2. /\ IsFiniteSet(H \cup U)
      /\ Cardinality(H \cup U) = Cardinality(H) + Cardinality(U) - Cardinality(H \cap U)
  BY <1>1, FS_Union
<1>3. Cardinality(H \cap U) = 0
  BY FS_EmptySet
<1>4. Cardinality(H \cup U) <= Cardinality(G)
  BY FS_Subset
<1>5. Cardinality(G) \in Nat /\ Cardinality(H) \in Nat
  BY FS_CardinalityType
<1> QED
  BY <1>1, <1>2, <1>3, <1>4, <1>5
=============================================================================
