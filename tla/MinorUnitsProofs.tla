-------------------------- MODULE MinorUnitsProofs --------------------------
(* Sums of minor units: what the proofs of the ledger and of goals rest on. *)
EXTENDS MinorUnits, FiniteSetTheorems, TLAPS

\* A sum over a finite set is a natural number.
LEMMA TotalType ==
  ASSUME NEW S, IsFiniteSet(S), NEW f \in [S -> 0..MaxMinor]
  PROVE  /\ IsFiniteSet(Units(f))
         /\ Total(f) \in Nat
<1>1. IsFiniteSet(1..MaxMinor)
  BY MinorAssumption, FS_Interval
<1>2. IsFiniteSet(S \X (1..MaxMinor))
  BY <1>1, FS_Product
<1>3. Units(f) \in SUBSET (S \X (1..MaxMinor))
  BY DEF Units
<1>4. IsFiniteSet(Units(f))
  BY <1>2, <1>3, FS_Subset
<1> QED
  BY <1>4, FS_CardinalityType DEF Total

\* A sum splits when every element contributes to one of two parts only.
LEMMA TotalSplit ==
  ASSUME NEW S, IsFiniteSet(S),
         NEW f \in [S -> 0..MaxMinor], NEW g \in [S -> 0..MaxMinor], NEW h \in [S -> 0..MaxMinor],
         \A i \in S : (g[i] = 0 /\ f[i] = h[i]) \/ (h[i] = 0 /\ f[i] = g[i])
  PROVE  Total(f) = Total(g) + Total(h)
<1>1. Units(f) = Units(g) \cup Units(h)
  BY MinorAssumption DEF Units
<1>2. Units(g) \cap Units(h) = {}
  BY MinorAssumption DEF Units
<1>3. /\ IsFiniteSet(Units(g)) /\ IsFiniteSet(Units(h))
      /\ Total(g) \in Nat /\ Total(h) \in Nat
  BY TotalType
<1>4. Cardinality(Units(f)) = Cardinality(Units(g)) + Cardinality(Units(h)) - Cardinality({})
  BY <1>1, <1>2, <1>3, FS_Union
<1> QED
  BY <1>3, <1>4, FS_EmptySet DEF Total

\* n elements of value x and no others sum to n * x.
LEMMA TotalUniform ==
  ASSUME NEW S, IsFiniteSet(S), NEW T \in SUBSET S, NEW x \in 0..MaxMinor
  PROVE  /\ Total([i \in S |-> IF i \in T THEN x ELSE 0]) = Cardinality(T) * x
         /\ Cardinality(T) \in Nat
<1> DEFINE f == [i \in S |-> IF i \in T THEN x ELSE 0]
<1>1. Units(f) = T \X (1..x)
  BY MinorAssumption DEF Units
<1>2. IsFiniteSet(T) /\ Cardinality(T) \in Nat
  BY FS_Subset, FS_CardinalityType
<1>3. IsFiniteSet(1..x) /\ Cardinality(1..x) = x
  BY MinorAssumption, FS_Interval
<1>4. Cardinality(T \X (1..x)) = Cardinality(T) * Cardinality(1..x)
  BY <1>2, <1>3, FS_Product
<1> QED
  BY <1>1, <1>2, <1>3, <1>4 DEF Total

=============================================================================
