------------------------------ MODULE UnitSums ------------------------------
(***************************************************************************)
(* Sums of amounts, as numbers of units.  When each c of a set C pays      *)
(* n[c], the pairs <<c, k>> with k in 1..n[c] are as many as C pays in     *)
(* all: the sum is a cardinality, which needs no recursive definition.     *)
(***************************************************************************)
EXTENDS Integers, FiniteSetTheorems, TLAPS

\* Finitely many payers pay finitely many units, and one more payer adds as many
\* units as its amount.
LEMMA SumOfUnits ==
    ASSUME NEW C, IsFiniteSet(C), NEW n \in [C -> Nat]
    PROVE  LET U == UNION {{c} \X (1..n[c]) : c \in C}
           IN  /\ IsFiniteSet(U)
               /\ Cardinality(U) \in Nat
               /\ \A d, k : d \notin C /\ k \in Nat
                     => Cardinality(U \cup ({d} \X (1..k))) = Cardinality(U) + k
  <1>. DEFINE f == [c \in C |-> {c} \X (1..n[c])]
              T == {f[c] : c \in C}
              U == UNION {{c} \X (1..n[c]) : c \in C}
  <1>1. ASSUME NEW d, NEW k \in Nat
        PROVE  IsFiniteSet({d} \X (1..k)) /\ Cardinality({d} \X (1..k)) = k
    <2>. HIDE DEF f, T, U
    <2>1. IsFiniteSet(1..k) /\ Cardinality(1..k) = k
      BY FS_Interval
    <2>2. IsFiniteSet({d}) /\ Cardinality({d}) = 1
      BY FS_Singleton
    <2>3. /\ IsFiniteSet({d} \X (1..k))
          /\ Cardinality({d} \X (1..k)) = Cardinality({d}) * Cardinality(1..k)
      BY <2>1, <2>2, FS_Product
    <2>4. 1 * k = k
      OBVIOUS
    <2>. QED
      BY <2>1, <2>2, <2>3, <2>4
  <1>2. IsFiniteSet(T)
    <2>1. f \in Surjection(C, T)
      BY DEF Surjection
    <2>. QED
      BY <2>1, FS_Surjection
  <1>3. \A S \in T : IsFiniteSet(S)
    <2>1. \A c \in C : n[c] \in Nat /\ f[c] = {c} \X (1..n[c])
      OBVIOUS
    <2>2. ASSUME NEW c \in C PROVE IsFiniteSet(f[c])
      <3>1. IsFiniteSet({c} \X (1..n[c]))
        BY <1>1, <2>1
      <3>. QED
        BY <2>1, <3>1
    <2>. QED
      BY <2>2
  <1>4. U = UNION T
    OBVIOUS
  <1>5. IsFiniteSet(U) /\ Cardinality(U) \in Nat
    <2>. HIDE DEF T, U
    <2>. QED
      BY <1>2, <1>3, <1>4, FS_UNION, FS_CardinalityType
  <1>6. ASSUME NEW d, NEW k \in Nat, d \notin C
        PROVE  Cardinality(U \cup ({d} \X (1..k))) = Cardinality(U) + k
    <2>. DEFINE D == {d} \X (1..k)
    <2>1. IsFiniteSet(D) /\ Cardinality(D) = k
      BY <1>1
    <2>2. U \cap D = {}
      BY <1>6
    <2>3. IsFiniteSet(U \cap D) /\ Cardinality(U \cap D) = 0
      BY <2>2, FS_EmptySet
    <2>. HIDE DEF U, D
    <2>4. Cardinality(U \cup D) = Cardinality(U) + Cardinality(D) - Cardinality(U \cap D)
      BY <1>5, <2>1, FS_Union
    <2>5. Cardinality(U \cup D) = Cardinality(U) + k
      BY <1>5, <2>1, <2>3, <2>4
    <2>. QED
      BY <2>5 DEF D
  <1>. HIDE DEF U
  <1>7. \A d, k : d \notin C /\ k \in Nat
           => Cardinality(U \cup ({d} \X (1..k))) = Cardinality(U) + k
    BY <1>6
  <1>. QED
    BY <1>5, <1>7 DEF U

=============================================================================
