------------------------ MODULE BuildSequenceProofs ------------------------
(***************************************************************************)
(* What the operators of BuildSequence return, for every argument.  The    *)
(* proofs about the indexer, the audits and the rebuild cite these.        *)
(***************************************************************************)
EXTENDS BuildSequence, FiniteSetTheorems, TLAPS

\* Positions run from 1 to |S|, grow with the ids, and each is somebody's.
LEMMA NthFacts ==
    ASSUME NEW S \in SUBSET Nat, IsFiniteSet(S)
    PROVE  /\ Cardinality(S) \in Nat
           /\ \A i \in S : Nth(S, i) \in 1 .. Cardinality(S)
           /\ \A i, j \in S : i < j => Nth(S, i) < Nth(S, j)
           /\ \A n \in 1 .. Cardinality(S) : \E i \in S : Nth(S, i) = n
  <1>. DEFINE To(i) == {x \in S : x <= i}
  <1>1. Cardinality(S) \in Nat
    BY FS_CardinalityType
  <1>2. ASSUME NEW i \in S
        PROVE  IsFiniteSet(To(i)) /\ Cardinality(To(i)) \in 1 .. Cardinality(S)
    <2>1. To(i) \in SUBSET S /\ i \in To(i)
      OBVIOUS
    <2>2. IsFiniteSet(To(i)) /\ Cardinality(To(i)) <= Cardinality(S)
      BY <2>1, FS_Subset
    <2>3. Cardinality(To(i)) \in Nat
      BY <2>2, FS_CardinalityType
    <2>4. Cardinality(To(i)) # 0
      BY <2>1, <2>2, FS_EmptySet
    <2>. QED  BY <1>1, <2>2, <2>3, <2>4
  <1>3. ASSUME NEW i \in S, NEW j \in S, i < j
        PROVE  Cardinality(To(i)) < Cardinality(To(j))
    <2>1. \A x \in To(i) : x \in S /\ x <= j
      BY <1>3
    <2>2. To(i) \in SUBSET To(j)
      BY <2>1
    <2>3. j \in To(j) /\ j \notin To(i)
      BY <1>3
    <2>4. Cardinality(To(i)) <= Cardinality(To(j)) /\ Cardinality(To(i)) # Cardinality(To(j))
      BY <1>2, <2>2, <2>3, FS_Subset
    <2>. QED  BY <1>2, <2>4
  <1>. DEFINE f == [i \in S |-> Cardinality(To(i))]
  <1>4. f \in Injection(S, 1 .. Cardinality(S))
    <2>1. f \in [S -> 1 .. Cardinality(S)]
      BY <1>2
    <2>2. ASSUME NEW i \in S, NEW j \in S, f[i] = f[j]
          PROVE  i = j
      <3>1. i < j \/ j < i \/ i = j
        OBVIOUS
      <3>2. ~(i < j)
        BY <1>2, <1>3, <2>2
      <3>3. ~(j < i)
        BY <1>2, <1>3, <2>2
      <3>. QED  BY <3>1, <3>2, <3>3
    <2>. QED  BY <2>1, <2>2 DEF Injection, IsInjective
  <1>5. IsFiniteSet(1 .. Cardinality(S)) /\ Cardinality(1 .. Cardinality(S)) = Cardinality(S)
    BY <1>1, FS_Interval
  <1>6. f \in Surjection(S, 1 .. Cardinality(S))
    BY <1>4, <1>5, FS_Injection
  <1>7. \A n \in 1 .. Cardinality(S) : \E i \in S : f[i] = n
    BY <1>6 DEF Surjection
  <1>8. \A i \in S : Nth(S, i) = Cardinality(To(i)) /\ f[i] = Cardinality(To(i))
    BY DEF Nth
  <1>. HIDE DEF To, f
  <1>. QED  BY <1>1, <1>2, <1>3, <1>7, <1>8

=============================================================================
