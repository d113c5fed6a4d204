-------------------------- MODULE Selection_proofs --------------------------
(***************************************************************************)
(* What ItemsAt returns, for sequences of any length: exactly the items at *)
(* the kept positions, in their order, and the sequence itself when every  *)
(* position is kept.                                                       *)
(***************************************************************************)
EXTENDS Selection, Sequences, FiniteSetTheorems, TLAPS

Rank(i, positions) == Cardinality({j \in positions : j <= i})

Nth(n, positions) == CHOOSE i \in positions : Rank(i, positions) = n

-----------------------------------------------------------------------------
(* Ranks number the kept positions from 1 without a gap.                   *)
LEMMA RanksGrow ==
  ASSUME NEW K, IsFiniteSet(K), K \subseteq Nat
  PROVE  /\ \A i \in K : Rank(i, K) \in 1..Cardinality(K)
         /\ \A i, j \in K : i < j => Rank(i, K) < Rank(j, K)
  <1> DEFINE UpTo(i) == {j \in K : j <= i}
  <1>1. ASSUME NEW i \in K
        PROVE  /\ IsFiniteSet(UpTo(i)) /\ Cardinality(UpTo(i)) \in Nat
               /\ Cardinality(UpTo(i)) <= Cardinality(K)
    BY FS_Subset, FS_CardinalityType
  <1>2. ASSUME NEW i \in K
        PROVE  Cardinality(UpTo(i)) # 0
    <2>1. i \in UpTo(i)
      BY <1>2
    <2>2. QED
      BY <1>1, <2>1, FS_EmptySet
  <1>3. ASSUME NEW i \in K, NEW j \in K, i < j
        PROVE  Cardinality(UpTo(i)) < Cardinality(UpTo(j))
    <2>1. UpTo(i) \subseteq UpTo(j) /\ j \in UpTo(j) /\ j \notin UpTo(i)
      <3>1. \A k \in K : k \in Nat
        OBVIOUS
      <3>2. \A k \in K : k <= i => k <= j
        BY <1>3, <3>1
      <3>3. j <= j /\ ~(j <= i)
        BY <1>3, <3>1
      <3>4. QED
        BY <3>2, <3>3
    <2>2. /\ Cardinality(UpTo(i)) <= Cardinality(UpTo(j))
          /\ Cardinality(UpTo(j)) # Cardinality(UpTo(i))
      BY <1>1, <2>1, FS_Subset
    <2>3. QED
      BY <1>1, <2>2
  <1>4. Cardinality(K) \in Nat
    BY FS_CardinalityType
  <1>5. QED
    BY <1>1, <1>2, <1>3, <1>4 DEF Rank

LEMMA NthIsKept ==
  ASSUME NEW K, IsFiniteSet(K), K \subseteq Nat
  PROVE  /\ \A n \in 1..Cardinality(K) : Nth(n, K) \in K /\ Rank(Nth(n, K), K) = n
         /\ \A i \in K : Nth(Rank(i, K), K) = i
  <1> DEFINE N == Cardinality(K)
             rank == [i \in K |-> Rank(i, K)]
  <1>1. N \in Nat /\ IsFiniteSet(1..N) /\ Cardinality(1..N) = N
    BY FS_CardinalityType, FS_Interval
  <1>2. ASSUME NEW i \in K, NEW j \in K, Rank(i, K) = Rank(j, K)
        PROVE  i = j
    <2>1. /\ Rank(i, K) \in 1..N
          /\ i < j => Rank(i, K) < Rank(j, K)
          /\ j < i => Rank(j, K) < Rank(i, K)
      BY RanksGrow
    <2>2. i \in Nat /\ j \in Nat
      OBVIOUS
    <2>3. QED
      BY <1>1, <1>2, <2>1, <2>2
  <1>3. rank \in Injection(K, 1..N)
    BY <1>2, RanksGrow DEF Injection, IsInjective
  <1>4. rank \in Surjection(K, 1..N)
    BY <1>1, <1>3, FS_Injection
  <1>5. \A n \in 1..N : \E i \in K : Rank(i, K) = n
    BY <1>4 DEF Surjection
  <1>6. ASSUME NEW n \in 1..N
        PROVE  Nth(n, K) \in K /\ Rank(Nth(n, K), K) = n
    BY <1>5 DEF Nth
  <1>7. ASSUME NEW i \in K
        PROVE  Nth(Rank(i, K), K) = i
    BY <1>2, <1>6, RanksGrow
  <1>8. QED
    BY <1>6, <1>7

-----------------------------------------------------------------------------
(* The result has one item for each kept position, in the order of the     *)
(* positions.                                                              *)
LEMMA ItemsAtKeepsThose ==
  ASSUME NEW S, NEW seq \in Seq(S), NEW K \in SUBSET DOMAIN seq
  PROVE  /\ IsFiniteSet(K)
         /\ ItemsAt(seq, K) \in Seq(S)
         /\ Len(ItemsAt(seq, K)) = Cardinality(K)
         /\ \A n \in 1..Cardinality(K) : ItemsAt(seq, K)[n] \in {seq[i] : i \in K}
         /\ \A i \in K : \E n \in 1..Cardinality(K) : ItemsAt(seq, K)[n] = seq[i]
  <1>1. IsFiniteSet(K) /\ K \subseteq Nat
    BY FS_Interval, FS_Subset
  <1>2. Cardinality(K) \in Nat
    BY <1>1, FS_CardinalityType
  <1>3. ItemsAt(seq, K) = [n \in 1..Cardinality(K) |-> seq[Nth(n, K)]]
    BY DEF ItemsAt, Nth, Rank
  <1>4. \A n \in 1..Cardinality(K) : Nth(n, K) \in K /\ seq[Nth(n, K)] \in S
    BY <1>1, NthIsKept
  <1>5. ItemsAt(seq, K) \in Seq(S) /\ Len(ItemsAt(seq, K)) = Cardinality(K)
    BY <1>2, <1>3, <1>4
  <1>6. ASSUME NEW i \in K
        PROVE  \E n \in 1..Cardinality(K) : ItemsAt(seq, K)[n] = seq[i]
    <2>1. Rank(i, K) \in 1..Cardinality(K) /\ Nth(Rank(i, K), K) = i
      BY <1>1, NthIsKept, RanksGrow
    <2>2. QED
      BY <1>3, <2>1
  <1>7. QED
    BY <1>1, <1>3, <1>4, <1>5, <1>6

(* Nothing is reordered.                                                   *)
LEMMA ItemsAtKeepsOrder ==
  ASSUME NEW S, NEW seq \in Seq(S), NEW K \in SUBSET DOMAIN seq
  PROVE  \A m, n \in 1..Cardinality(K) :
             m < n => /\ Nth(m, K) < Nth(n, K)
                      /\ ItemsAt(seq, K)[m] = seq[Nth(m, K)]
                      /\ ItemsAt(seq, K)[n] = seq[Nth(n, K)]
  <1>1. IsFiniteSet(K) /\ K \subseteq Nat
    BY FS_Interval, FS_Subset
  <1>2. ASSUME NEW m \in 1..Cardinality(K), NEW n \in 1..Cardinality(K), m < n
        PROVE  Nth(m, K) < Nth(n, K)
    <2>1. /\ Nth(m, K) \in K /\ Rank(Nth(m, K), K) = m
          /\ Nth(n, K) \in K /\ Rank(Nth(n, K), K) = n
      BY <1>1, NthIsKept
    <2>2. Nth(n, K) < Nth(m, K) => n < m
      BY <1>1, <2>1, RanksGrow
    <2>3. Cardinality(K) \in Nat
      BY <1>1, FS_CardinalityType
    <2>4. QED
      BY <1>1, <1>2, <2>1, <2>2, <2>3
  <1>3. ItemsAt(seq, K) = [n \in 1..Cardinality(K) |-> seq[Nth(n, K)]]
    BY DEF ItemsAt, Nth, Rank
  <1>4. QED
    BY <1>2, <1>3

(* A comprehension whose condition always holds copies the sequence.       *)
LEMMA ItemsAtAll ==
  ASSUME NEW S, NEW seq \in Seq(S)
  PROVE  ItemsAt(seq, DOMAIN seq) = seq
  <1> DEFINE K == 1..Len(seq)
  <1>1. IsFiniteSet(K) /\ K \subseteq Nat /\ Cardinality(K) = Len(seq) /\ DOMAIN seq = K
    BY FS_Interval
  <1>2. ASSUME NEW i \in K
        PROVE  Rank(i, K) = i
    <2>1. {j \in K : j <= i} = 1..i
      OBVIOUS
    <2>2. Cardinality(1..i) = i
      BY FS_Interval
    <2>3. QED
      BY <2>1, <2>2 DEF Rank
  <1>3. \A n \in K : Nth(n, K) = n
    BY <1>1, <1>2, NthIsKept
  <1>4. ItemsAt(seq, K) = [n \in 1..Cardinality(K) |-> seq[Nth(n, K)]]
    BY DEF ItemsAt, Nth, Rank
  <1>5. QED
    BY <1>1, <1>3, <1>4

=============================================================================
