---------------------------- MODULE TallyProofs ----------------------------
(* How a sum changes when one entry does, and how it is bounded. *)
EXTENDS Tally, FiniteSetTheorems, FunctionTheorems, TLAPS

\* Membership in a pile, without the union.
LEMMA PileMember ==
  ASSUME NEW S, NEW f \in [S -> Nat], NEW p
  PROVE  p \in Pile(f, S) <=> \E x \in S : \E i \in 1 .. f[x] : p = <<x, i>>
BY DEF Pile

\* The units of one entry.
LEMMA ColumnSize ==
  ASSUME NEW x, NEW n \in Nat
  PROVE  IsFiniteSet({x} \X (1 .. n)) /\ Cardinality({x} \X (1 .. n)) = n
<1>1. IsFiniteSet({x}) /\ Cardinality({x}) = 1
  BY FS_Singleton
<1>2. IsFiniteSet(1 .. n) /\ Cardinality(1 .. n) = n
  BY FS_Interval
<1>3. /\ IsFiniteSet({x} \X (1 .. n))
      /\ Cardinality({x} \X (1 .. n)) = Cardinality({x}) * Cardinality(1 .. n)
  BY <1>1, <1>2, FS_Product
<1>4. Cardinality({x} \X (1 .. n)) = 1 * n
  BY <1>1, <1>2, <1>3
<1>5. QED
  BY <1>3, <1>4

\* A pile is finite, its size a natural number.
LEMMA TotalType ==
  ASSUME NEW S, IsFiniteSet(S), NEW f \in [S -> Nat]
  PROVE  IsFiniteSet(Pile(f, S)) /\ Total(f, S) \in Nat
<1> DEFINE Columns == {{x} \X (1 .. f[x]) : x \in S}
           g == [x \in S |-> {x} \X (1 .. f[x])]
<1>1. g \in Surjection(S, Columns)
  BY DEF Surjection
<1>2. IsFiniteSet(Columns)
  BY <1>1, FS_Surjection
<1>3. ASSUME NEW T \in Columns PROVE IsFiniteSet(T)
  <2>1. PICK x \in S : T = {x} \X (1 .. f[x])
    BY <1>3
  <2>2. f[x] \in Nat
    OBVIOUS
  <2>3. QED
    BY <2>1, <2>2, ColumnSize
<1>4. IsFiniteSet(UNION Columns)
  BY <1>2, <1>3, FS_UNION
<1>5. QED
  BY <1>4, FS_CardinalityType DEF Pile, Total

\* Two functions that agree but on x have sums that differ by the entries of x.
LEMMA TotalChange ==
  ASSUME NEW S, IsFiniteSet(S), NEW f \in [S -> Nat], NEW g \in [S -> Nat], NEW x \in S,
         \A y \in S \ {x} : g[y] = f[y]
  PROVE  Total(g, S) = Total(f, S) - f[x] + g[x]
<1> DEFINE Old == {x} \X (1 .. f[x])
           New == {x} \X (1 .. g[x])
           Rest == Pile(f, S) \ Old
<1>1. Pile(g, S) = Rest \cup New
  <2>1. ASSUME NEW p \in Pile(g, S) PROVE p \in Rest \cup New
    <3>1. PICK y \in S : \E i \in 1 .. g[y] : p = <<y, i>>
      BY <2>1, PileMember
    <3>2. CASE y = x
      BY <3>1, <3>2
    <3>3. CASE y # x
      BY <3>1, <3>3, PileMember
    <3>4. QED
      BY <3>2, <3>3
  <2>2. ASSUME NEW p \in Rest PROVE p \in Pile(g, S)
    <3>1. PICK y \in S : \E i \in 1 .. f[y] : p = <<y, i>>
      BY <2>2, PileMember
    <3>2. y # x
      BY <2>2, <3>1
    <3>3. QED
      BY <3>1, <3>2, PileMember
  <2>3. ASSUME NEW p \in New PROVE p \in Pile(g, S)
    BY <2>3, PileMember
  <2>4. QED
    BY <2>1, <2>2, <2>3
<1>2. Rest \cap New = {}
  <2>1. ASSUME NEW p \in Rest, p \in New PROVE FALSE
    <3>1. PICK y \in S : \E i \in 1 .. f[y] : p = <<y, i>>
      BY <2>1, PileMember
    <3>2. QED
      BY <2>1, <3>1
  <2>2. QED
    BY <2>1
<1>3. Pile(f, S) \cap Old = Old
  BY PileMember
<1>4. /\ IsFiniteSet(Pile(f, S)) /\ Total(f, S) \in Nat
      /\ f[x] \in Nat /\ g[x] \in Nat
  BY TotalType
<1>5. IsFiniteSet(Old) /\ Cardinality(Old) = f[x] /\ IsFiniteSet(New) /\ Cardinality(New) = g[x]
  BY <1>4, ColumnSize
<1>6. IsFiniteSet(Rest) /\ Cardinality(Rest) = Total(f, S) - f[x]
  <2>1. /\ IsFiniteSet(Rest)
        /\ Cardinality(Rest) = Cardinality(Pile(f, S)) - Cardinality(Pile(f, S) \cap Old)
    BY <1>4, FS_Difference
  <2>2. QED
    BY <2>1, <1>3, <1>5 DEF Total
<1>7. Cardinality(Rest \cup New) = Cardinality(Rest) + Cardinality(New) - Cardinality(Rest \cap New)
  BY <1>5, <1>6, FS_Union
<1>8. Cardinality(Rest \cap New) = 0
  BY <1>2, FS_EmptySet
<1>9. Total(g, S) = Cardinality(Rest) + Cardinality(New) - 0
  BY <1>1, <1>7, <1>8 DEF Total
<1>10. QED
  BY <1>4, <1>5, <1>6, <1>9

\* A sum is monotonic in its entries.
LEMMA TotalMonotonic ==
  ASSUME NEW S, IsFiniteSet(S), NEW f \in [S -> Nat], NEW g \in [S -> Nat],
         \A x \in S : f[x] <= g[x]
  PROVE  Total(f, S) <= Total(g, S)
<1>1. Pile(f, S) \subseteq Pile(g, S)
  <2>1. ASSUME NEW p \in Pile(f, S) PROVE p \in Pile(g, S)
    <3>1. PICK y \in S : \E i \in 1 .. f[y] : p = <<y, i>>
      BY PileMember
    <3>2. 1 .. f[y] \subseteq 1 .. g[y]
      OBVIOUS
    <3>3. QED
      BY <3>1, <3>2, PileMember
  <2>2. QED
    BY <2>1
<1>2. QED
  BY <1>1, TotalType, FS_Subset DEF Total

\* Entries of at most B sum to at most B times their number.
LEMMA TotalBound ==
  ASSUME NEW S, IsFiniteSet(S), NEW B \in Nat, NEW f \in [S -> Nat],
         \A x \in S : f[x] <= B
  PROVE  Total(f, S) <= Cardinality(S) * B
<1>1. Pile(f, S) \subseteq S \X (1 .. B)
  <2>1. ASSUME NEW p \in Pile(f, S) PROVE p \in S \X (1 .. B)
    <3>1. PICK y \in S : \E i \in 1 .. f[y] : p = <<y, i>>
      BY PileMember
    <3>2. 1 .. f[y] \subseteq 1 .. B
      OBVIOUS
    <3>3. QED
      BY <3>1, <3>2
  <2>2. QED
    BY <2>1
<1>2. IsFiniteSet(1 .. B) /\ Cardinality(1 .. B) = B
  BY FS_Interval
<1>3. /\ IsFiniteSet(S \X (1 .. B))
      /\ Cardinality(S \X (1 .. B)) = Cardinality(S) * B
  BY <1>2, FS_Product
<1>4. QED
  BY <1>1, <1>3, FS_Subset DEF Total

\* The same, leaving the entry of x out of the bound.
LEMMA TotalOthers ==
  ASSUME NEW S, IsFiniteSet(S), NEW B \in Nat, NEW f \in [S -> Nat], NEW x \in S,
         \A y \in S : f[y] <= B
  PROVE  Total(f, S) - f[x] + B <= Cardinality(S) * B
<1>1. PICK g \in [S -> Nat] : g = [f EXCEPT ![x] = B]
  OBVIOUS
<1>2. g[x] = B /\ \A y \in S \ {x} : g[y] = f[y]
  BY <1>1
<1>3. Total(g, S) = Total(f, S) - f[x] + B
  BY <1>2, TotalChange
<1>4. \A y \in S : g[y] <= B
  BY <1>1
<1>5. Total(g, S) <= Cardinality(S) * B
  BY <1>4, TotalBound
<1>6. QED
  BY <1>3, <1>5

\* A sum of zeros is zero.
LEMMA TotalZero ==
  ASSUME NEW S, IsFiniteSet(S), NEW f \in [S -> Nat], \A x \in S : f[x] = 0
  PROVE  Total(f, S) = 0
<1>1. Pile(f, S) = {}
  <2>1. ASSUME NEW p \in Pile(f, S) PROVE FALSE
    <3>1. PICK y \in S : \E i \in 1 .. f[y] : p = <<y, i>>
      BY PileMember
    <3>2. QED
      BY <3>1
  <2>2. QED
    BY <2>1
<1>2. QED
  BY <1>1, FS_EmptySet DEF Total

=============================================================================
