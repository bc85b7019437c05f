--------------------------- MODULE Amounts_proofs ---------------------------
(* What changing one amount does to a total. *)
EXTENDS Amounts, FiniteSetTheorems, TLAPS

(* The units under one index are as many as its amount. *)
LEMMA UnitsOfOne ==
    ASSUME NEW x, NEW n \in Nat
    PROVE  IsFiniteSet({x} \X (1..n)) /\ Cardinality({x} \X (1..n)) = n
<1>1. IsFiniteSet(1..n) /\ Cardinality(1..n) = n
  BY FS_Interval, SMT
<1>2. IsFiniteSet({x}) /\ Cardinality({x}) = 1
  BY FS_Singleton
<1>3. /\ IsFiniteSet({x} \X (1..n))
      /\ Cardinality({x} \X (1..n)) = Cardinality({x}) * Cardinality(1..n)
  BY <1>1, <1>2, FS_Product
<1> QED BY <1>1, <1>2, <1>3

LEMMA UnitsFinite ==
    ASSUME NEW S, IsFiniteSet(S), NEW f \in [S -> Nat]
    PROVE  IsFiniteSet(Units(f))
<1> DEFINE Each == {{x} \X (1..f[x]) : x \in S}
           g == [x \in S |-> {x} \X (1..f[x])]
<1>1. g \in Surjection(S, Each)
  BY DEF Surjection
<1>2. IsFiniteSet(Each)
  BY <1>1, FS_Surjection
<1>3. \A T \in Each : IsFiniteSet(T)
  <2>1. ASSUME NEW x \in S PROVE IsFiniteSet({x} \X (1..f[x]))
    <3>1. f[x] \in Nat
      OBVIOUS
    <3> QED BY <3>1, UnitsOfOne
  <2> QED BY <2>1
<1>4. IsFiniteSet(UNION Each)
  BY <1>2, <1>3, FS_UNION
<1> QED BY <1>4 DEF Units

(* A total is a natural number. *)
LEMMA TotalType ==
    ASSUME NEW S, IsFiniteSet(S), NEW f \in [S -> Nat]
    PROVE  Total(f) \in Nat
BY UnitsFinite, FS_CardinalityType DEF Total

(* The total of nothing is zero. *)
LEMMA TotalZero ==
    ASSUME NEW S, NEW f, f = [x \in S |-> 0]
    PROVE  Total(f) = 0
<1>1. Units(f) = {}
  BY SMT DEF Units
<1> QED BY <1>1, FS_EmptySet DEF Total

(* One index's amount apart from the others. *)
LEMMA TotalSplit ==
    ASSUME NEW S, IsFiniteSet(S), NEW f \in [S -> Nat], NEW x \in S
    PROVE  Total(f) = Total([f EXCEPT ![x] = 0]) + f[x]
<1> DEFINE g == [f EXCEPT ![x] = 0]
           U == {x} \X (1..f[x])
<1>1. g \in [S -> Nat] /\ f[x] \in Nat /\ g[x] = 0
  OBVIOUS
<1>2. Units(f) = Units(g) \cup U
  <2>1. ASSUME NEW u \in Units(f) PROVE u \in Units(g) \cup U
    <3>1. PICK y \in S : u \in {y} \X (1..f[y])
      BY DEF Units
    <3>2. CASE y = x
      BY <3>1, <3>2
    <3>3. CASE y # x
      <4>1. g[y] = f[y]
        BY <3>3
      <4>2. u \in {y} \X (1..g[y])
        BY <3>1, <4>1
      <4> QED BY <4>2 DEF Units
    <3> QED BY <3>2, <3>3
  <2>2. ASSUME NEW u \in Units(g) PROVE u \in Units(f)
    <3>1. PICK y \in S : u \in {y} \X (1..g[y])
      BY DEF Units
    <3>2. y # x
      <4>1. y = x => (1..g[y]) = {}
        BY <1>1, SMT
      <4> QED BY <3>1, <4>1
    <3>3. g[y] = f[y]
      BY <3>2
    <3> QED BY <3>1, <3>3 DEF Units
  <2>3. U \subseteq Units(f)
    BY DEF Units
  <2> QED BY <2>1, <2>2, <2>3
<1>3. Units(g) \cap U = {}
  <2>1. SUFFICES ASSUME NEW u \in Units(g), u \in U PROVE FALSE
    OBVIOUS
  <2>2. PICK y \in S : u \in {y} \X (1..g[y])
    BY DEF Units
  <2>3. y = x
    BY <2>1, <2>2
  <2>4. (1..g[y]) = {}
    BY <1>1, <2>3, SMT
  <2> QED BY <2>2, <2>4
<1>4. IsFiniteSet(Units(g)) /\ Cardinality(Units(g)) \in Nat
  BY <1>1, UnitsFinite, FS_CardinalityType
<1>5. IsFiniteSet(U) /\ Cardinality(U) = f[x]
  BY <1>1, UnitsOfOne
<1>6. Cardinality(Units(g) \cup U) = Cardinality(Units(g)) + Cardinality(U) - 0
  <2>1. Cardinality(Units(g) \cap U) = 0
    BY <1>3, FS_EmptySet
  <2> DEFINE V == Units(g)
  <2>2. IsFiniteSet(V) /\ IsFiniteSet(U)
    BY <1>4, <1>5
  <2> HIDE DEF U, V
  <2>3. Cardinality(V \cup U) = Cardinality(V) + Cardinality(U) - Cardinality(V \cap U)
    BY <2>2, FS_Union
  <2>4. Cardinality(V \cap U) = 0
    BY <2>1 DEF V
  <2> QED BY <2>3, <2>4 DEF V
<1>7. Total(f) = Cardinality(Units(g)) + f[x]
  <2>1. Total(f) = Cardinality(Units(g) \cup U)
    BY <1>2 DEF Total
  <2> QED BY <1>1, <1>4, <1>5, <1>6, <2>1
<1> QED BY <1>7 DEF Total

(* Changing one amount changes the total by the difference. *)
LEMMA TotalChange ==
    ASSUME NEW S, IsFiniteSet(S), NEW f \in [S -> Nat], NEW x \in S,
           NEW h \in [S -> Nat], \A y \in S : y # x => h[y] = f[y]
    PROVE  Total(h) = Total(f) - f[x] + h[x]
<1> DEFINE g == [f EXCEPT ![x] = 0]
<1>1. [h EXCEPT ![x] = 0] = g
  OBVIOUS
<1>2. Total(f) = Total(g) + f[x]
  BY TotalSplit
<1>3. Total(h) = Total(g) + h[x]
  BY <1>1, TotalSplit
<1>4. Total(g) \in Nat /\ f[x] \in Nat /\ h[x] \in Nat
  BY TotalType
<1> HIDE DEF g
<1> QED BY <1>2, <1>3, <1>4

(* No amount exceeds the total. *)
LEMMA TotalBounds ==
    ASSUME NEW S, IsFiniteSet(S), NEW f \in [S -> Nat], NEW x \in S
    PROVE  f[x] <= Total(f)
<1> DEFINE g == [f EXCEPT ![x] = 0]
<1>1. g \in [S -> Nat] /\ f[x] \in Nat
  OBVIOUS
<1>2. Total(f) = Total(g) + f[x]
  BY TotalSplit
<1>3. Total(g) \in Nat
  BY <1>1, TotalType
<1> HIDE DEF g
<1> QED BY <1>1, <1>2, <1>3
=============================================================================
