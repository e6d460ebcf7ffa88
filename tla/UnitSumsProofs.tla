--------------------------- MODULE UnitSumsProofs ---------------------------
(***************************************************************************)
(* Facts about sums of amounts, for every finite set of items.             *)
(***************************************************************************)
EXTENDS UnitSums, FiniteSetTheorems, TLAPS

LEMMA UnitsFinite ==
  ASSUME NEW S, IsFiniteSet(S), NEW f
  PROVE  IsFiniteSet(Units(S, f)) /\ Cardinality(Units(S, f)) \in Nat
<1>1. IsFiniteSet(1..MaxAmount)
  BY FS_Interval, AmountAssumption
<1>2. IsFiniteSet(S \X (1..MaxAmount))
  BY <1>1, FS_Product
<1>3. Units(S, f) \subseteq S \X (1..MaxAmount)
  BY DEF Units
<1> QED
  BY <1>2, <1>3, FS_Subset, FS_CardinalityType

\* A sum looks at the amounts of its own items only.
LEMMA UnitsAgree ==
  ASSUME NEW S, NEW f, NEW g, \A x \in S : f[x] = g[x]
  PROVE  Units(S, f) = Units(S, g)
BY DEF Units

\* A sum over fewer items is no larger.
LEMMA UnitsMonotone ==
  ASSUME NEW T, IsFiniteSet(T), NEW S \in SUBSET T, NEW f
  PROVE  Cardinality(Units(S, f)) <= Cardinality(Units(T, f))
<1>1. Units(S, f) \subseteq Units(T, f)
  BY DEF Units
<1> QED
  BY <1>1, UnitsFinite, FS_Subset

\* An item adds its amount to a sum.
LEMMA UnitsAdd ==
  ASSUME NEW S, IsFiniteSet(S), NEW x, x \notin S, NEW f, f[x] \in 0..MaxAmount
  PROVE  Cardinality(Units(S \cup {x}, f)) = Cardinality(Units(S, f)) + f[x]
<1> DEFINE X == {x} \X (1..f[x])
<1>1. f[x] \in Int /\ f[x] >= 0
  BY AmountAssumption
<1>2. /\ IsFiniteSet(1..f[x])
      /\ Cardinality(1..f[x]) = f[x]
  <2>1. /\ IsFiniteSet(1..f[x])
        /\ Cardinality(1..f[x]) = IF 1 > f[x] THEN 0 ELSE f[x] - 1 + 1
    <3>1. 1 \in Int
      OBVIOUS
    <3> QED
      BY <1>1, <3>1, FS_Interval
  <2>2. (IF 1 > f[x] THEN 0 ELSE f[x] - 1 + 1) = f[x]
    BY <1>1
  <2> QED
    BY <2>1, <2>2
<1>3. IsFiniteSet(X) /\ Cardinality(X) = f[x]
  <2>1. IsFiniteSet({x}) /\ Cardinality({x}) = 1
    BY FS_Singleton
  <2>2. IsFiniteSet(X) /\ Cardinality(X) = Cardinality({x}) * Cardinality(1..f[x])
    BY <1>2, <2>1, FS_Product
  <2>3. Cardinality({x}) * Cardinality(1..f[x]) = f[x]
    BY <1>1, <1>2, <2>1
  <2> QED
    BY <2>2, <2>3
<1>4. Units(S \cup {x}, f) = Units(S, f) \cup X
  BY <1>1, AmountAssumption DEF Units
<1>5. Units(S, f) \cap X = {}
  BY DEF Units
<1>6. Cardinality(Units(S, f) \cup X)
        = Cardinality(Units(S, f)) + f[x] - Cardinality(Units(S, f) \cap X)
  BY <1>3, UnitsFinite, FS_Union
<1>7. Cardinality(Units(S, f) \cap X) = 0
  BY <1>5, FS_EmptySet
<1>8. Cardinality(Units(S, f)) + f[x] - 0 = Cardinality(Units(S, f)) + f[x]
  BY <1>1, UnitsFinite
<1> QED
  BY <1>4, <1>6, <1>7, <1>8

LEMMA UnitsRemove ==
  ASSUME NEW S, IsFiniteSet(S), NEW x \in S, NEW f, f[x] \in 0..MaxAmount
  PROVE  Cardinality(Units(S, f)) = Cardinality(Units(S \ {x}, f)) + f[x]
<1> DEFINE R == S \ {x}
<1>1. IsFiniteSet(R) /\ x \notin R
  BY FS_Subset
<1>2. R \cup {x} = S
  OBVIOUS
<1> HIDE DEF R
<1>3. Cardinality(Units(R \cup {x}, f)) = Cardinality(Units(R, f)) + f[x]
  BY <1>1, UnitsAdd
<1> QED
  BY <1>2, <1>3 DEF R

\* A sum in which all items but one amount to nothing.
LEMMA UnitsOfOne ==
  ASSUME NEW S, IsFiniteSet(S), NEW x \in S, NEW f, f[x] \in 0..MaxAmount,
         \A y \in S \ {x} : f[y] = 0
  PROVE  TotalOf(S, f) = f[x]
<1>1. Units(S \ {x}, f) = {}
  <2> SUFFICES ASSUME NEW u \in Units(S \ {x}, f) PROVE FALSE
    OBVIOUS
  <2>1. u[1] \in S \ {x} /\ u[2] \in 1..MaxAmount /\ u[2] <= f[u[1]]
    BY DEF Units
  <2> QED
    BY <2>1, AmountAssumption
<1>2. Cardinality(Units(S \ {x}, f)) = 0
  BY <1>1, FS_EmptySet
<1>3. TotalOf(S, f) = Cardinality(Units(S \ {x}, f)) + f[x]
  BY UnitsRemove DEF TotalOf
<1> QED
  BY <1>2, <1>3, AmountAssumption

\* A sum over fewer items, none of which amounts to more, is no larger.
LEMMA UnitsBelow ==
  ASSUME NEW S, IsFiniteSet(S), NEW T \in SUBSET S, NEW f, NEW g,
         \A x \in T : f[x] \in Int /\ g[x] \in Int /\ g[x] <= f[x]
  PROVE  /\ TotalOf(T, g) <= TotalOf(S, f)
         /\ TotalOf(T, g) \in Nat /\ TotalOf(S, f) \in Nat
<1>1. Units(T, g) \subseteq Units(S, f)
  <2> SUFFICES ASSUME NEW u \in Units(T, g) PROVE u \in Units(S, f)
    OBVIOUS
  <2>1. /\ u \in T \X (1..MaxAmount) /\ u[1] \in T /\ u[2] \in 1..MaxAmount
        /\ u[2] <= g[u[1]]
    BY DEF Units
  <2>2. u[2] <= f[u[1]]
    BY <2>1, AmountAssumption
  <2> QED
    BY <2>1, <2>2 DEF Units
<1>2. IsFiniteSet(T)
  BY FS_Subset
<1> QED
  BY <1>1, <1>2, UnitsFinite, FS_Subset DEF TotalOf

\* A sum over two sets of items is no larger than their sums.
LEMMA UnitsUnion ==
  ASSUME NEW S, IsFiniteSet(S), NEW T, IsFiniteSet(T), NEW f
  PROVE  /\ TotalOf(S \cup T, f) <= TotalOf(S, f) + TotalOf(T, f)
         /\ TotalOf(S \cup T, f) \in Nat
         /\ TotalOf(S, f) \in Nat /\ TotalOf(T, f) \in Nat
<1> DEFINE us == Units(S, f)
           ut == Units(T, f)
<1>1. Units(S \cup T, f) = us \cup ut
  BY DEF Units
<1>2. IsFiniteSet(us) /\ IsFiniteSet(ut) /\ Cardinality(us) \in Nat /\ Cardinality(ut) \in Nat
  BY UnitsFinite
<1> HIDE DEF us, ut
<1>3. /\ IsFiniteSet(us \cup ut)
      /\ Cardinality(us \cup ut)
           = Cardinality(us) + Cardinality(ut) - Cardinality(us \cap ut)
  BY <1>2, FS_Union
<1>4. Cardinality(us \cap ut) \in Nat /\ Cardinality(us \cup ut) \in Nat
  BY <1>2, <1>3, FS_Intersection, FS_CardinalityType
<1>5. Cardinality(us \cup ut) <= Cardinality(us) + Cardinality(ut)
  BY <1>2, <1>3, <1>4
<1> QED
  BY <1>1, <1>2, <1>4, <1>5 DEF TotalOf, us, ut

\* A sum of items that all amount to the most there is.
LEMMA UnitsOfEqual ==
  ASSUME NEW S, IsFiniteSet(S), NEW f, \A x \in S : f[x] = MaxAmount
  PROVE  TotalOf(S, f) = Cardinality(S) * MaxAmount
<1>1. Units(S, f) = S \X (1..MaxAmount)
  BY AmountAssumption DEF Units
<1>2. IsFiniteSet(1..MaxAmount) /\ Cardinality(1..MaxAmount) = MaxAmount
  BY FS_Interval, AmountAssumption
<1> QED
  BY <1>1, <1>2, FS_Product DEF TotalOf
=============================================================================
