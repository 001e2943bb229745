----------------------------- MODULE AmountLemmas -----------------------------
(***************************************************************************)
(* Lemmas about Amounts: a sum of naturals over a finite set is a natural, *)
(* and changes by what its summands change.                                *)
(***************************************************************************)
EXTENDS Amounts, FiniteSetTheorems, FunctionTheorems, TLAPS

LEMMA UnitsOfSize ==
    ASSUME NEW f, NEW x, f[x] \in Nat
    PROVE  /\ IsFiniteSet(UnitsOf(f, x))
           /\ Cardinality(UnitsOf(f, x)) = f[x]
  <1>1. IsFiniteSet({x}) /\ Cardinality({x}) = 1
    BY FS_Singleton
  <1>2. IsFiniteSet(1..f[x]) /\ Cardinality(1..f[x]) = f[x]
    BY FS_Interval
  <1>3. /\ IsFiniteSet({x} \X (1..f[x]))
        /\ Cardinality({x} \X (1..f[x])) = 1 * f[x]
    BY <1>1, <1>2, FS_Product
  <1> QED
    BY <1>3 DEF UnitsOf

LEMMA UnitsMember ==
    ASSUME NEW f, NEW S, NEW u
    PROVE  u \in Units(f, S) <=> \E x \in S : u \in UnitsOf(f, x)
  BY DEF Units

\* Units of different members are different.
LEMMA UnitsApart ==
    ASSUME NEW f, NEW g, NEW x, NEW y, x # y
    PROVE  UnitsOf(f, x) \cap UnitsOf(g, y) = {}
  BY DEF UnitsOf

LEMMA UnitsFinite ==
    ASSUME NEW S, IsFiniteSet(S), NEW f, \A x \in S : f[x] \in Nat
    PROVE  IsFiniteSet(Units(f, S)) /\ Total(f, S) \in Nat
  <1> DEFINE T == {UnitsOf(f, x) : x \in S}
             h == [x \in S |-> UnitsOf(f, x)]
  <1>1. h \in Surjection(S, T)
    BY Fun_IsSurj
  <1>2. IsFiniteSet(T)
    BY <1>1, FS_Surjection
  <1>3. \A U \in T : IsFiniteSet(U)
    BY UnitsOfSize
  <1>4. IsFiniteSet(UNION T)
    BY <1>2, <1>3, FS_UNION
  <1> QED
    BY <1>4, FS_CardinalityType DEF Units, Total

\* Nothing adds up to nothing.
LEMMA TotalOfNone ==
    ASSUME NEW f
    PROVE  IsFiniteSet(Units(f, {})) /\ Total(f, {}) = 0
  <1>1. Units(f, {}) = {}
    BY DEF Units
  <1> QED
    BY <1>1, FS_EmptySet DEF Total

\* The sum depends on the summands alone.
LEMMA TotalSame ==
    ASSUME NEW S, NEW f, NEW g, \A x \in S : f[x] = g[x]
    PROVE  Units(f, S) = Units(g, S) /\ Total(f, S) = Total(g, S)
  <1>1. \A x \in S : UnitsOf(f, x) = UnitsOf(g, x)
    BY DEF UnitsOf
  <1>2. Units(f, S) = Units(g, S)
    BY <1>1 DEF Units
  <1> QED
    BY <1>2 DEF Total

\* A member more.
LEMMA TotalWith ==
    ASSUME NEW S, NEW f, NEW x, x \notin S, f[x] \in Nat, IsFiniteSet(Units(f, S))
    PROVE  /\ IsFiniteSet(Units(f, S \cup {x}))
           /\ Total(f, S) \in Nat
           /\ Total(f, S \cup {x}) = Total(f, S) + f[x]
  <1>1. Units(f, S \cup {x}) = Units(f, S) \cup UnitsOf(f, x)
    BY DEF Units
  <1>2. IsFiniteSet(UnitsOf(f, x)) /\ Cardinality(UnitsOf(f, x)) = f[x]
    BY UnitsOfSize
  <1>3. Units(f, S) \cap UnitsOf(f, x) = {}
    BY UnitsApart DEF Units
  <1>4. Total(f, S) \in Nat
    BY FS_CardinalityType DEF Total
  <1>5. /\ IsFiniteSet(Units(f, S) \cup UnitsOf(f, x))
        /\ Cardinality(Units(f, S) \cup UnitsOf(f, x))
              = Cardinality(Units(f, S)) + Cardinality(UnitsOf(f, x))
                  - Cardinality(Units(f, S) \cap UnitsOf(f, x))
    BY <1>2, FS_Union
  <1>6. Cardinality(Units(f, S) \cap UnitsOf(f, x)) = 0
    BY <1>3, FS_EmptySet
  <1>7. Total(f, S) = Cardinality(Units(f, S))
    BY DEF Total
  <1>8. Total(f, S \cup {x}) = Cardinality(Units(f, S) \cup UnitsOf(f, x))
    BY <1>1 DEF Total
  <1>9. Cardinality(Units(f, S) \cup UnitsOf(f, x)) = Total(f, S) + f[x]
    BY <1>2, <1>4, <1>5, <1>6, <1>7
  <1>10. IsFiniteSet(Units(f, S \cup {x}))
    BY <1>1, <1>5
  <1> QED
    BY <1>4, <1>8, <1>9, <1>10

\* A member less.
LEMMA TotalWithout ==
    ASSUME NEW S, NEW f, NEW x \in S, f[x] \in Nat, IsFiniteSet(Units(f, S))
    PROVE  /\ IsFiniteSet(Units(f, S \ {x}))
           /\ Total(f, S \ {x}) \in Nat
           /\ Total(f, S) = Total(f, S \ {x}) + f[x]
  <1> DEFINE T == S \ {x}
  <1>1. Units(f, T) \subseteq Units(f, S)
    BY DEF Units
  <1>2. IsFiniteSet(Units(f, T))
    BY <1>1, FS_Subset
  <1>3. x \notin T /\ S = T \cup {x}
    OBVIOUS
  <1>4. Total(f, T) \in Nat /\ Total(f, T \cup {x}) = Total(f, T) + f[x]
    <2> HIDE DEF T
    <2> QED
      BY <1>2, <1>3, TotalWith
  <1> QED
    BY <1>2, <1>3, <1>4

\* Part of the members.
LEMMA TotalOfSome ==
    ASSUME NEW S, NEW T \in SUBSET S, NEW f, IsFiniteSet(Units(f, S))
    PROVE  /\ IsFiniteSet(Units(f, T))
           /\ Total(f, T) <= Total(f, S)
  <1>1. Units(f, T) \subseteq Units(f, S)
    BY DEF Units
  <1> QED
    BY <1>1, FS_Subset DEF Total

\* One summand changes.
LEMMA TotalUpdate ==
    ASSUME NEW S, NEW f, NEW g, NEW x \in S, f[x] \in Nat, g[x] \in Nat,
           IsFiniteSet(Units(f, S)),
           \A y \in S : y # x => f[y] = g[y]
    PROVE  /\ IsFiniteSet(Units(g, S))
           /\ Total(f, S) \in Nat
           /\ Total(g, S) = Total(f, S) - f[x] + g[x]
  <1> DEFINE T == S \ {x}
  <1>1. /\ IsFiniteSet(Units(f, T))
        /\ Total(f, T) \in Nat
        /\ Total(f, S) = Total(f, T) + f[x]
    BY TotalWithout
  <1>2. Units(f, T) = Units(g, T) /\ Total(f, T) = Total(g, T)
    BY TotalSame
  <1>3. /\ IsFiniteSet(Units(g, T \cup {x}))
        /\ Total(g, T \cup {x}) = Total(g, T) + g[x]
    <2>1. x \notin T /\ IsFiniteSet(Units(g, T))
      BY <1>1, <1>2
    <2> HIDE DEF T
    <2> QED
      BY <2>1, TotalWith
  <1>4. T \cup {x} = S
    OBVIOUS
  <1> QED
    BY <1>1, <1>2, <1>3, <1>4

\* An amount that moves with one summand remains the sum.
LEMMA TotalFollows ==
    ASSUME NEW S, NEW f, NEW g, NEW x \in S, f[x] \in Nat, g[x] \in Nat,
           IsFiniteSet(Units(f, S)),
           \A y \in S : y # x => f[y] = g[y],
           NEW amount, amount = Total(f, S)
    PROVE  IsFiniteSet(Units(g, S)) /\ amount - f[x] + g[x] = Total(g, S)
  BY TotalUpdate

\* A summand is at most the sum.
LEMMA TotalCovers ==
    ASSUME NEW S, NEW f, NEW x \in S, f[x] \in Nat, IsFiniteSet(Units(f, S))
    PROVE  Total(f, S) \in Nat /\ f[x] <= Total(f, S)
  <1>1. /\ Total(f, S \ {x}) \in Nat
        /\ Total(f, S) = Total(f, S \ {x}) + f[x]
    BY TotalWithout
  <1> QED
    BY <1>1

\* The sizes of disjoint sets add up to the size of their union.
LEMMA TotalOfParts ==
    ASSUME NEW S, NEW L, NEW f,
           \A x \in S : IsFiniteSet(L[x]) /\ f[x] = Cardinality(L[x]),
           \A x, y \in S : x # y => L[x] \cap L[y] = {},
           NEW whole, IsFiniteSet(whole), whole = UNION {L[x] : x \in S}
    PROVE  Cardinality(whole) = Total(f, S)
  <1>1. \A x \in S : \E b : b \in Bijection(1..f[x], L[x])
    BY FS_CardinalityType DEF ExistsBijection
  <1>2. PICK B : B = [x \in S |-> CHOOSE b : b \in Bijection(1..f[x], L[x])]
    OBVIOUS
  <1>3. \A x \in S : B[x] \in Bijection(1..f[x], L[x])
    BY <1>1, <1>2
  <1>4. \A x \in S : /\ \A i \in 1..f[x] : B[x][i] \in L[x]
                     /\ \A i, j \in 1..f[x] : B[x][i] = B[x][j] => i = j
                     /\ \A e \in L[x] : \E i \in 1..f[x] : B[x][i] = e
    <2> SUFFICES ASSUME NEW x \in S
                 PROVE  /\ \A i \in 1..f[x] : B[x][i] \in L[x]
                        /\ \A i, j \in 1..f[x] : B[x][i] = B[x][j] => i = j
                        /\ \A e \in L[x] : \E i \in 1..f[x] : B[x][i] = e
      OBVIOUS
    <2>1. PICK b : b = B[x]
      OBVIOUS
    <2>2. PICK D : D = 1..f[x]
      OBVIOUS
    <2>3. b \in Bijection(D, L[x])
      BY <1>3, <2>1, <2>2
    <2>4. /\ b \in [D -> L[x]]
          /\ \A i, j \in D : b[i] = b[j] => i = j
          /\ \A e \in L[x] : \E i \in D : b[i] = e
      BY <2>3 DEF Bijection, Injection, Surjection, IsInjective
    <2> QED
      BY <2>1, <2>2, <2>4
  <1> DEFINE H == [u \in Units(f, S) |-> B[u[1]][u[2]]]
  <1>5. \A u \in Units(f, S) : /\ u[1] \in S /\ u[2] \in 1..f[u[1]]
                               /\ u = <<u[1], u[2]>>
    BY DEF Units, UnitsOf
  <1>6. \A x \in S : \A i \in 1..f[x] : <<x, i>> \in Units(f, S)
    BY DEF Units, UnitsOf
  <1>7. H \in [Units(f, S) -> whole]
    <2> SUFFICES ASSUME NEW u \in Units(f, S) PROVE B[u[1]][u[2]] \in whole
      OBVIOUS
    <2>1. u[1] \in S /\ B[u[1]][u[2]] \in L[u[1]]
      BY <1>4, <1>5
    <2> QED
      BY <2>1
  <1>8. ASSUME NEW u \in Units(f, S), NEW v \in Units(f, S), H[u] = H[v]
        PROVE  u = v
    <2>1. /\ H[u] \in L[u[1]] /\ H[v] \in L[v[1]]
          /\ H[u] = B[u[1]][u[2]] /\ H[v] = B[v[1]][v[2]]
      BY <1>4, <1>5
    <2>2. u[1] = v[1]
      BY <1>5, <1>8, <2>1
    <2>3. u[2] = v[2]
      BY <1>4, <1>5, <1>8, <2>1, <2>2
    <2> QED
      BY <1>5, <2>2, <2>3
  <1>9. \A e \in whole : \E u \in Units(f, S) : H[u] = e
    <2> SUFFICES ASSUME NEW e \in whole PROVE \E u \in Units(f, S) : H[u] = e
      OBVIOUS
    <2>1. PICK x \in S : e \in L[x]
      OBVIOUS
    <2>2. PICK i \in 1..f[x] : B[x][i] = e
      BY <1>4, <2>1
    <2>3. <<x, i>> \in Units(f, S) /\ H[<<x, i>>] = e
      BY <1>6, <2>1, <2>2
    <2> QED
      BY <2>3
  <1> HIDE DEF H
  <1>10. H \in Bijection(Units(f, S), whole)
    BY <1>7, <1>8, <1>9, Fun_IsBij
  <1>11. ExistsBijection(whole, Units(f, S))
    BY <1>10, Fun_ExistsBij, Fun_ExistsBijSymmetric
  <1> QED
    BY <1>11, FS_Bijection DEF Total
=============================================================================
