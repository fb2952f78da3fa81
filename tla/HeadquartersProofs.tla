------------------------- MODULE HeadquartersProofs -------------------------
(***************************************************************************)
(* Proofs about the Headquarters for any rows, prices, drops, deliveries   *)
(* and starting purses, any number of requests, restarts and other         *)
(* instances.                                                              *)
(***************************************************************************)
EXTENDS Headquarters, FiniteSetTheorems, TLAPS

-----------------------------------------------------------------------------
(* Sums *)

LEMMA UnitOf ==
  ASSUME NEW S, NEW f \in [S -> Int]
  PROVE  \A u : u \in Units(f) <=> \E x \in S, k \in Int : k \in 1..f[x] /\ u = <<x, k>>
<1>1. DOMAIN f = S
  OBVIOUS
<1>2. ASSUME NEW u PROVE u \in Units(f) <=> \E x \in S : u \in {x} \X (1..f[x])
  BY <1>1 DEF Units
<1>3. ASSUME NEW u, NEW x, NEW n PROVE u \in {x} \X (1..n) <=> \E k \in Int : k \in 1..n /\ u = <<x, k>>
  OBVIOUS
<1> QED BY <1>2, <1>3

\* The units of one value.
LEMMA ValueUnits ==
  ASSUME NEW x, NEW n \in Int
  PROVE  LET A == {x} \X (1..n)
         IN  IsFiniteSet(A) /\ Cardinality(A) = IF n > 0 THEN n ELSE 0
<1>1. IsFiniteSet(1..n) /\ Cardinality(1..n) = IF n > 0 THEN n ELSE 0
  <2>1. IsFiniteSet(1..n) /\ Cardinality(1..n) = IF 1 > n THEN 0 ELSE n - 1 + 1
    BY FS_Interval
  <2> QED BY <2>1
<1>2. IsFiniteSet({x}) /\ Cardinality({x}) = 1
  BY FS_Singleton
<1>3. PICK U, V : /\ U = {x} /\ V = 1..n /\ IsFiniteSet(U) /\ IsFiniteSet(V)
                  /\ Cardinality(U) = 1 /\ Cardinality(V) = IF n > 0 THEN n ELSE 0
  BY <1>1, <1>2
<1>4. IsFiniteSet(U \X V) /\ Cardinality(U \X V) = Cardinality(U) * Cardinality(V)
  BY <1>3, FS_Product, Zenon
<1> QED BY <1>3, <1>4

LEMMA UnitsFinite ==
  ASSUME NEW S, IsFiniteSet(S), NEW f \in [S -> Int]
  PROVE  IsFiniteSet(Units(f)) /\ Cardinality(Units(f)) \in Nat
<1> DEFINE e == [x \in S |-> {x} \X (1..f[x])]
           T == {{x} \X (1..f[x]) : x \in S}
<1>1. e \in Surjection(S, T)
  BY DEF Surjection
<1>2. IsFiniteSet(T)
  BY <1>1, FS_Surjection
<1>3. \A A \in T : IsFiniteSet(A)
  <2>1. ASSUME NEW x \in S PROVE IsFiniteSet({x} \X (1..f[x]))
    BY ValueUnits
  <2> QED BY <2>1
<1>4. IsFiniteSet(UNION T)
  <2> HIDE DEF T
  <2> QED BY <1>2, <1>3, FS_UNION
<1>5. Units(f) = UNION T
  BY DEF Units
<1> QED BY <1>4, <1>5, FS_CardinalityType

\* The same units, counted under other names.
LEMMA Renamed ==
  ASSUME NEW A, NEW B, IsFiniteSet(A), NEW e \in Bijection(A, B)
  PROVE  IsFiniteSet(B) /\ Cardinality(B) = Cardinality(A)
<1>1. ExistsBijection(A, B)
  BY DEF ExistsBijection
<1> QED BY <1>1, FS_Bijection

LEMMA Disjoint ==
  ASSUME NEW A, NEW B, IsFiniteSet(A), IsFiniteSet(B), A \cap B = {}
  PROVE  IsFiniteSet(A \union B) /\ Cardinality(A \union B) = Cardinality(A) + Cardinality(B)
<1>1. Cardinality(A \cap B) = 0
  BY FS_EmptySet
<1>2. Cardinality(A) \in Nat /\ Cardinality(B) \in Nat
  BY FS_CardinalityType
<1>3. IsFiniteSet(A \union B) /\ Cardinality(A \union B) = Cardinality(A) + Cardinality(B) - Cardinality(A \cap B)
  BY FS_Union
<1> QED BY <1>1, <1>2, <1>3

LEMMA UnitsAdd ==
  ASSUME NEW S, IsFiniteSet(S), NEW f \in [S -> Nat], NEW g \in [S -> Nat], NEW h \in [S -> Nat],
         \A x \in S : h[x] = f[x] + g[x]
  PROVE  Cardinality(Units(h)) = Cardinality(Units(f)) + Cardinality(Units(g))
<1> DEFINE B == {u \in Units(h) : u[2] > f[u[1]]}
           e == [u \in Units(g) |-> <<u[1], f[u[1]] + u[2]>>]
<1>1. \A u : u \in Units(f) <=> \E x \in S, k \in Int : k \in 1..f[x] /\ u = <<x, k>>
  BY UnitOf
<1>2. \A u : u \in Units(g) <=> \E x \in S, k \in Int : k \in 1..g[x] /\ u = <<x, k>>
  BY UnitOf
<1>3. \A u : u \in Units(h) <=> \E x \in S, k \in Int : k \in 1..h[x] /\ u = <<x, k>>
  BY UnitOf
<1>4. Units(h) = Units(f) \union B
  <2>1. ASSUME NEW u \in Units(f) PROVE u \in Units(h)
    <3>1. PICK x \in S, k \in Int : k \in 1..f[x] /\ u = <<x, k>>
      BY <1>1
    <3>2. k \in 1..h[x]
      BY <3>1
    <3> QED BY <1>3, <3>1, <3>2
  <2>2. ASSUME NEW u \in Units(h), u \notin B PROVE u \in Units(f)
    <3>1. PICK x \in S, k \in Int : k \in 1..h[x] /\ u = <<x, k>>
      BY <1>3
    <3>2. k \in 1..f[x]
      BY <2>2, <3>1
    <3> QED BY <1>1, <3>1, <3>2
  <2> QED BY <2>1, <2>2
<1>5. Units(f) \cap B = {}
  <2>1. ASSUME NEW u \in Units(f), u \in B PROVE FALSE
    <3>1. PICK x \in S, k \in Int : k \in 1..f[x] /\ u = <<x, k>>
      BY <1>1
    <3> QED BY <2>1, <3>1
  <2> QED BY <2>1
<1>6. IsFiniteSet(Units(f)) /\ IsFiniteSet(Units(g)) /\ IsFiniteSet(Units(h))
  BY UnitsFinite
<1>7. IsFiniteSet(B) /\ Cardinality(B) = Cardinality(Units(g))
  <2>1. e \in [Units(g) -> B]
    <3>1. ASSUME NEW u \in Units(g) PROVE e[u] \in B
      <4>1. PICK x \in S, k \in Int : k \in 1..g[x] /\ u = <<x, k>>
        BY <1>2
      <4>2. e[u] = <<x, f[x] + k>> /\ f[x] + k \in 1..h[x] /\ f[x] + k > f[x]
        BY <4>1
      <4> QED BY <1>3, <4>2
    <3> QED BY <3>1
  <2>2. ASSUME NEW u \in Units(g), NEW v \in Units(g), e[u] = e[v] PROVE u = v
    <3>1. PICK x \in S, k \in Int : k \in 1..g[x] /\ u = <<x, k>>
      BY <1>2
    <3>2. PICK y \in S, l \in Int : l \in 1..g[y] /\ v = <<y, l>>
      BY <1>2
    <3>3. e[u] = <<x, f[x] + k>> /\ e[v] = <<y, f[y] + l>>
      BY <3>1, <3>2
    <3> QED BY <2>2, <3>1, <3>2, <3>3
  <2>3. ASSUME NEW b \in B PROVE \E u \in Units(g) : e[u] = b
    <3>1. PICK x \in S, k \in Int : k \in 1..h[x] /\ b = <<x, k>>
      BY <1>3
    <3>2. k - f[x] \in 1..g[x] /\ f[x] + (k - f[x]) = k
      BY <3>1
    <3>3. <<x, k - f[x]>> \in Units(g)
      BY <1>2, <3>2
    <3>4. e[<<x, k - f[x]>>] = b
      BY <3>1, <3>2, <3>3
    <3> QED BY <3>3, <3>4
  <2> HIDE DEF e, B
  <2>4. e \in Bijection(Units(g), B)
    BY <2>1, <2>2, <2>3 DEF Bijection, Injection, Surjection, IsInjective
  <2> QED BY <1>6, <2>4, Renamed
<1> HIDE DEF B
<1> QED BY <1>4, <1>5, <1>6, <1>7, Disjoint
LEMMA NoUnits ==
  ASSUME NEW S, NEW f \in [S -> Int], \A x \in S : f[x] <= 0
  PROVE  Units(f) = {}
<1>1. \A u : u \in Units(f) <=> \E x \in S, k \in Int : k \in 1..f[x] /\ u = <<x, k>>
  BY UnitOf
<1>2. \A x \in S : 1..f[x] = {}
  OBVIOUS
<1> QED BY <1>1, <1>2

LEMMA NegativeType ==
  ASSUME NEW S, NEW f \in [S -> Int]
  PROVE  Negative(f) \in [S -> Int] /\ \A x \in S : Negative(f)[x] = -f[x]
BY DEF Negative

LEMMA TotalOfNaturals ==
  ASSUME NEW S, IsFiniteSet(S), NEW f \in [S -> Nat]
  PROVE  Total(f) = Cardinality(Units(f)) /\ Total(f) \in Nat
<1>1. Negative(f) \in [S -> Int] /\ \A x \in S : Negative(f)[x] <= 0
  BY NegativeType
<1>2. Cardinality(Units(Negative(f))) = 0
  BY <1>1, NoUnits, FS_EmptySet
<1>3. Cardinality(Units(f)) \in Nat
  BY UnitsFinite
<1> QED BY <1>2, <1>3 DEF Total

\* Functions that agree where they are positive have the same units.
LEMMA SameUnits ==
  ASSUME NEW S, NEW T, T \subseteq S, NEW f \in [S -> Int], NEW g \in [T -> Int],
         \A x \in T : g[x] = f[x] \/ (g[x] <= 0 /\ f[x] <= 0), \A x \in S \ T : f[x] <= 0
  PROVE  Units(f) = Units(g)
<1>1. \A u : u \in Units(f) <=> \E x \in S, k \in Int : k \in 1..f[x] /\ u = <<x, k>>
  BY UnitOf
<1>2. \A u : u \in Units(g) <=> \E x \in T, k \in Int : k \in 1..g[x] /\ u = <<x, k>>
  BY UnitOf
<1>3. \A x \in T : 1..g[x] = 1..f[x]
  <2>1. ASSUME NEW x \in T, g[x] <= 0, f[x] <= 0 PROVE 1..g[x] = {} /\ 1..f[x] = {}
    BY <2>1
  <2> QED BY <2>1
<1>4. \A x \in S \ T : 1..f[x] = {}
  OBVIOUS
<1>5. ASSUME NEW u PROVE u \in Units(f) <=> u \in Units(g)
  <2>1. ASSUME NEW x \in S, NEW k \in Int, k \in 1..f[x], u = <<x, k>> PROVE u \in Units(g)
    <3>1. x \in T
      BY <1>4, <2>1
    <3> QED BY <1>2, <1>3, <2>1, <3>1
  <2>2. ASSUME NEW x \in T, NEW k \in Int, k \in 1..g[x], u = <<x, k>> PROVE u \in Units(f)
    <3>1. x \in S /\ k \in 1..f[x]
      BY <1>3, <2>2
    <3> QED BY <1>1, <2>2, <3>1
  <2> QED BY <1>1, <1>2, <2>1, <2>2
<1> QED BY <1>5

LEMMA TotalOfDifference ==
  ASSUME NEW S, IsFiniteSet(S), NEW f \in [S -> Int], NEW g \in [S -> Nat], NEW h \in [S -> Nat],
         \A x \in S : f[x] = g[x] - h[x]
  PROVE  Total(f) = Cardinality(Units(g)) - Cardinality(Units(h))
<1> DEFINE p == [x \in S |-> IF f[x] > 0 THEN f[x] ELSE 0]
           n == [x \in S |-> IF f[x] > 0 THEN 0 ELSE -f[x]]
           s == [x \in S |-> p[x] + h[x]]
<1>1. /\ p \in [S -> Nat] /\ n \in [S -> Nat] /\ s \in [S -> Nat]
      /\ \A x \in S : s[x] = p[x] + h[x] /\ s[x] = n[x] + g[x]
  OBVIOUS
<1>2. Units(f) = Units(p)
  <2>1. \A x \in S : p[x] = f[x] \/ (p[x] <= 0 /\ f[x] <= 0)
    OBVIOUS
  <2>2. p \in [S -> Int]
    BY <1>1
  <2> QED BY <2>1, <2>2, SameUnits
<1>3. Units(Negative(f)) = Units(n)
  <2>1. PICK m : m = Negative(f) /\ m \in [S -> Int] /\ \A x \in S : m[x] = -f[x]
    BY NegativeType
  <2>2. \A x \in S : n[x] = m[x] \/ (n[x] <= 0 /\ m[x] <= 0)
    BY <2>1
  <2>3. n \in [S -> Int]
    BY <1>1
  <2> HIDE DEF n
  <2>4. Units(m) = Units(n)
    BY <2>1, <2>2, <2>3, SameUnits
  <2> QED BY <2>1, <2>4
<1> HIDE DEF p, n, s
<1>4. Cardinality(Units(s)) = Cardinality(Units(p)) + Cardinality(Units(h))
  BY <1>1, UnitsAdd
<1>5. Cardinality(Units(s)) = Cardinality(Units(n)) + Cardinality(Units(g))
  BY <1>1, UnitsAdd
<1>6. PICK a, b, c, d \in Nat : /\ a = Cardinality(Units(p)) /\ b = Cardinality(Units(n))
                               /\ c = Cardinality(Units(g)) /\ d = Cardinality(Units(h))
  <2>1. \A z \in [S -> Nat] : Cardinality(Units(z)) \in Nat
    BY UnitsFinite
  <2> QED BY <1>1, <2>1
<1> QED BY <1>2, <1>3, <1>4, <1>5, <1>6 DEF Total

LEMMA Parts ==
  ASSUME NEW S, NEW f \in [S -> Int]
  PROVE  \E p, m \in [S -> Nat] : \A x \in S : f[x] = p[x] - m[x]
<1> DEFINE p == [x \in S |-> IF f[x] > 0 THEN f[x] ELSE 0]
           m == [x \in S |-> IF f[x] > 0 THEN 0 ELSE -f[x]]
<1>1. p \in [S -> Nat] /\ m \in [S -> Nat] /\ \A x \in S : f[x] = p[x] - m[x]
  OBVIOUS
<1> HIDE DEF p, m
<1> QED BY <1>1

LEMMA TotalAdds ==
  ASSUME NEW S, IsFiniteSet(S), NEW f \in [S -> Int], NEW g \in [S -> Int], NEW h \in [S -> Int],
         \A x \in S : h[x] = f[x] + g[x]
  PROVE  Total(h) = Total(f) + Total(g)
<1>a. \A z \in [S -> Int] : \E p, m \in [S -> Nat] : \A x \in S : z[x] = p[x] - m[x]
  BY Parts
<1>0. PICK p, m \in [S -> Nat] : \A x \in S : f[x] = p[x] - m[x]
  BY <1>a
<1>1. PICK q, n \in [S -> Nat] : \A x \in S : g[x] = q[x] - n[x]
  BY <1>a
<1> DEFINE up == [x \in S |-> p[x] + q[x]]
           down == [x \in S |-> m[x] + n[x]]
<1>2. up \in [S -> Nat] /\ down \in [S -> Nat] /\ \A x \in S : h[x] = up[x] - down[x]
  BY <1>0, <1>1
<1>3. (\A x \in S : up[x] = p[x] + q[x]) /\ \A x \in S : down[x] = m[x] + n[x]
  OBVIOUS
<1> HIDE DEF up, down
<1>4. Total(h) = Cardinality(Units(up)) - Cardinality(Units(down))
  BY <1>2, TotalOfDifference
<1>5. Cardinality(Units(up)) = Cardinality(Units(p)) + Cardinality(Units(q))
  BY <1>2, <1>3, UnitsAdd
<1>6. Cardinality(Units(down)) = Cardinality(Units(m)) + Cardinality(Units(n))
  BY <1>2, <1>3, UnitsAdd
<1>7. Total(f) = Cardinality(Units(p)) - Cardinality(Units(m))
  BY <1>0, TotalOfDifference
<1>8. Total(g) = Cardinality(Units(q)) - Cardinality(Units(n))
  BY <1>1, TotalOfDifference
<1>9. PICK a, b, c, d \in Nat : /\ a = Cardinality(Units(p)) /\ b = Cardinality(Units(q))
                               /\ c = Cardinality(Units(m)) /\ d = Cardinality(Units(n))
  <2>1. \A z \in [S -> Nat] : Cardinality(Units(z)) \in Nat
    BY UnitsFinite
  <2> QED BY <2>1
<1> QED BY <1>4, <1>5, <1>6, <1>7, <1>8, <1>9

LEMMA TotalType ==
  ASSUME NEW S, IsFiniteSet(S), NEW f \in [S -> Int]
  PROVE  Total(f) \in Int
<1>1. Cardinality(Units(f)) \in Nat
  BY UnitsFinite
<1>2. Cardinality(Units(Negative(f))) \in Nat
  BY NegativeType, UnitsFinite
<1> QED BY <1>1, <1>2 DEF Total

\* Zeros add nothing.
LEMMA TotalOfPart ==
  ASSUME NEW S, NEW T, T \subseteq S, NEW f \in [S -> Int], NEW g \in [T -> Int],
         \A x \in T : g[x] = f[x], \A x \in S \ T : f[x] = 0
  PROVE  Total(f) = Total(g)
<1>1. Units(f) = Units(g)
  BY SameUnits
<1>2. Units(Negative(f)) = Units(Negative(g))
  <2>1. /\ Negative(f) \in [S -> Int] /\ \A x \in S : Negative(f)[x] = -f[x]
        /\ Negative(g) \in [T -> Int] /\ \A x \in T : Negative(g)[x] = -g[x]
    BY NegativeType
  <2>2. (\A x \in T : Negative(g)[x] = Negative(f)[x]) /\ \A x \in S \ T : Negative(f)[x] <= 0
    BY <2>1
  <2> QED BY <2>1, <2>2, SameUnits
<1> QED BY <1>1, <1>2 DEF Total

LEMMA TotalOfNone == ASSUME NEW f \in [{} -> Int] PROVE Total(f) = 0
<1>1. Units(f) = {} /\ Units(Negative(f)) = {}
  BY NoUnits, NegativeType
<1> QED BY <1>1, FS_EmptySet DEF Total

LEMMA TotalOfOneMore ==
  ASSUME NEW S, IsFiniteSet(S), NEW x, x \notin S,
         NEW f \in [S -> Int], NEW g \in [S \union {x} -> Int], \A y \in S : g[y] = f[y]
  PROVE  Total(g) = Total(f) + g[x]
<1>1. ASSUME NEW a \in [S -> Int], NEW b \in [S \union {x} -> Int], \A y \in S : b[y] = a[y]
      PROVE  Cardinality(Units(b)) = Cardinality(Units(a)) + IF b[x] > 0 THEN b[x] ELSE 0
  <2> DEFINE A == {x} \X (1..b[x])
  <2>1. IsFiniteSet(A) /\ Cardinality(A) = IF b[x] > 0 THEN b[x] ELSE 0
    BY ValueUnits
  <2>2. \A u : u \in Units(a) <=> \E y \in S, k \in Int : k \in 1..a[y] /\ u = <<y, k>>
    BY UnitOf
  <2>3. \A u : u \in Units(b) <=> \E y \in S \union {x}, k \in Int : k \in 1..b[y] /\ u = <<y, k>>
    BY UnitOf
  <2>4. Units(b) = Units(a) \union A
    <3>1. \A u : u \in A <=> \E k \in Int : k \in 1..b[x] /\ u = <<x, k>>
      OBVIOUS
    <3> HIDE DEF A
    <3> QED BY <1>1, <2>2, <2>3, <3>1
  <2>5. Units(a) \cap A = {}
    BY <2>2
  <2>6. IsFiniteSet(Units(a))
    BY UnitsFinite
  <2> HIDE DEF A
  <2> QED BY <2>1, <2>4, <2>5, <2>6, Disjoint
<1>2. Cardinality(Units(g)) = Cardinality(Units(f)) + IF g[x] > 0 THEN g[x] ELSE 0
  BY <1>1
<1>3. Cardinality(Units(Negative(g))) = Cardinality(Units(Negative(f))) + IF -g[x] > 0 THEN -g[x] ELSE 0
  <2>1. /\ Negative(f) \in [S -> Int] /\ \A y \in S : Negative(f)[y] = -f[y]
        /\ Negative(g) \in [S \union {x} -> Int] /\ \A y \in S \union {x} : Negative(g)[y] = -g[y]
    BY NegativeType
  <2> QED BY <1>1, <2>1
<1>4. Cardinality(Units(f)) \in Nat /\ Cardinality(Units(Negative(f))) \in Nat
  BY UnitsFinite, NegativeType
<1> QED BY <1>2, <1>3, <1>4 DEF Total

LEMMA TotalOfOne ==
  ASSUME NEW S, NEW x \in S, NEW f \in [S -> Int], \A y \in S \ {x} : f[y] = 0
  PROVE  Total(f) = f[x]
<1>1. ASSUME NEW a \in [S -> Int], \A y \in S \ {x} : a[y] = 0
      PROVE  Cardinality(Units(a)) = IF a[x] > 0 THEN a[x] ELSE 0
  <2> DEFINE A == {x} \X (1..a[x])
  <2>1. Cardinality(A) = IF a[x] > 0 THEN a[x] ELSE 0
    BY ValueUnits
  <2>2. \A u : u \in Units(a) <=> \E y \in S, k \in Int : k \in 1..a[y] /\ u = <<y, k>>
    BY UnitOf
  <2>3. \A u : u \in A <=> \E k \in Int : k \in 1..a[x] /\ u = <<x, k>>
    OBVIOUS
  <2>4. \A y \in S \ {x} : 1..a[y] = {}
    BY <1>1
  <2> HIDE DEF A
  <2>5. Units(a) = A
    BY <2>2, <2>3, <2>4
  <2> QED BY <2>1, <2>5
<1>2. Cardinality(Units(f)) = IF f[x] > 0 THEN f[x] ELSE 0
  BY <1>1
<1>3. Cardinality(Units(Negative(f))) = IF -f[x] > 0 THEN -f[x] ELSE 0
  <2>1. Negative(f) \in [S -> Int] /\ \A y \in S : Negative(f)[y] = -f[y]
    BY NegativeType
  <2>2. \A y \in S \ {x} : Negative(f)[y] = 0
    BY <2>1
  <2> QED BY <1>1, <2>1, <2>2
<1> QED BY <1>2, <1>3 DEF Total

\* The same values under other names.
LEMMA TotalRenamed ==
  ASSUME NEW S, NEW T, IsFiniteSet(S), NEW f \in [S -> Nat], NEW g \in [T -> Nat], IsFiniteSet(T),
         NEW e \in [S -> T], \A x, y \in S : e[x] = e[y] => x = y,
         \A x \in S : g[e[x]] = f[x],
         \A y \in T : g[y] > 0 => \E x \in S : e[x] = y
  PROVE  Total(f) = Total(g)
<1> DEFINE d == [u \in Units(f) |-> <<e[u[1]], u[2]>>]
<1>1. \A u : u \in Units(f) <=> \E x \in S, k \in Int : k \in 1..f[x] /\ u = <<x, k>>
  BY UnitOf
<1>2. \A u : u \in Units(g) <=> \E y \in T, k \in Int : k \in 1..g[y] /\ u = <<y, k>>
  BY UnitOf
<1>3. ASSUME NEW u \in Units(f) PROVE d[u] \in Units(g)
  <2>1. PICK x \in S, k \in Int : k \in 1..f[x] /\ u = <<x, k>>
    BY <1>1
  <2>2. d[u] = <<e[x], k>>
    BY <2>1
  <2> QED BY <1>2, <2>1, <2>2
<1>4. ASSUME NEW u \in Units(f), NEW v \in Units(f), d[u] = d[v] PROVE u = v
  <2>1. PICK x \in S, k \in Int : k \in 1..f[x] /\ u = <<x, k>>
    BY <1>1
  <2>2. PICK y \in S, l \in Int : l \in 1..f[y] /\ v = <<y, l>>
    BY <1>1
  <2>3. d[u] = <<e[x], k>> /\ d[v] = <<e[y], l>>
    BY <2>1, <2>2
  <2>4. e[x] = e[y] /\ k = l
    BY <1>4, <2>3
  <2> QED BY <2>1, <2>2, <2>4
<1>5. ASSUME NEW v \in Units(g) PROVE \E u \in Units(f) : d[u] = v
  <2>1. PICK y \in T, k \in Int : k \in 1..g[y] /\ v = <<y, k>>
    BY <1>2
  <2>2. g[y] > 0
    BY <2>1
  <2>3. PICK x \in S : e[x] = y
    BY <2>2
  <2>4. <<x, k>> \in Units(f)
    BY <1>1, <2>1, <2>3
  <2>5. d[<<x, k>>] = v
    BY <2>1, <2>3, <2>4
  <2> QED BY <2>4, <2>5
<1>6. d \in [Units(f) -> Units(g)]
  BY <1>3
<1>7. IsFiniteSet(Units(f))
  BY UnitsFinite
<1>8. Cardinality(Units(g)) = Cardinality(Units(f))
  <2> HIDE DEF d
  <2>1. PICK A, B, b : A = Units(f) /\ B = Units(g) /\ b = d
    OBVIOUS
  <2>2. IsFiniteSet(A) /\ b \in [A -> B]
    BY <1>6, <1>7, <2>1, Zenon
  <2>3. (\A u, v \in A : b[u] = b[v] => u = v) /\ \A v \in B : \E u \in A : b[u] = v
    BY <1>4, <1>5, <2>1, Zenon
  <2>4. b \in Bijection(A, B)
    BY <2>2, <2>3 DEF Bijection, Injection, Surjection, IsInjective
  <2> QED BY <2>1, <2>2, <2>4, Renamed
<1> QED BY <1>8, TotalOfNaturals

-----------------------------------------------------------------------------
(* What a store is worth *)

LEMMA Constants ==
  /\ IsFiniteSet(Row) /\ Drop \subseteq Stackable /\ Stackable \subseteq Row /\ Sold \subseteq Row
  /\ Uniform \subseteq Row /\ Prize \subseteq Row /\ Drop \subseteq Row
  /\ Prize \cap Stackable = {}
  /\ Credit \in [Row -> Nat] /\ \A r \in Stackable \union Prize : Credit[r] = 0
  /\ Price \in [Sold -> Nat]
  /\ MailCredits \in [Mail -> Nat] /\ MailItems \in [Mail -> SUBSET Row] /\ Salary \in Nat
  /\ \A cards \in Rolls : cards \in Seq(Row)
  /\ None \notin Nat
BY HeadquartersAssumption DEF HeadquartersAssumption

LEMMA FinitePart == ASSUME NEW R, R \subseteq Row PROVE IsFiniteSet(R)
BY Constants, FS_Subset

LEMMA Product == ASSUME NEW a \in Nat, NEW b \in Int, NEW c \in Int
                 PROVE  a * b \in Int /\ a * (b + c) = a * b + a * c /\ 0 * b = 0 /\ a * 0 = 0 /\ a * 1 = a /\ a * b = b * a
                        /\ (b \in Nat => a * b \in Nat)
OBVIOUS

LEMMA WorthType ==
  ASSUME NEW c \in [Row -> Int]
  PROVE  [r \in Row |-> Credit[r] * c[r]] \in [Row -> Int] /\ WorthOf(c) \in Int
<1>1. [r \in Row |-> Credit[r] * c[r]] \in [Row -> Int]
  BY Constants, Product
<1> QED BY <1>1, Constants, TotalType DEF WorthOf

LEMMA WorthAdds ==
  ASSUME NEW c \in [Row -> Int], NEW d \in [Row -> Int], NEW e \in [Row -> Int],
         \A r \in Row : e[r] = c[r] + d[r]
  PROVE  WorthOf(e) = WorthOf(c) + WorthOf(d)
<1>1. PICK f, g, h : /\ f = [r \in Row |-> Credit[r] * c[r]] /\ g = [r \in Row |-> Credit[r] * d[r]]
                     /\ h = [r \in Row |-> Credit[r] * e[r]]
  OBVIOUS
<1>2. f \in [Row -> Int] /\ g \in [Row -> Int] /\ h \in [Row -> Int]
  BY <1>1, WorthType
<1>3. ASSUME NEW r \in Row PROVE h[r] = f[r] + g[r]
  <2>1. Credit[r] \in Nat /\ c[r] \in Int /\ d[r] \in Int /\ e[r] = c[r] + d[r]
    BY Constants
  <2>2. h[r] = Credit[r] * e[r] /\ f[r] = Credit[r] * c[r] /\ g[r] = Credit[r] * d[r]
    BY <1>1
  <2> QED BY <2>1, <2>2, Product
<1>4. IsFiniteSet(Row)
  BY Constants
<1>5. Total(h) = Total(f) + Total(g)
  BY <1>2, <1>3, <1>4, TotalAdds
<1> QED BY <1>1, <1>5 DEF WorthOf

\* Copies of the rows in R alone.
LEMMA WorthOfPart ==
  ASSUME NEW R, R \subseteq Row, NEW d \in [Row -> Int], \A r \in Row \ R : d[r] = 0,
         NEW g \in [R -> Int], \A r \in R : g[r] = Credit[r] * d[r]
  PROVE  WorthOf(d) = Total(g)
<1>1. PICK f : f = [r \in Row |-> Credit[r] * d[r]]
  OBVIOUS
<1>2. f \in [Row -> Int]
  BY <1>1, WorthType
<1>3. \A r \in R : g[r] = f[r]
  BY <1>1
<1>4. \A r \in Row \ R : f[r] = 0
  BY <1>1, Constants, Product
<1> QED BY <1>1, <1>2, <1>3, <1>4, TotalOfPart DEF WorthOf

LEMMA WorthOfOne ==
  ASSUME NEW x \in Row, NEW d \in [Row -> Int], \A r \in Row \ {x} : d[r] = 0
  PROVE  WorthOf(d) = Credit[x] * d[x]
<1>1. PICK f : f = [r \in Row |-> Credit[r] * d[r]]
  OBVIOUS
<1>2. f \in [Row -> Int] /\ f[x] = Credit[x] * d[x]
  BY <1>1, WorthType
<1>3. \A r \in Row \ {x} : f[r] = 0
  BY <1>1, Constants, Product
<1> QED BY <1>1, <1>2, <1>3, TotalOfOne DEF WorthOf

LEMMA WorthOfGranted ==
  ASSUME NEW c \in Copies, NEW R, R \subseteq Row
  PROVE  /\ Granted(c, R) \in Copies
         /\ [r \in R |-> Credit[r]] \in [R -> Nat]
         /\ WorthOf(Granted(c, R)) = WorthOf(c) + Total([r \in R |-> Credit[r]])
<1> DEFINE d == [r \in Row |-> IF r \in R THEN 1 ELSE 0]
           g == [r \in R |-> Credit[r]]
           e == Granted(c, R)
<1>1. d \in [Row -> Int] /\ g \in [R -> Nat] /\ g \in [R -> Int] /\ \A r \in Row \ R : d[r] = 0
  BY Constants
<1>2. \A r \in R : g[r] = Credit[r] * d[r]
  BY Constants, Product
<1>3. e \in Copies /\ c \in [Row -> Int] /\ e \in [Row -> Int] /\ \A r \in Row : e[r] = c[r] + d[r]
  BY DEF Granted, Copies
<1> HIDE DEF d, g, e
<1>4. WorthOf(d) = Total(g)
  <2>1. PICK D, G : D = d /\ G = g
    OBVIOUS
  <2>2. D \in [Row -> Int] /\ (\A r \in Row \ R : D[r] = 0) /\ G \in [R -> Int] /\ \A r \in R : G[r] = Credit[r] * D[r]
    BY <1>1, <1>2, <2>1
  <2>3. WorthOf(D) = Total(G)
    BY <2>2, WorthOfPart
  <2> QED BY <2>1, <2>3
<1>5. WorthOf(e) = WorthOf(c) + WorthOf(d)
  BY <1>1, <1>3, WorthAdds
<1> QED BY <1>1, <1>3, <1>4, <1>5 DEF e, g

-----------------------------------------------------------------------------
(* The account of a store *)

Sound(s) == s \in Store /\ IsFiniteSet(s.receipts)

\* What WealthIsAccounted says of the store s when puts have added b.
Balance(s, b) ==
    /\ s.credits + WorthOf(s.copies) =
          StartCredits + WorthOf(StartCopies) + WorthOf(b) + Total([p \in s.receipts |-> Worth(p)])
    /\ \A r \in Stackable :
          s.copies[r] = StartCopies[r] + b[r] + Total([p \in s.receipts |-> Brought(p, r)])

LEMMA ReceiptKinds ==
  ASSUME NEW p \in Receipt
  PROVE  \/ p \in [kind : {"purchase"}, tx : Nat, what : Sold]
         \/ p \in [kind : {"pawn"}, tx : Nat, items : Spares]
         \/ p \in [kind : {"consume"}, tx : Nat, what : Row, count : Nat]
         \/ p \in [kind : {"drop"}, tx : Nat, what : Drop, cards : Rolls]
         \/ p \in [kind : {"mail"}, what : Mail]
         \/ p \in [kind : {"payroll"}, tx : Nat]
BY DEF Receipt

LEMMA CardWorth ==
  ASSUME NEW cards \in Rolls
  PROVE  /\ IsFiniteSet(DOMAIN cards) /\ \A i \in DOMAIN cards : cards[i] \in Row
         /\ [i \in DOMAIN cards |-> Credit[cards[i]]] \in [DOMAIN cards -> Nat]
         /\ Total([i \in DOMAIN cards |-> Credit[cards[i]]]) \in Nat
         /\ \A r : /\ IsFiniteSet({i \in DOMAIN cards : cards[i] = r})
                   /\ Cardinality({i \in DOMAIN cards : cards[i] = r}) \in Nat
<1>1. cards \in Seq(Row)
  BY Constants
<1>2. PICK n \in Nat : DOMAIN cards = 1..n
  BY <1>1
<1>3. IsFiniteSet(DOMAIN cards)
  <2>1. IsFiniteSet(1..n)
    BY FS_Interval
  <2> QED BY <1>2, <2>1
<1>4. \A i \in DOMAIN cards : cards[i] \in Row
  BY <1>1
<1>5. PICK f, I : I = DOMAIN cards /\ f = [i \in I |-> Credit[cards[i]]]
  OBVIOUS
<1>6. f \in [I -> Nat]
  BY <1>4, <1>5, Constants
<1>7. Total(f) \in Nat
  BY <1>3, <1>5, <1>6, TotalOfNaturals
<1>8. ASSUME NEW r PROVE /\ IsFiniteSet({i \in DOMAIN cards : cards[i] = r})
                         /\ Cardinality({i \in DOMAIN cards : cards[i] = r}) \in Nat
  <2>1. PICK A : A = {i \in DOMAIN cards : cards[i] = r}
    OBVIOUS
  <2>2. A \subseteq DOMAIN cards
    BY <2>1
  <2>3. IsFiniteSet(A)
    BY <1>3, <2>2, FS_Subset
  <2> QED BY <2>1, <2>3, FS_CardinalityType
<1> QED BY <1>3, <1>4, <1>5, <1>6, <1>7, <1>8

LEMMA ReceiptType ==
  ASSUME NEW p \in Receipt
  PROVE  Worth(p) \in Int /\ \A r \in Row : Brought(p, r) \in Int
<1>1. CASE p \in [kind : {"purchase"}, tx : Nat, what : Sold]
  BY <1>1, Constants DEF Worth, Brought
<1>2. CASE p \in [kind : {"pawn"}, tx : Nat, items : Spares]
  BY <1>2 DEF Worth, Brought
<1>3. CASE p \in [kind : {"consume"}, tx : Nat, what : Row, count : Nat]
  BY <1>3 DEF Worth, Brought
<1>4. CASE p \in [kind : {"drop"}, tx : Nat, what : Drop, cards : Rolls]
  <2>1. p.kind = "drop" /\ p.cards \in Rolls
    BY <1>4
  <2>2. Worth(p) = Total([i \in DOMAIN p.cards |-> Credit[p.cards[i]]])
    BY <2>1 DEF Worth
  <2>3. \A r : Brought(p, r) = Cardinality({i \in DOMAIN p.cards : p.cards[i] = r}) - (IF p.what = r THEN 1 ELSE 0)
    BY <2>1 DEF Brought
  <2>4. /\ Total([i \in DOMAIN p.cards |-> Credit[p.cards[i]]]) \in Nat
        /\ \A r : Cardinality({i \in DOMAIN p.cards : p.cards[i] = r}) \in Nat
    BY <2>1, CardWorth
  <2>5. ASSUME NEW r PROVE Brought(p, r) \in Int
    <3>1. PICK n \in Nat : n = Cardinality({i \in DOMAIN p.cards : p.cards[i] = r})
      BY <2>4
    <3> QED BY <2>3, <3>1
  <2> QED BY <2>2, <2>4, <2>5
<1>5. CASE p \in [kind : {"mail"}, what : Mail]
  <2>1. p.kind = "mail" /\ p.what \in Mail /\ MailItems[p.what] \subseteq Row /\ MailCredits[p.what] \in Nat
    BY <1>5, Constants
  <2>2. PICK R, f : R = MailItems[p.what] /\ f = [r \in R |-> Credit[r]]
    OBVIOUS
  <2>3. f \in [R -> Nat] /\ IsFiniteSet(R)
    BY <2>1, <2>2, FinitePart, Constants
  <2>4. Total(f) \in Nat
    BY <2>3, TotalOfNaturals
  <2>5. Worth(p) = MailCredits[p.what] + Total(f)
    BY <2>1, <2>2 DEF Worth
  <2>6. \A r : Brought(p, r) = IF r \in MailItems[p.what] THEN 1 ELSE 0
    BY <2>1 DEF Brought
  <2> QED BY <2>1, <2>4, <2>5, <2>6
<1>6. CASE p \in [kind : {"payroll"}, tx : Nat]
  BY <1>6, Constants DEF Worth, Brought
<1> QED BY <1>1, <1>2, <1>3, <1>4, <1>5, <1>6, ReceiptKinds

\* A receipt more, and what it is worth.
LEMMA OneReceiptMore ==
  ASSUME NEW s, Sound(s), NEW p \in Receipt, p \notin s.receipts
  PROVE  /\ Total([x \in s.receipts |-> Worth(x)]) \in Int
         /\ Total([x \in s.receipts \union {p} |-> Worth(x)]) = Total([x \in s.receipts |-> Worth(x)]) + Worth(p)
         /\ \A r \in Row :
              /\ Total([x \in s.receipts |-> Brought(x, r)]) \in Int
              /\ Total([x \in s.receipts \union {p} |-> Brought(x, r)])
                    = Total([x \in s.receipts |-> Brought(x, r)]) + Brought(p, r)
<1>1. PICK R : R = s.receipts /\ IsFiniteSet(R) /\ R \subseteq Receipt /\ p \notin R
  BY DEF Sound, Store
<1>2. PICK f, g : f = [x \in R |-> Worth(x)] /\ g = [x \in R \union {p} |-> Worth(x)]
  OBVIOUS
<1>3. f \in [R -> Int] /\ g \in [R \union {p} -> Int] /\ g[p] = Worth(p) /\ \A y \in R : g[y] = f[y]
  BY <1>1, <1>2, ReceiptType
<1>4. Total(f) \in Int /\ Total(g) = Total(f) + g[p]
  <2>1. Total(f) \in Int
    BY <1>1, <1>3, TotalType
  <2>2. Total(g) = Total(f) + g[p]
    BY <1>1, <1>3, TotalOfOneMore
  <2> QED BY <2>1, <2>2
<1>5. ASSUME NEW r \in Row
      PROVE  /\ Total([x \in R |-> Brought(x, r)]) \in Int
             /\ Total([x \in R \union {p} |-> Brought(x, r)]) = Total([x \in R |-> Brought(x, r)]) + Brought(p, r)
  <2>1. PICK a, b : a = [x \in R |-> Brought(x, r)] /\ b = [x \in R \union {p} |-> Brought(x, r)]
    OBVIOUS
  <2>2. a \in [R -> Int] /\ b \in [R \union {p} -> Int] /\ b[p] = Brought(p, r) /\ \A y \in R : b[y] = a[y]
    BY <1>1, <2>1, ReceiptType
  <2>3. Total(a) \in Int
    BY <1>1, <2>2, TotalType
  <2>4. Total(b) = Total(a) + b[p]
    BY <1>1, <2>2, TotalOfOneMore
  <2> QED BY <2>1, <2>2, <2>3, <2>4
<1> QED BY <1>1, <1>2, <1>3, <1>4, <1>5

\* The operation made the store t of s, and the account of t is that of s.
Makes(s, t) ==
    /\ Sound(t) /\ t.revision = s.revision
    /\ \A b \in [Row -> Int] : Balance(s, b) => Balance(t, b)

LEMMA StoreType ==
  ASSUME NEW s \in Store
  PROVE  /\ s.revision \in Nat /\ s.credits \in Nat /\ s.copies \in Copies /\ s.copies \in [Row -> Int]
         /\ s.receipts \subseteq Receipt /\ s.payday \in Nat \union {None}
         /\ WorthOf(s.copies) \in Int
<1>1. s.copies \in [Row -> Int] /\ s.copies \in Copies
  BY DEF Store, Copies
<1> QED BY <1>1, WorthType DEF Store

LEMMA StartType == StartCredits \in Nat /\ StartCopies \in Copies /\ WorthOf(StartCopies) \in Int
<1>1. StartCredits \in Nat /\ StartCopies \in Copies /\ StartCopies \in [Row -> Int]
  BY HeadquartersAssumption DEF HeadquartersAssumption, Copies
<1> QED BY <1>1, WorthType

LEMMA ReceiptsType ==
  ASSUME NEW s, Sound(s)
  PROVE  /\ Total([x \in s.receipts |-> Worth(x)]) \in Int
         /\ \A r \in Row : Total([x \in s.receipts |-> Brought(x, r)]) \in Int
<1>1. PICK R : R = s.receipts /\ IsFiniteSet(R) /\ R \subseteq Receipt
  BY DEF Sound, Store
<1>2. [x \in R |-> Worth(x)] \in [R -> Int] /\ \A r \in Row : [x \in R |-> Brought(x, r)] \in [R -> Int]
  BY <1>1, ReceiptType
<1>3. Total([x \in R |-> Worth(x)]) \in Int
  BY <1>1, <1>2, TotalType
<1>4. ASSUME NEW r \in Row PROVE Total([x \in R |-> Brought(x, r)]) \in Int
  BY <1>1, <1>2, TotalType
<1> QED BY <1>1, <1>3, <1>4

\* A new receipt, and as much more wealth as it is worth.
LEMMA Receipted ==
  ASSUME NEW s, Sound(s), NEW t \in Store, NEW p \in Receipt, p \notin s.receipts,
         t.receipts = s.receipts \union {p}, t.revision = s.revision,
         t.credits + WorthOf(t.copies) = s.credits + WorthOf(s.copies) + Worth(p),
         \A r \in Stackable : t.copies[r] = s.copies[r] + Brought(p, r)
  PROVE  Makes(s, t)
<1>1. IsFiniteSet(t.receipts)
  BY FS_AddElement DEF Sound
<1>2. ASSUME NEW b \in [Row -> Int], Balance(s, b) PROVE Balance(t, b)
  <2>1. PICK w, v : w = Total([x \in s.receipts |-> Worth(x)]) /\ v = Total([x \in t.receipts |-> Worth(x)])
    OBVIOUS
  <2>2. w \in Int /\ v = w + Worth(p) /\ Worth(p) \in Int
    BY <2>1, OneReceiptMore, ReceiptType
  <2>3. s.credits + WorthOf(s.copies) = StartCredits + WorthOf(StartCopies) + WorthOf(b) + w
    BY <1>2, <2>1 DEF Balance
  <2>4. WorthOf(b) \in Int /\ WorthOf(StartCopies) \in Int /\ StartCredits \in Nat
    BY WorthType, StartType
  <2>5. t.credits + WorthOf(t.copies) = StartCredits + WorthOf(StartCopies) + WorthOf(b) + v
    BY <2>2, <2>3, <2>4
  <2>6. ASSUME NEW r \in Stackable
        PROVE  t.copies[r] = StartCopies[r] + b[r] + Total([x \in t.receipts |-> Brought(x, r)])
    <3>1. r \in Row
      BY Constants
    <3>2. PICK y, z : y = Total([x \in s.receipts |-> Brought(x, r)]) /\ z = Total([x \in t.receipts |-> Brought(x, r)])
      OBVIOUS
    <3>3. Brought(p, r) \in Int
      BY <3>1, ReceiptType
    <3>4. /\ Total([x \in s.receipts |-> Brought(x, r)]) \in Int
          /\ Total([x \in s.receipts \union {p} |-> Brought(x, r)])
                = Total([x \in s.receipts |-> Brought(x, r)]) + Brought(p, r)
      BY <3>1, OneReceiptMore
    <3>8. y \in Int /\ z = y + Brought(p, r)
      BY <3>2, <3>4
    <3>5. s.copies[r] = StartCopies[r] + b[r] + y
      BY <1>2, <3>2 DEF Balance
    <3>6. StartCopies[r] \in Nat /\ b[r] \in Int
      BY <3>1, StartType DEF Copies
    <3>7. t.copies[r] = s.copies[r] + Brought(p, r)
      OBVIOUS
    <3> QED BY <3>2, <3>3, <3>8, <3>5, <3>6, <3>7
  <2> QED BY <2>1, <2>5, <2>6 DEF Balance
<1> QED BY <1>1, <1>2 DEF Makes, Sound

\* No receipt, and the same wealth.
LEMMA Unreceipted ==
  ASSUME NEW s, Sound(s), NEW t \in Store, t.receipts = s.receipts, t.revision = s.revision,
         t.credits + WorthOf(t.copies) = s.credits + WorthOf(s.copies),
         \A r \in Stackable : t.copies[r] = s.copies[r]
  PROVE  Makes(s, t)
<1>1. ASSUME NEW b \in [Row -> Int], Balance(s, b) PROVE Balance(t, b)
  BY <1>1 DEF Balance
<1> QED BY <1>1 DEF Makes, Sound

LEMMA Itself == ASSUME NEW s, Sound(s) PROVE Makes(s, s)
BY DEF Makes

-----------------------------------------------------------------------------
(* Each operation keeps the account *)

LEMMA PurchasedAccount ==
  ASSUME NEW s, Sound(s), NEW q \in [kind : {"purchase"}, tx : Nat, what : Sold], NEW t \in Purchased(s, q)
  PROVE  Makes(s, t)
<1>1. CASE Prior(s, q) # {}
  <2>1. t = s
    BY <1>1 DEF Purchased, Replayed
  <2> QED BY <2>1, Itself
<1>2. CASE Prior(s, q) = {}
  <2>1. /\ s.credits >= Price[q.what]
        /\ t = [s EXCEPT !.credits = @ - Price[q.what], !.copies = Granted(@, {q.what}), !.receipts = @ \union {q}]
    <3>1. q.what \in Sold /\ Price[q.what] \in Nat /\ s.credits \in Nat
      BY Constants DEF Sound, Store
    <3> QED BY <1>2, <3>1 DEF Purchased
  <2>2. PICK x : x = q.what
    OBVIOUS
  <2>3. x \in Sold /\ x \in Row /\ Price[x] \in Nat /\ Credit[x] \in Nat
    BY <2>2, Constants
  <2>4. q \notin s.receipts /\ q \in Receipt
    BY <1>2 DEF Prior, Receipt
  <2>5. /\ Granted(s.copies, {x}) \in Copies
        /\ WorthOf(Granted(s.copies, {x})) = WorthOf(s.copies) + Credit[x]
    <3>1. PICK f, R : R = {x} /\ f = [r \in R |-> Credit[r]]
      OBVIOUS
    <3>2. f \in [R -> Nat] /\ f \in [R -> Int] /\ f[x] = Credit[x] /\ \A y \in R \ {x} : f[y] = 0
      BY <2>3, <3>1
    <3>3. Total(f) = Credit[x]
      BY <3>1, <3>2, TotalOfOne
    <3>4. R \subseteq Row /\ s.copies \in Copies
      BY <2>3, <3>1, StoreType DEF Sound
    <3>5. Granted(s.copies, R) \in Copies /\ WorthOf(Granted(s.copies, R)) = WorthOf(s.copies) + Total([r \in R |-> Credit[r]])
      BY <3>4, WorthOfGranted
    <3> QED BY <3>1, <3>3, <3>5
  <2>6. /\ t.credits = s.credits - Price[x] /\ t.credits \in Nat
        /\ t.copies = Granted(s.copies, {x})
        /\ t.receipts = s.receipts \union {q} /\ t.revision = s.revision /\ t.payday = s.payday
    BY <2>1, <2>2, <2>3 DEF Sound, Store
  <2>7. t \in Store
    BY <2>1, <2>4, <2>5, <2>6 DEF Sound, Store
  <2>8. Worth(q) = Credit[x] - Price[x]
    BY <2>2 DEF Worth
  <2>9. t.credits + WorthOf(t.copies) = s.credits + WorthOf(s.copies) + Worth(q)
    <3>1. s.credits \in Nat /\ WorthOf(s.copies) \in Int
      BY StoreType DEF Sound
    <3> QED BY <2>3, <2>5, <2>6, <2>8, <3>1
  <2>10. ASSUME NEW r \in Stackable PROVE t.copies[r] = s.copies[r] + Brought(q, r)
    <3>1. r \in Row /\ s.copies[r] \in Nat
      BY Constants, StoreType DEF Sound, Copies
    <3>2. Brought(q, r) = IF x = r THEN 1 ELSE 0
      BY <2>2 DEF Brought
    <3> QED BY <2>6, <3>1, <3>2 DEF Granted
  <2>11. \A r \in Stackable : t.copies[r] = s.copies[r] + Brought(q, r)
    BY <2>10
  <2>12. t.receipts = s.receipts \union {q} /\ t.revision = s.revision
    BY <2>6
  <2> QED BY <2>4, <2>7, <2>9, <2>11, <2>12, Receipted
<1> QED BY <1>1, <1>2

LEMMA ConsumedAccount ==
  ASSUME NEW s, Sound(s), NEW q \in [kind : {"consume"}, tx : Nat, what : Stackable, count : Nat],
         NEW t \in Consumed(s, q)
  PROVE  Makes(s, t)
<1>1. CASE Prior(s, q) # {}
  <2>1. t = s
    BY <1>1 DEF Consumed, Replayed
  <2> QED BY <2>1, Itself
<1>2. CASE Prior(s, q) = {}
  <2>1. PICK x, n : x = q.what /\ n = q.count
    OBVIOUS
  <2>2. x \in Stackable /\ x \in Row /\ n \in Nat /\ Credit[x] = 0
    BY <2>1, Constants
  <2>3. s.copies \in Copies /\ s.copies[x] \in Nat
    BY <2>2, StoreType DEF Sound, Copies
  <2>4. /\ s.copies[x] >= n
        /\ t = [s EXCEPT !.copies[x] = @ - n, !.receipts = @ \union {q}]
    BY <1>2, <2>1, <2>2, <2>3 DEF Consumed
  <2>5. q \notin s.receipts /\ q \in Receipt
    BY <1>2, Constants DEF Prior, Receipt
  <2>6. /\ t.credits = s.credits /\ t.receipts = s.receipts \union {q}
        /\ t.revision = s.revision /\ t.payday = s.payday
        /\ t.copies = [s.copies EXCEPT ![x] = @ - n]
    BY <2>4 DEF Sound, Store
  <2>7. t.copies \in Copies /\ t.copies[x] = s.copies[x] - n /\ \A r \in Row \ {x} : t.copies[r] = s.copies[r]
    BY <2>2, <2>3, <2>4, <2>6 DEF Copies
  <2>8. t \in Store
    BY <2>4, <2>5, <2>6, <2>7 DEF Sound, Store
  <2>9. Worth(q) = 0 /\ \A r : Brought(q, r) = IF x = r THEN -n ELSE 0
    BY <2>1 DEF Worth, Brought
  <2>10. WorthOf(t.copies) = WorthOf(s.copies)
    <3>1. PICK d : d = [r \in Row |-> IF r = x THEN -n ELSE 0]
      OBVIOUS
    <3>2. d \in [Row -> Int] /\ d[x] = -n /\ (\A r \in Row \ {x} : d[r] = 0) /\ \A r \in Row : t.copies[r] = s.copies[r] + d[r]
      BY <2>2, <2>3, <2>7, <3>1 DEF Copies
    <3>3. WorthOf(d) = Credit[x] * d[x]
      BY <2>2, <3>2, WorthOfOne
    <3>4. WorthOf(t.copies) = WorthOf(s.copies) + WorthOf(d)
      <4>1. t.copies \in [Row -> Int] /\ s.copies \in [Row -> Int]
        BY <2>3, <2>7 DEF Copies
      <4> QED BY <3>2, <4>1, WorthAdds
    <3>5. Credit[x] * d[x] = 0
      BY <2>2, <3>2
    <3>6. WorthOf(s.copies) \in Int
      BY StoreType DEF Sound
    <3> QED BY <3>3, <3>4, <3>5, <3>6
  <2>11. t.credits + WorthOf(t.copies) = s.credits + WorthOf(s.copies) + Worth(q)
    <3>1. s.credits \in Nat /\ WorthOf(s.copies) \in Int
      BY StoreType DEF Sound
    <3> QED BY <2>6, <2>9, <2>10, <3>1
  <2>12. ASSUME NEW r \in Stackable PROVE t.copies[r] = s.copies[r] + Brought(q, r)
    <3>1. r \in Row /\ s.copies[r] \in Nat
      BY Constants, StoreType DEF Sound, Copies
    <3>2. CASE r = x
      <4>1. Brought(q, r) = -n
        BY <2>9, <3>2
      <4> QED BY <2>2, <2>3, <2>7, <3>2, <4>1
    <3>3. CASE r # x
      <4>1. Brought(q, r) = 0 /\ t.copies[r] = s.copies[r]
        BY <2>7, <2>9, <3>1, <3>3
      <4> QED BY <3>1, <4>1
    <3> QED BY <3>2, <3>3
  <2>13. t.receipts = s.receipts \union {q} /\ t.revision = s.revision
    BY <2>6
  <2> QED BY <2>5, <2>8, <2>11, <2>12, <2>13, Receipted
<1> QED BY <1>1, <1>2

LEMMA PawnedAccount ==
  ASSUME NEW s, Sound(s), NEW q \in [kind : {"pawn"}, tx : Nat, items : Spares], NEW t \in Pawned(s, q)
  PROVE  Makes(s, t)
<1>1. CASE Prior(s, q) # {}
  <2>1. t = s
    BY <1>1 DEF Pawned, Replayed
  <2> QED BY <2>1, Itself
<1>2. CASE Prior(s, q) = {}
  <2>1. PICK items, I : items = q.items /\ I = Payable(s, items)
    OBVIOUS
  <2>2. items \in Spares /\ s.copies \in Copies /\ s.credits \in Nat
    BY <2>1, StoreType DEF Sound
  <2>3. PICK rows \in SUBSET Row : items \in [rows -> Nat]
    BY <2>2 DEF Spares
  <2>4. /\ I \subseteq Row
        /\ \A r \in I : items[r] \in Nat /\ Credit[r] \in Nat /\ Credit[r] > 0 /\ s.copies[r] > items[r]
    BY <2>1, <2>3, Constants DEF Payable
  <2>5. PICK f : f = [r \in I |-> items[r] * Credit[r]]
    OBVIOUS
  <2>6. f \in [I -> Nat] /\ f \in [I -> Int] /\ \A r \in I : f[r] = Credit[r] * items[r]
    <3>1. ASSUME NEW r \in I PROVE f[r] \in Nat /\ f[r] \in Int /\ f[r] = Credit[r] * items[r]
      <4>1. items[r] \in Nat /\ Credit[r] \in Nat
        BY <2>4
      <4>2. f[r] = items[r] * Credit[r]
        BY <2>5
      <4> QED BY <4>1, <4>2, Product
    <3>2. f = [r \in I |-> f[r]]
      BY <2>5
    <3> QED BY <3>1, <3>2
  <2>7. Total(f) \in Nat
    BY <2>4, <2>6, FinitePart, TotalOfNaturals
  <2>8. t = [s EXCEPT !.credits = @ + PaidFor(s, q.items),
                      !.copies = [r \in Row |-> IF r \in Payable(s, q.items) THEN @[r] - q.items[r] ELSE @[r]],
                      !.receipts = @ \union {q}]
    BY <1>2 DEF Pawned
  <2>9. q \notin s.receipts /\ q \in Receipt
    BY <1>2 DEF Prior, Receipt
  <2>10. /\ t.credits = s.credits + Total(f) /\ t.receipts = s.receipts \union {q}
         /\ t.revision = s.revision /\ t.payday = s.payday
         /\ t.copies = [r \in Row |-> IF r \in I THEN s.copies[r] - items[r] ELSE s.copies[r]]
    BY <2>1, <2>5, <2>8 DEF Sound, Store, PaidFor
  <2>11. t.copies \in Copies
    BY <2>2, <2>4, <2>10 DEF Copies
  <2>12. t \in Store
    <3>1. t.credits \in Nat
      BY <2>2, <2>7, <2>10
    <3> QED BY <2>8, <2>9, <2>10, <2>11, <3>1 DEF Sound, Store
  <2>13. PICK d : d = [r \in Row |-> IF r \in I THEN items[r] ELSE 0]
    OBVIOUS
  <2>14. /\ d \in [Row -> Int] /\ (\A r \in Row \ I : d[r] = 0) /\ (\A r \in I : f[r] = Credit[r] * d[r])
         /\ s.copies \in [Row -> Int] /\ t.copies \in [Row -> Int]
    BY <2>2, <2>4, <2>6, <2>11, <2>13 DEF Copies
  <2>15. \A r \in Row : s.copies[r] = t.copies[r] + d[r]
    BY <2>2, <2>4, <2>10, <2>13 DEF Copies
  <2>16. WorthOf(d) = Total(f)
    <3>1. I \subseteq Row
      BY <2>4
    <3>2. f \in [I -> Int]
      BY <2>6
    <3>3. d \in [Row -> Int] /\ (\A r \in Row \ I : d[r] = 0) /\ (\A r \in I : f[r] = Credit[r] * d[r])
      BY <2>14
    <3> QED BY <3>1, <3>2, <3>3, WorthOfPart
  <2>17. WorthOf(s.copies) = WorthOf(t.copies) + WorthOf(d)
    BY <2>14, <2>15, WorthAdds
  <2>18. t.credits + WorthOf(t.copies) = s.credits + WorthOf(s.copies) + Worth(q)
    <3>1. Worth(q) = 0
      BY DEF Worth
    <3>2. WorthOf(s.copies) \in Int /\ WorthOf(t.copies) \in Int
      BY <2>14, WorthType
    <3> QED BY <2>2, <2>7, <2>10, <2>16, <2>17, <3>1, <3>2
  <2>19. ASSUME NEW r \in Stackable PROVE t.copies[r] = s.copies[r] + Brought(q, r)
    <3>1. r \in Row /\ s.copies[r] \in Nat /\ Credit[r] = 0
      BY <2>2, Constants DEF Copies
    <3>2. r \notin I
      BY <2>4, <3>1
    <3>3. Brought(q, r) = 0
      BY DEF Brought
    <3> QED BY <2>10, <3>1, <3>2, <3>3
  <2> QED BY <2>9, <2>10, <2>12, <2>18, <2>19, Receipted
<1> QED BY <1>1, <1>2

LEMMA ConvertedAccount ==
  ASSUME NEW s, Sound(s), NEW q \in [kind : {"convert"}, tx : Nat, what : Uniform, count : Nat],
         NEW t \in Converted(s, q)
  PROVE  Makes(s, t)
<1>1. PICK x, n : x = q.what /\ n = q.count
  OBVIOUS
<1>2. x \in Row /\ n \in Nat /\ Credit[x] \in Nat /\ s.copies \in Copies /\ s.credits \in Nat
  BY <1>1, Constants, StoreType DEF Sound
<1>3. /\ Credit[x] # 0 /\ s.copies[x] \in Nat /\ s.copies[x] > n
      /\ t = [s EXCEPT !.copies[x] = @ - n, !.credits = @ + n * Credit[x]]
  BY <1>1, <1>2 DEF Converted, Copies
<1>4. PICK c : c = Credit[x] * n
  OBVIOUS
<1>5. c \in Nat /\ c = n * Credit[x]
  BY <1>2, <1>4, Product
<1>6. /\ t.credits = s.credits + c /\ t.receipts = s.receipts
      /\ t.revision = s.revision /\ t.payday = s.payday
      /\ t.copies = [s.copies EXCEPT ![x] = @ - n]
  BY <1>3, <1>5 DEF Sound, Store
<1>7. t.copies \in Copies /\ t.copies[x] = s.copies[x] - n /\ \A r \in Row \ {x} : t.copies[r] = s.copies[r]
  BY <1>2, <1>3, <1>6 DEF Copies
<1>8. t \in Store
  <2>1. t.credits \in Nat
    BY <1>2, <1>5, <1>6
  <2> QED BY <1>3, <1>6, <1>7, <2>1 DEF Sound, Store
<1>9. PICK d : d = [r \in Row |-> IF r = x THEN n ELSE 0]
  OBVIOUS
<1>10. /\ d \in [Row -> Int] /\ d[x] = n /\ (\A r \in Row \ {x} : d[r] = 0)
       /\ s.copies \in [Row -> Int] /\ t.copies \in [Row -> Int]
  BY <1>2, <1>7, <1>9 DEF Copies
<1>11. \A r \in Row : s.copies[r] = t.copies[r] + d[r]
  BY <1>2, <1>3, <1>7, <1>9 DEF Copies
<1>12. WorthOf(d) = c
  BY <1>2, <1>4, <1>10, WorthOfOne
<1>13. WorthOf(s.copies) = WorthOf(t.copies) + WorthOf(d)
  BY <1>10, <1>11, WorthAdds
<1>14. t.credits + WorthOf(t.copies) = s.credits + WorthOf(s.copies)
  <2>1. WorthOf(t.copies) \in Int
    BY <1>10, WorthType
  <2> QED BY <1>2, <1>5, <1>6, <1>12, <1>13, <2>1
<1>15. \A r \in Stackable : t.copies[r] = s.copies[r]
  BY <1>3, <1>7, Constants
<1> QED BY <1>6, <1>8, <1>14, <1>15, Unreceipted

LEMMA RedeemedAccount ==
  ASSUME NEW s, Sound(s), NEW q \in [kind : {"redeem"}, tx : Nat, what : Prize], NEW t \in Redeemed(s, q)
  PROVE  Makes(s, t)
<1>1. PICK x, R : x = q.what /\ R = {x}
  OBVIOUS
<1>2. x \in Row /\ Credit[x] = 0 /\ x \notin Stackable /\ R \subseteq Row
  BY <1>1, Constants
<1>3. s.copies \in Copies /\ s.credits \in Nat /\ WorthOf(s.copies) \in Int
  BY StoreType DEF Sound
<1>4. CASE s.copies[x] > 0
  <2>1. t = s
    BY <1>1, <1>4 DEF Redeemed
  <2> QED BY <2>1, Itself
<1>5. CASE ~(s.copies[x] > 0)
  <2>1. t = [s EXCEPT !.copies = Granted(@, {q.what})]
    BY <1>1, <1>5 DEF Redeemed
  <2>2. /\ t.credits = s.credits /\ t.receipts = s.receipts /\ t.revision = s.revision
        /\ t.payday = s.payday /\ t.copies = Granted(s.copies, R)
    BY <1>1, <2>1 DEF Sound, Store
  <2>3. PICK f : f = [r \in R |-> Credit[r]]
    OBVIOUS
  <2>4. f \in [R -> Int] /\ f[x] = 0 /\ \A y \in R \ {x} : f[y] = 0
    BY <1>1, <1>2, <2>3
  <2>5. Total(f) = 0
    BY <1>1, <2>4, TotalOfOne
  <2>6. Granted(s.copies, R) \in Copies /\ WorthOf(Granted(s.copies, R)) = WorthOf(s.copies) + Total([r \in R |-> Credit[r]])
    BY <1>2, <1>3, WorthOfGranted
  <2>7. t \in Store
    BY <2>1, <2>2, <2>6 DEF Sound, Store
  <2>8. t.credits + WorthOf(t.copies) = s.credits + WorthOf(s.copies)
    BY <1>3, <2>2, <2>3, <2>5, <2>6
  <2>9. \A r \in Stackable : t.copies[r] = s.copies[r]
    BY <1>1, <1>2, <2>2, Constants DEF Granted
  <2> QED BY <2>2, <2>7, <2>8, <2>9, Unreceipted
<1> QED BY <1>4, <1>5

LEMMA DeliveredAccount ==
  ASSUME NEW s, Sound(s), NEW m \in Mail
  PROVE  Makes(s, Delivered(s, m))
<1>1. CASE Delivery(m) \in s.receipts
  <2>1. Delivered(s, m) = s
    BY <1>1 DEF Delivered
  <2> QED BY <2>1, Itself
<1>2. CASE Delivery(m) \notin s.receipts
  <2>1. PICK t, p, R, f : t = Delivered(s, m) /\ p = Delivery(m) /\ R = MailItems[m] /\ f = [r \in R |-> Credit[r]]
    OBVIOUS
  <2>2. R \subseteq Row /\ MailCredits[m] \in Nat
    BY <2>1, Constants
  <2>3. s.copies \in Copies /\ s.credits \in Nat /\ WorthOf(s.copies) \in Int
    BY StoreType DEF Sound
  <2>4. p \in Receipt /\ p \notin s.receipts
    BY <1>2, <2>1 DEF Delivery, Receipt
  <2>5. t = [s EXCEPT !.credits = @ + MailCredits[m], !.copies = Granted(@, R), !.receipts = @ \union {p}]
    BY <1>2, <2>1 DEF Delivered
  <2>6. /\ t.credits = s.credits + MailCredits[m] /\ t.receipts = s.receipts \union {p}
        /\ t.revision = s.revision /\ t.payday = s.payday /\ t.copies = Granted(s.copies, R)
    BY <2>5 DEF Sound, Store
  <2>7. Granted(s.copies, R) \in Copies /\ WorthOf(Granted(s.copies, R)) = WorthOf(s.copies) + Total([r \in R |-> Credit[r]])
    BY <2>2, <2>3, WorthOfGranted
  <2>8. Total(f) \in Nat
    <3>1. f \in [R -> Nat] /\ IsFiniteSet(R)
      BY <2>1, <2>2, Constants, FinitePart
    <3> QED BY <3>1, TotalOfNaturals
  <2>9. t \in Store
    <3>1. t.credits \in Nat
      BY <2>2, <2>3, <2>6
    <3> QED BY <2>4, <2>5, <2>6, <2>7, <3>1 DEF Sound, Store
  <2>10. Worth(p) = MailCredits[m] + Total(f)
    <3>1. p.kind = "mail" /\ p.what = m
      BY <2>1 DEF Delivery
    <3> QED BY <2>1, <3>1 DEF Worth
  <2>11. t.credits + WorthOf(t.copies) = s.credits + WorthOf(s.copies) + Worth(p)
    BY <2>1, <2>2, <2>3, <2>6, <2>7, <2>8, <2>10
  <2>12. ASSUME NEW r \in Stackable PROVE t.copies[r] = s.copies[r] + Brought(p, r)
    <3>1. r \in Row /\ s.copies[r] \in Nat
      BY <2>3, Constants DEF Copies
    <3>2. Brought(p, r) = IF r \in R THEN 1 ELSE 0
      BY <2>1 DEF Brought, Delivery
    <3> QED BY <2>6, <3>1, <3>2 DEF Granted
  <2> QED BY <2>1, <2>4, <2>6, <2>9, <2>11, <2>12, Receipted
<1> QED BY <1>1, <1>2

LEMMA SettledAccount ==
  ASSUME NEW s, Sound(s), NEW at \in Nat, now \in Nat
  PROVE  Makes(s, Settled(s, at))
<1>1. CASE Stale(at) \/ Stamp(at) \in s.receipts \/ Cooling(s, at)
  <2>1. Settled(s, at) = s
    BY <1>1 DEF Settled
  <2> QED BY <2>1, Itself
<1>2. CASE ~(Stale(at) \/ Stamp(at) \in s.receipts \/ Cooling(s, at))
  <2>1. PICK t, p : t = Settled(s, at) /\ p = Stamp(at)
    OBVIOUS
  <2>2. PeriodOf(at) \in Nat
    <3>1. \A d \in Nat \ {0} : at \div d \in Nat
      OBVIOUS
    <3>2. Period \in Nat \ {0}
      BY HeadquartersAssumption DEF HeadquartersAssumption
    <3> QED BY <3>1, <3>2 DEF PeriodOf
  <2>3. p \in Receipt /\ p \notin s.receipts
    BY <1>2, <2>1, <2>2 DEF Stamp, Receipt
  <2>4. t = [s EXCEPT !.credits = @ + Salary, !.payday = now, !.receipts = @ \union {p}]
    BY <1>2, <2>1 DEF Settled
  <2>5. s.copies \in Copies /\ s.credits \in Nat /\ WorthOf(s.copies) \in Int /\ Salary \in Nat
    BY Constants, StoreType DEF Sound
  <2>6. /\ t.credits = s.credits + Salary /\ t.receipts = s.receipts \union {p}
        /\ t.revision = s.revision /\ t.payday = now /\ t.copies = s.copies
    BY <2>4 DEF Sound, Store
  <2>7. t \in Store
    <3>1. t.credits \in Nat /\ t.payday \in Nat
      BY <2>5, <2>6
    <3> QED BY <2>3, <2>4, <2>6, <3>1 DEF Sound, Store
  <2>8. Worth(p) = Salary /\ \A r : Brought(p, r) = 0
    BY <2>1 DEF Worth, Brought, Stamp
  <2>9. t.credits + WorthOf(t.copies) = s.credits + WorthOf(s.copies) + Worth(p)
    BY <2>5, <2>6, <2>8
  <2>10. \A r \in Stackable : t.copies[r] = s.copies[r] + Brought(p, r)
    BY <2>5, <2>6, <2>8, Constants DEF Copies
  <2> QED BY <2>1, <2>3, <2>6, <2>7, <2>9, <2>10, Receipted
<1> QED BY <1>1, <1>2

\* The cards of a drop: each is worth its value, as a copy or converted.
LEMMA DealtWorth ==
  ASSUME NEW s \in Store, NEW cards \in Rolls
  PROVE  /\ Dealt(s, cards).credits \in Nat /\ Dealt(s, cards).copies \in Copies
         /\ Dealt(s, cards).credits + WorthOf(Dealt(s, cards).copies)
               = s.credits + WorthOf(s.copies) + Total([i \in DOMAIN cards |-> Credit[cards[i]]])
         /\ \A r \in Stackable :
               Dealt(s, cards).copies[r] = s.copies[r] + Cardinality({i \in DOMAIN cards : cards[i] = r})
<1>1. PICK I, D, N, M : /\ I = DOMAIN cards /\ D = Duplicates(s, cards) /\ N = I \ D
                        /\ M = {i \in N : cards[i] \notin Stackable}
  OBVIOUS
<1>2. /\ IsFiniteSet(I) /\ D \subseteq I /\ M \subseteq I /\ M \subseteq N /\ N \subseteq I /\ D \cap M = {}
      /\ \A i \in I : cards[i] \in Row /\ Credit[cards[i]] \in Nat
  <2>1. IsFiniteSet(I) /\ \A i \in I : cards[i] \in Row
    BY <1>1, CardWorth
  <2>2. D \subseteq I
    BY <1>1 DEF Duplicates
  <2>3. \A i \in I : Credit[cards[i]] \in Nat
    BY <2>1, Constants
  <2> QED BY <1>1, <2>1, <2>2, <2>3
<1>3. IsFiniteSet(D) /\ IsFiniteSet(M) /\ IsFiniteSet(N)
  BY <1>2, FS_Subset
<1>4. PICK a, b, c, d, e :
         /\ a = [i \in I |-> Credit[cards[i]]]
         /\ b = [i \in I |-> IF i \in D THEN Credit[cards[i]] ELSE 0]
         /\ c = [i \in I |-> IF i \in M THEN Credit[cards[i]] ELSE 0]
         /\ d = [i \in D |-> Credit[cards[i]]]
         /\ e = [i \in M |-> Credit[cards[i]]]
  OBVIOUS
<1>5. /\ a \in [I -> Int] /\ b \in [I -> Int] /\ c \in [I -> Int]
      /\ d \in [D -> Nat] /\ d \in [D -> Int] /\ e \in [M -> Nat] /\ e \in [M -> Int]
  BY <1>2, <1>4
<1>6. \A i \in I : a[i] = b[i] + c[i]
  <2> SUFFICES ASSUME NEW i \in I PROVE a[i] = b[i] + c[i]
    OBVIOUS
  <2>1. CASE i \in D
    BY <1>2, <1>4, <2>1
  <2>2. CASE i \in M
    BY <1>2, <1>4, <2>2
  <2>3. CASE i \notin D /\ i \notin M
    <3>1. cards[i] \in Stackable
      BY <1>1, <2>3
    <3>2. Credit[cards[i]] = 0
      BY <3>1, Constants
    <3> QED BY <1>4, <2>3, <3>2
  <2> QED BY <2>1, <2>2, <2>3
<1>7. Total(a) = Total(d) + Total(e)
  <2>1. Total(a) = Total(b) + Total(c)
    BY <1>2, <1>5, <1>6, TotalAdds
  <2>2. Total(b) = Total(d)
    <3>1. (\A i \in D : d[i] = b[i]) /\ \A i \in I \ D : b[i] = 0
      BY <1>2, <1>4
    <3>2. D \subseteq I /\ b \in [I -> Int] /\ d \in [D -> Int]
      BY <1>2, <1>5
    <3> QED BY <3>1, <3>2, TotalOfPart
  <2>3. Total(c) = Total(e)
    <3>1. (\A i \in M : e[i] = c[i]) /\ \A i \in I \ M : c[i] = 0
      BY <1>2, <1>4
    <3>2. M \subseteq I /\ c \in [I -> Int] /\ e \in [M -> Int]
      BY <1>2, <1>5
    <3> QED BY <3>1, <3>2, TotalOfPart
  <2> QED BY <2>1, <2>2, <2>3
<1>8. Total(d) \in Nat /\ Total(e) \in Nat
  BY <1>3, <1>5, TotalOfNaturals
\* Copies of the rows that the drop adds.
<1>9. PICK n : n = [r \in Row |-> Cardinality({i \in N : cards[i] = r})]
  OBVIOUS
<1>10. /\ n \in [Row -> Nat] /\ n \in [Row -> Int]
       /\ \A r \in Row : n[r] = Cardinality(New(s, cards, r)) /\ (n[r] > 0 => \E i \in N : cards[i] = r)
  <2>1. ASSUME NEW r \in Row
        PROVE  /\ n[r] \in Nat /\ n[r] = Cardinality(New(s, cards, r))
               /\ (n[r] > 0 => \E i \in N : cards[i] = r)
    <3>1. PICK A : A = {i \in N : cards[i] = r}
      OBVIOUS
    <3>2. IsFiniteSet(A)
      BY <1>3, <3>1, FS_Subset
    <3>3. n[r] = Cardinality(A) /\ n[r] \in Nat
      BY <1>9, <3>1, <3>2, FS_CardinalityType
    <3>4. A = New(s, cards, r)
      BY <1>1, <3>1 DEF New
    <3>5. n[r] > 0 => A # {}
      BY <3>3, FS_EmptySet
    <3> QED BY <3>1, <3>3, <3>4, <3>5
  <2>2. n = [r \in Row |-> n[r]]
    BY <1>9
  <2> QED BY <2>1, <2>2
<1>11. PICK g : g = [r \in Row |-> Credit[r] * n[r]]
  OBVIOUS
<1>12. g \in [Row -> Nat] /\ g \in [Row -> Int] /\ WorthOf(n) = Total(g)
  <2>1. ASSUME NEW r \in Row PROVE g[r] \in Nat
    <3>1. Credit[r] \in Nat /\ n[r] \in Nat
      BY <1>10, Constants
    <3> QED BY <1>11, <3>1, Product
  <2> QED BY <1>11, <2>1 DEF WorthOf
<1>13. Total(e) = Total(g)
  <2>1. PICK f : f = [i \in M |-> cards[i]]
    OBVIOUS
  <2>2. f \in [M -> Row]
    BY <1>2, <2>1
  <2>3. ASSUME NEW i \in N, NEW j \in N, cards[i] = cards[j], cards[i] \notin Stackable PROVE i = j
    <3>1. i \in Int /\ j \in Int /\ i >= 1 /\ j >= 1
      <4>1. cards \in Seq(Row)
        BY Constants
      <4>2. PICK l \in Nat : DOMAIN cards = 1..l
        BY <4>1
      <4> QED BY <1>1, <4>2
    <3>2. (\A k \in 1..i - 1 : cards[k] # cards[i]) /\ \A k \in 1..j - 1 : cards[k] # cards[j]
      BY <1>1, <2>3 DEF Duplicates
    <3>3. CASE i < j
      <4>1. i \in 1..j - 1
        BY <3>1, <3>3
      <4> QED BY <2>3, <3>2, <4>1
    <3>4. CASE j < i
      <4>1. j \in 1..i - 1
        BY <3>1, <3>4
      <4> QED BY <2>3, <3>2, <4>1
    <3> QED BY <3>1, <3>3, <3>4
  <2>4. \A i, j \in M : f[i] = f[j] => i = j
    BY <1>1, <1>2, <2>1, <2>3
  <2>5. ASSUME NEW i \in M PROVE g[f[i]] = e[i]
    <3>1. f[i] = cards[i] /\ f[i] \in Row /\ cards[i] \notin Stackable /\ i \in N
      BY <1>1, <1>2, <2>1
    <3>2. {j \in N : cards[j] = f[i]} = {i}
      BY <2>3, <3>1
    <3>3. n[f[i]] = 1
      BY <1>9, <3>1, <3>2, FS_Singleton
    <3>4. Credit[cards[i]] \in Nat
      BY <1>2
    <3>5. Credit[cards[i]] * 1 = Credit[cards[i]]
      BY <3>4, Product
    <3> QED BY <1>4, <1>11, <3>1, <3>3, <3>5
  <2>6. ASSUME NEW r \in Row, g[r] > 0 PROVE \E i \in M : f[i] = r
    <3>1. Credit[r] \in Nat /\ n[r] \in Nat /\ g[r] = Credit[r] * n[r]
      BY <1>10, <1>11, Constants
    <3>2. Credit[r] # 0 /\ n[r] # 0
      BY <2>6, <3>1
    <3>3. r \notin Stackable
      BY <3>2, Constants
    <3>4. PICK i \in N : cards[i] = r
      BY <1>10, <3>1, <3>2
    <3> QED BY <1>1, <2>1, <3>3, <3>4
  <2>7. IsFiniteSet(M) /\ IsFiniteSet(Row) /\ e \in [M -> Nat] /\ g \in [Row -> Nat]
    BY <1>3, <1>5, <1>12, Constants
  <2> QED BY <2>2, <2>4, <2>5, <2>6, <2>7, TotalRenamed
<1>14. PICK t : t = Dealt(s, cards)
  OBVIOUS
<1>15. t = [s EXCEPT !.credits = @ + Total([i \in Duplicates(s, cards) |-> Credit[cards[i]]]),
                     !.copies = [r \in Row |-> @[r] + Cardinality(New(s, cards, r))]]
  BY <1>14 DEF Dealt
<1>16. t.credits = s.credits + Total(d) /\ t.copies = [r \in Row |-> s.copies[r] + Cardinality(New(s, cards, r))]
  BY <1>1, <1>4, <1>15 DEF Store
<1>17. s.credits \in Nat /\ s.copies \in Copies /\ s.copies \in [Row -> Int] /\ WorthOf(s.copies) \in Int
  BY StoreType
<1>18. t.copies = [r \in Row |-> s.copies[r] + n[r]]
  BY <1>10, <1>16
<1>19. t.copies \in Copies /\ t.copies \in [Row -> Int] /\ \A r \in Row : t.copies[r] = s.copies[r] + n[r]
  BY <1>10, <1>17, <1>18 DEF Copies
<1>20. WorthOf(t.copies) = WorthOf(s.copies) + WorthOf(n)
  BY <1>10, <1>17, <1>19, WorthAdds
<1>21. t.credits + WorthOf(t.copies) = s.credits + WorthOf(s.copies) + Total(a)
  BY <1>7, <1>8, <1>12, <1>13, <1>16, <1>17, <1>20
<1>22. t.credits \in Nat
  BY <1>8, <1>16, <1>17
<1>23. ASSUME NEW r \in Stackable PROVE t.copies[r] = s.copies[r] + Cardinality({i \in I : cards[i] = r})
  <2>1. r \in Row
    BY Constants
  <2>2. {i \in N : cards[i] = r} = {i \in I : cards[i] = r}
    BY <1>1 DEF Duplicates
  <2> QED BY <1>9, <1>19, <2>1, <2>2
<1> QED BY <1>1, <1>4, <1>14, <1>19, <1>21, <1>22, <1>23

LEMMA OpenedAccount ==
  ASSUME NEW s, Sound(s), NEW q \in [kind : {"drop"}, tx : Nat, what : Drop], NEW t \in Opened(s, q)
  PROVE  Makes(s, t)
<1>1. CASE Prior(s, q) # {}
  <2>1. t = s
    BY <1>1 DEF Opened
  <2> QED BY <2>1, Itself
<1>2. CASE Prior(s, q) = {}
  <2>1. PICK x : x = q.what
    OBVIOUS
  <2>2. x \in Row /\ x \in Stackable /\ x \in Drop /\ Credit[x] = 0
    BY <2>1, Constants
  <2>3. s \in Store /\ s.copies \in Copies /\ s.credits \in Nat /\ s.copies[x] \in Nat
    BY <2>2, StoreType DEF Sound, Copies
  <2>4. /\ s.copies[x] # 0
        /\ t \in {[Dealt([s EXCEPT !.copies[q.what] = @ - 1], cards)
                     EXCEPT !.receipts = @ \union {[kind |-> "drop", tx |-> q.tx, what |-> q.what,
                                                    cards |-> cards]}] : cards \in Rolls}
    BY <1>2, <2>1 DEF Opened
  <2>5. PICK u : u = [s EXCEPT !.copies[x] = @ - 1]
    OBVIOUS
  <2>6. PICK cards \in Rolls :
          t = [Dealt(u, cards) EXCEPT !.receipts = @ \union {[kind |-> "drop", tx |-> q.tx, what |-> x, cards |-> cards]}]
    BY <2>1, <2>4, <2>5
  <2>7. PICK p : p = [kind |-> "drop", tx |-> q.tx, what |-> x, cards |-> cards]
    OBVIOUS
  <2>8. p \in Receipt /\ p \notin s.receipts
    <3>1. p \in Receipt
      BY <2>2, <2>7 DEF Receipt
    <3>2. p.kind = q.kind /\ p.tx = q.tx
      BY <2>7
    <3> QED BY <1>2, <3>1, <3>2 DEF Prior
  <2>9. /\ u.copies = [s.copies EXCEPT ![x] = @ - 1] /\ u.credits = s.credits
        /\ u.receipts = s.receipts /\ u.revision = s.revision /\ u.payday = s.payday
    BY <2>3, <2>5 DEF Store
  <2>10. u.copies \in Copies /\ u.copies[x] = s.copies[x] - 1 /\ \A r \in Row \ {x} : u.copies[r] = s.copies[r]
    BY <2>2, <2>3, <2>4, <2>9 DEF Copies
  <2>11. u \in Store
    BY <2>3, <2>5, <2>9, <2>10 DEF Store
  <2>12. WorthOf(u.copies) = WorthOf(s.copies)
    <3>1. PICK d : d = [r \in Row |-> IF r = x THEN 1 ELSE 0]
      OBVIOUS
    <3>2. /\ d \in [Row -> Int] /\ d[x] = 1 /\ (\A r \in Row \ {x} : d[r] = 0)
          /\ s.copies \in [Row -> Int] /\ u.copies \in [Row -> Int]
      BY <2>2, <2>3, <2>10, <3>1 DEF Copies
    <3>3. \A r \in Row : s.copies[r] = u.copies[r] + d[r]
      BY <2>2, <2>3, <2>10, <3>1 DEF Copies
    <3>4. WorthOf(d) = Credit[x] * d[x]
      BY <2>2, <3>2, WorthOfOne
    <3>5. WorthOf(s.copies) = WorthOf(u.copies) + WorthOf(d)
      <4>1. PICK y, z : y = s.copies /\ z = u.copies
        OBVIOUS
      <4>2. y \in [Row -> Int] /\ z \in [Row -> Int] /\ d \in [Row -> Int] /\ \A r \in Row : y[r] = z[r] + d[r]
        BY <3>2, <3>3, <4>1
      <4>3. WorthOf(y) = WorthOf(z) + WorthOf(d)
        BY <4>2, WorthAdds
      <4> QED BY <4>1, <4>3
    <3>6. WorthOf(u.copies) \in Int
      BY <3>2, WorthType
    <3> QED BY <2>2, <3>2, <3>4, <3>5, <3>6
  <2>13. PICK v : v = Dealt(u, cards)
    OBVIOUS
  <2>14. /\ v.credits \in Nat /\ v.copies \in Copies
         /\ v.credits + WorthOf(v.copies) = u.credits + WorthOf(u.copies) + Total([i \in DOMAIN cards |-> Credit[cards[i]]])
         /\ \A r \in Stackable : v.copies[r] = u.copies[r] + Cardinality({i \in DOMAIN cards : cards[i] = r})
    BY <2>11, <2>13, DealtWorth
  <2>15. v = [u EXCEPT !.credits = v.credits, !.copies = v.copies]
    BY <2>11, <2>13 DEF Dealt, Store
  <2>16. t = [v EXCEPT !.receipts = @ \union {p}]
    BY <2>6, <2>7, <2>13
  <2>17. /\ t.credits = v.credits /\ t.copies = v.copies /\ t.receipts = s.receipts \union {p}
         /\ t.revision = s.revision /\ t.payday = s.payday
    BY <2>9, <2>11, <2>15, <2>16 DEF Store
  <2>18. t \in Store
    BY <2>3, <2>8, <2>11, <2>14, <2>15, <2>16, <2>17 DEF Store
  <2>19. /\ Worth(p) = Total([i \in DOMAIN cards |-> Credit[cards[i]]])
         /\ \A r : Brought(p, r) = Cardinality({i \in DOMAIN cards : cards[i] = r}) - (IF x = r THEN 1 ELSE 0)
    <3>1. p.kind = "drop" /\ p.cards = cards /\ p.what = x
      BY <2>7
    <3> QED BY <3>1 DEF Worth, Brought
  <2>20. t.credits + WorthOf(t.copies) = s.credits + WorthOf(s.copies) + Worth(p)
    BY <2>9, <2>12, <2>14, <2>17, <2>19
  <2>21. ASSUME NEW r \in Stackable PROVE t.copies[r] = s.copies[r] + Brought(p, r)
    <3>1. r \in Row /\ s.copies[r] \in Nat
      BY <2>3, Constants DEF Copies
    <3>2. PICK k : k = Cardinality({i \in DOMAIN cards : cards[i] = r})
      OBVIOUS
    <3>3. k \in Nat
      BY <3>2, CardWorth
    <3>4. t.copies[r] = u.copies[r] + k /\ Brought(p, r) = k - (IF x = r THEN 1 ELSE 0)
      BY <2>14, <2>17, <2>19, <3>2
    <3>5. u.copies[r] = s.copies[r] - (IF x = r THEN 1 ELSE 0)
      BY <2>10, <3>1
    <3> QED BY <3>1, <3>3, <3>4, <3>5
  <2>22. t.receipts = s.receipts \union {p} /\ t.revision = s.revision
    BY <2>17
  <2> QED BY <2>8, <2>18, <2>20, <2>21, <2>22, Receipted
<1> QED BY <1>1, <1>2

-----------------------------------------------------------------------------
(* The inductive invariant *)

\* What shows a revision of the file is that revision: the game's inventory, this
\* process's copy, and the quantities of each put under way.
Current ==
    /\ ready => heldAt <= store.revision /\ (heldAt = store.revision => held = store.copies)
    /\ cached # None => cached.revision <= store.revision /\ (cached.revision = store.revision => cached = store)
    /\ \A q \in calls : q.kind = "put" =>
          q.seen <= store.revision /\ (q.seen = store.revision => q.items = store.copies)

HeadquartersInv == TypeOK /\ Current /\ WealthIsAccounted

\* What no step does to the file: lower its revision, change it under the same
\* revision, or lose account of it.
Kept ==
    /\ Sound(store') /\ store.revision <= store'.revision
    /\ store'.revision = store.revision => store' = store
    /\ putBack' \in [Row -> Int]
    /\ Balance(store, putBack) => Balance(store', putBack')
Read == cached' = cached \/ cached' = store' \/ cached' = None

LEMMA Accounted == WealthIsAccounted <=> Balance(store, putBack)
BY DEF WealthIsAccounted, Balance

LEMMA TypeFacts ==
  ASSUME TypeOK
  PROVE  /\ Sound(store) /\ store \in Store /\ store.revision \in Nat /\ putBack \in [Row -> Int]
         /\ cached \in Store \union {None} /\ Look \in Store /\ (Look = cached \/ Look = store)
         /\ asked \in Nat /\ now \in Nat /\ faults \in Nat
<1>1. MaxAsked \in Nat /\ MaxTime \in Nat /\ MaxFaults \in Nat
  BY HeadquartersAssumption DEF HeadquartersAssumption
<1>2. asked \in 0..MaxAsked /\ now \in 0..MaxTime /\ faults \in 0..MaxFaults
  BY DEF TypeOK
<1>3. store \in Store /\ IsFiniteSet(store.receipts) /\ cached \in Store \union {None} /\ putBack \in [Row -> Int]
  BY DEF TypeOK
<1>4. store.revision \in Nat
  BY <1>3 DEF Store
<1> QED BY <1>1, <1>2, <1>3, <1>4 DEF Sound, Look

\* The file a revision on.
LEMMA Advancing ==
  ASSUME NEW s, Sound(store), Makes(store, s), store' = [s EXCEPT !.revision = @ + 1]
  PROVE  /\ Sound(store') /\ store'.revision = store.revision + 1 /\ store.revision \in Nat
         /\ \A b \in [Row -> Int] : Balance(store, b) => Balance(store', b)
<1>1. Sound(s) /\ s \in Store /\ s.revision = store.revision /\ s.revision \in Nat
  BY DEF Makes, Sound, Store
<1>2. PICK t : t = [s EXCEPT !.revision = @ + 1]
  OBVIOUS
<1>3. t \in Store /\ t.revision = s.revision + 1 /\ t.credits = s.credits /\ t.copies = s.copies /\ t.receipts = s.receipts
  BY <1>1, <1>2 DEF Store
<1>4. Sound(t)
  BY <1>1, <1>3 DEF Sound
<1>5. \A b \in [Row -> Int] : Balance(store, b) => Balance(t, b)
  BY <1>3 DEF Makes, Balance
<1> QED BY <1>1, <1>2, <1>3, <1>4, <1>5

LEMMA Committing ==
  ASSUME NEW s, Sound(store), Makes(store, s), Commit(s)
  PROVE  /\ Sound(store') /\ store.revision <= store'.revision
         /\ store'.revision = store.revision => store' = store
         /\ cached' = store'
         /\ \A b \in [Row -> Int] : Balance(store, b) => Balance(store', b)
<1>1. cached' = store' /\ store' = IF s = store THEN s ELSE [s EXCEPT !.revision = @ + 1]
  BY DEF Commit
<1>2. store.revision \in Nat
  BY DEF Sound, Store
<1>3. CASE s = store
  BY <1>1, <1>2, <1>3
<1>4. CASE s # store
  <2>1. /\ Sound(store') /\ store'.revision = store.revision + 1
        /\ \A b \in [Row -> Int] : Balance(store, b) => Balance(store', b)
    BY <1>1, <1>4, Advancing
  <2> QED BY <1>1, <1>2, <2>1
<1> QED BY <1>3, <1>4

LEMMA Handling ==
  ASSUME TypeOK, NEW q, NEW results, \A s \in results : Makes(store, s),
         Handle(q, results), UNCHANGED putBack
  PROVE  Kept /\ Read
<1>1. Sound(store) /\ putBack \in [Row -> Int] /\ store.revision \in Nat
  BY TypeFacts
<1>2. CASE UNCHANGED <<store, cached>>
  BY <1>1, <1>2 DEF Kept, Read
<1>3. CASE \E s \in results : Commit(s)
  <2>1. PICK s \in results : Commit(s)
    BY <1>3
  <2>2. Makes(store, s)
    BY <2>1
  <2>3. /\ Sound(store') /\ store.revision <= store'.revision
        /\ store'.revision = store.revision => store' = store
        /\ cached' = store'
        /\ \A b \in [Row -> Int] : Balance(store, b) => Balance(store', b)
    BY <1>1, <2>1, <2>2, Committing
  <2> QED BY <1>1, <2>3 DEF Kept, Read
<1> QED BY <1>2, <1>3 DEF Handle

LEMMA CallKinds ==
  ASSUME NEW q \in Call
  PROVE  /\ q.kind = "purchase" => q \in [kind : {"purchase"}, tx : Nat, what : Sold]
         /\ q.kind = "pawn" => q \in [kind : {"pawn"}, tx : Nat, items : Spares]
         /\ q.kind = "convert" => q \in [kind : {"convert"}, tx : Nat, what : Uniform, count : Nat]
         /\ q.kind = "redeem" => q \in [kind : {"redeem"}, tx : Nat, what : Prize]
         /\ q.kind = "consume" => q \in [kind : {"consume"}, tx : Nat, what : Stackable, count : Nat]
         /\ q.kind = "drop" => q \in [kind : {"drop"}, tx : Nat, what : Drop]
         /\ q.kind = "put" => q \in [kind : {"put"}, tx : Nat, items : Copies, seen : Nat]
         /\ q.kind = "pickup" => q \in [kind : {"pickup"}, tx : 0..MaxAsked, at : Nat]
BY DEF Call

\* What the game asks: a put of what it holds, and anything else.
LEMMA Asking ==
  ASSUME TypeOK, AtTheVendor \/ Visit
  PROVE  \E q \in Call : Ask(q) /\ (q.kind = "put" => ready /\ q.items = held /\ q.seen = heldAt)
<1>1. asked \in 0..MaxAsked /\ asked \in Nat /\ now \in Nat /\ held \in Copies /\ heldAt \in Nat
  BY TypeFacts DEF TypeOK
<1>2. CASE AskPurchase
  <2>1. PICK r \in Sold : Ask([kind |-> "purchase", tx |-> asked, what |-> r])
    BY <1>2 DEF AskPurchase
  <2>2. [kind |-> "purchase", tx |-> asked, what |-> r] \in Call
    BY <1>1 DEF Call
  <2> QED BY <2>1, <2>2
<1>3. CASE AskPawn
  <2>1. PICK spares, items : /\ spares = {r \in Row \ Uniform : Spare(r)}
                             /\ items = [r \in spares |-> held[r] - 1]
    OBVIOUS
  <2>2. Ask([kind |-> "pawn", tx |-> asked, items |-> items])
    BY <1>3, <2>1 DEF AskPawn
  <2>3. items \in [spares -> Nat] /\ spares \in SUBSET Row
    BY <1>1, <2>1 DEF Spare, Copies
  <2>4. items \in Spares
    BY <2>3 DEF Spares
  <2>5. [kind |-> "pawn", tx |-> asked, items |-> items] \in Call
    BY <1>1, <2>4 DEF Call
  <2> QED BY <2>2, <2>5
<1>4. CASE AskConvert
  <2>1. PICK r \in Uniform : /\ Spare(r)
                             /\ Ask([kind |-> "convert", tx |-> asked, what |-> r, count |-> held[r] - 1])
    BY <1>4 DEF AskConvert
  <2>2. r \in Row
    BY Constants
  <2>3. held[r] - 1 \in Nat
    BY <1>1, <2>1, <2>2 DEF Spare, Copies
  <2>4. [kind |-> "convert", tx |-> asked, what |-> r, count |-> held[r] - 1] \in Call
    BY <1>1, <2>3 DEF Call
  <2> QED BY <2>1, <2>4
<1>5. CASE AskRedeem
  <2>1. PICK r \in Prize : Ask([kind |-> "redeem", tx |-> asked, what |-> r])
    BY <1>5 DEF AskRedeem
  <2>2. [kind |-> "redeem", tx |-> asked, what |-> r] \in Call
    BY <1>1 DEF Call
  <2> QED BY <2>1, <2>2
<1>6. CASE AskConsume
  <2>1. PICK r \in Stackable : Ask([kind |-> "consume", tx |-> asked, what |-> r, count |-> 1])
    BY <1>6 DEF AskConsume
  <2>2. [kind |-> "consume", tx |-> asked, what |-> r, count |-> 1] \in Call
    BY <1>1 DEF Call
  <2> QED BY <2>1, <2>2
<1>7. CASE AskOpen
  <2>1. PICK r \in Drop : Ask([kind |-> "drop", tx |-> asked, what |-> r])
    BY <1>7 DEF AskOpen
  <2>2. [kind |-> "drop", tx |-> asked, what |-> r] \in Call
    BY <1>1 DEF Call
  <2> QED BY <2>1, <2>2
<1>8. CASE AskPut
  <2>1. PICK q : q = [kind |-> "put", tx |-> asked, items |-> held, seen |-> heldAt]
    OBVIOUS
  <2>2. q \in Call
    BY <1>1, <2>1 DEF Call
  <2>3. ready /\ Ask(q)
    BY <1>8, <2>1 DEF AskPut
  <2> QED BY <2>1, <2>2, <2>3
<1>9. CASE Visit
  <2>1. [kind |-> "pickup", tx |-> asked, at |-> now] \in Call
    BY <1>1 DEF Call
  <2> QED BY <1>9, <2>1 DEF Visit
<1> QED BY <1>2, <1>3, <1>4, <1>5, <1>6, <1>7, <1>8, <1>9 DEF AtTheVendor

\* A put: as many copies in the account as it adds to the file.
LEMMA PutKeeps ==
  ASSUME TypeOK, NEW q \in calls, PutItems(q)
  PROVE  Kept /\ Read /\ (q.items = store.copies => store' = store)
         /\ store'.copies = q.items
<1>1. q \in [kind : {"put"}, tx : Nat, items : Copies, seen : Nat]
  BY CallKinds DEF TypeOK, PutItems
<1>2. PICK s, d : s = [store EXCEPT !.copies = q.items] /\ d = [r \in Row |-> q.items[r] - store.copies[r]]
  OBVIOUS
<1>3. /\ Sound(store) /\ store \in Store /\ store.revision \in Nat /\ putBack \in [Row -> Int]
      /\ store.copies \in [Row -> Int] /\ store.copies \in Copies
      /\ q.items \in [Row -> Int] /\ q.items \in Copies
  BY <1>1, TypeFacts, StoreType DEF Copies
<1>4. /\ s \in Store /\ s.copies = q.items /\ s.credits = store.credits /\ s.receipts = store.receipts
      /\ s.revision = store.revision /\ s.payday = store.payday
  BY <1>2, <1>3 DEF Store
<1>5. Commit(s)
  BY <1>2 DEF PutItems, Handle, Put
<1>6. d \in [Row -> Int] /\ \A r \in Row : q.items[r] = store.copies[r] + d[r]
  BY <1>2, <1>3
<1>7. putBack' \in [Row -> Int] /\ \A r \in Row : putBack'[r] = putBack[r] + d[r]
  BY <1>2, <1>3 DEF PutItems
<1>8. WorthOf(q.items) = WorthOf(store.copies) + WorthOf(d)
  BY <1>3, <1>6, WorthAdds
<1>9. WorthOf(putBack') = WorthOf(putBack) + WorthOf(d)
  <2>1. PICK p : p = putBack'
    OBVIOUS
  <2>2. WorthOf(p) = WorthOf(putBack) + WorthOf(d)
    BY <1>3, <1>6, <1>7, <2>1, WorthAdds
  <2> QED BY <2>1, <2>2
<1>10. store' = IF s = store THEN s ELSE [s EXCEPT !.revision = @ + 1]
  BY <1>5 DEF Commit
<1>11. /\ store'.credits = store.credits /\ store'.copies = q.items /\ store'.receipts = store.receipts
       /\ store' \in Store /\ store.revision <= store'.revision
       /\ store'.revision = store.revision => store' = store
  <2>1. CASE s = store
    BY <1>3, <1>4, <1>10, <2>1
  <2>2. CASE s # store
    <3>1. PICK t : t = [s EXCEPT !.revision = @ + 1]
      OBVIOUS
    <3>2. /\ t \in Store /\ t.revision = s.revision + 1 /\ t.credits = s.credits /\ t.copies = s.copies
          /\ t.receipts = s.receipts
      BY <1>3, <1>4, <3>1 DEF Store
    <3>3. store' = t
      BY <1>10, <2>2, <3>1
    <3> QED BY <1>3, <1>4, <3>2, <3>3
  <2> QED BY <2>1, <2>2
<1>12. q.items = store.copies => store' = store
  BY <1>2, <1>3, <1>10 DEF Store
<1>13. Sound(store')
  BY <1>3, <1>11 DEF Sound
<1>14. ASSUME Balance(store, putBack) PROVE Balance(store', putBack')
  <2>1. PICK w : w = Total([p \in store.receipts |-> Worth(p)])
    OBVIOUS
  <2>2. w \in Int
    BY <1>3, <2>1, ReceiptsType
  <2>3. store.credits + WorthOf(store.copies) = StartCredits + WorthOf(StartCopies) + WorthOf(putBack) + w
    BY <1>14, <2>1 DEF Balance
  <2>4. /\ WorthOf(store.copies) \in Int /\ WorthOf(putBack) \in Int /\ WorthOf(d) \in Int
        /\ WorthOf(StartCopies) \in Int /\ StartCredits \in Nat /\ store.credits \in Nat
    BY <1>3, <1>6, WorthType, StartType, StoreType
  <2>5. store'.credits + WorthOf(store'.copies) = StartCredits + WorthOf(StartCopies) + WorthOf(putBack') + w
    <3>1. store'.credits + WorthOf(store'.copies) = store.credits + (WorthOf(store.copies) + WorthOf(d))
      BY <1>8, <1>11
    <3>2. WorthOf(putBack') = WorthOf(putBack) + WorthOf(d)
      BY <1>9
    <3> QED BY <2>2, <2>3, <2>4, <3>1, <3>2
  <2>6. ASSUME NEW r \in Stackable
        PROVE  store'.copies[r] = StartCopies[r] + putBack'[r] + Total([p \in store'.receipts |-> Brought(p, r)])
    <3>1. r \in Row
      BY Constants
    <3>2. PICK y : y = Total([p \in store.receipts |-> Brought(p, r)])
      OBVIOUS
    <3>3. y \in Int
      BY <1>3, <3>1, <3>2, ReceiptsType
    <3>4. store.copies[r] = StartCopies[r] + putBack[r] + y
      BY <1>14, <3>2 DEF Balance
    <3>5. StartCopies[r] \in Nat /\ putBack[r] \in Int /\ d[r] \in Int
      BY <1>3, <1>6, <3>1, StartType DEF Copies
    <3>6. store'.copies[r] = store.copies[r] + d[r] /\ putBack'[r] = putBack[r] + d[r]
      BY <1>6, <1>7, <1>11, <3>1
    <3>7. Total([p \in store'.receipts |-> Brought(p, r)]) = y
      BY <1>11, <3>2
    <3> QED BY <3>3, <3>4, <3>5, <3>6, <3>7
  <2> QED BY <1>11, <2>1, <2>5, <2>6 DEF Balance
<1>15. cached' = store'
  BY <1>5 DEF Commit
<1> QED BY <1>7, <1>11, <1>12, <1>13, <1>14, <1>15 DEF Kept, Read

CallsTyped == calls \subseteq Call
CachesTyped == ready \in BOOLEAN /\ wallet \in Nat /\ held \in Copies /\ inbox \subseteq Mail /\ heldAt \in Nat
CountersTyped == asked \in 0..MaxAsked /\ now \in 0..MaxTime /\ faults \in 0..MaxFaults
KioskTyped == {notification, inHand, accepted, heard} \subseteq Push

\* Where the inventory that the game shows comes from, and the puts under way.
HeldFrom ==
    \/ UNCHANGED <<ready, held, heldAt>>
    \/ ready' = FALSE
    \/ held' = store'.copies /\ heldAt' = store'.revision
    \/ store' = store /\ held' = Look.copies /\ heldAt' = Look.revision
PutsFrom ==
    \A q \in calls' : q.kind = "put" =>
        q \in calls \/ (store' = store /\ ready /\ q.items = held /\ q.seen = heldAt)

LEMMA Parted ==
  TypeOK <=> /\ Sound(store) /\ cached \in Store \union {None} /\ putBack \in [Row -> Int]
             /\ CallsTyped /\ CachesTyped /\ CountersTyped /\ KioskTyped
BY DEF TypeOK, Sound, CallsTyped, CachesTyped, CountersTyped, KioskTyped

LEMMA SameFile == ASSUME TypeOK, UNCHANGED <<store, putBack>>, cached' = cached \/ cached' = Look
                  PROVE  Kept /\ Read
<1>1. Sound(store) /\ putBack \in [Row -> Int] /\ store.revision \in Nat /\ (Look = cached \/ Look = store)
  BY TypeFacts
<1> QED BY <1>1 DEF Kept, Read

LEMMA SameCalls == ASSUME TypeOK, calls' \subseteq calls PROVE CallsTyped' /\ PutsFrom
BY DEF TypeOK, CallsTyped, PutsFrom

LEMMA SameCaches == ASSUME TypeOK, UNCHANGED caches PROVE CachesTyped' /\ HeldFrom
BY DEF TypeOK, CachesTyped, HeldFrom, caches

LEMMA SameCounters == ASSUME TypeOK, UNCHANGED <<asked, now>>, UNCHANGED faults \/ Fault PROVE CountersTyped'
<1>1. faults \in Nat /\ MaxFaults \in Nat
  BY TypeFacts, HeadquartersAssumption DEF HeadquartersAssumption
<1> QED BY <1>1 DEF TypeOK, CountersTyped, Fault

LEMMA SameKiosk == ASSUME TypeOK, UNCHANGED kiosk PROVE KioskTyped'
BY DEF TypeOK, KioskTyped, kiosk

LEMMA LookType == ASSUME TypeOK PROVE Look.credits \in Nat /\ Look.copies \in Copies /\ Look.revision \in Nat
<1>1. Look \in Store
  BY TypeFacts
<1> QED BY <1>1, StoreType

LEMMA HandleRest ==
  ASSUME TypeOK, NEW q, NEW results, Handle(q, results)
  PROVE  calls' \subseteq calls /\ (UNCHANGED faults \/ Fault)
BY DEF Handle, Answered

LEMMA NextCases ==
  ASSUME [Next]_vars
  PROVE  \/ AtTheVendor \/ Visit \/ Tick \/ \E m \in Mail : RedeemMail(m)
         \/ \E q \in calls :
              \/ Purchase(q) \/ Pawn(q) \/ ApplyRule(q) \/ Consume(q) \/ OpenDrop(q) \/ PutItems(q) \/ PickUp(q)
              \/ Requeue(q) \/ Fails(q)
         \/ Fetch \/ SyncInventory \/ TakePush \/ DeliverPush \/ RequeuePush \/ SyncWallet
         \/ Elsewhere \/ Restart \/ UNCHANGED vars
BY DEF Next, AtThePost

\* What every step does.
Step == Kept /\ Read /\ CallsTyped' /\ CachesTyped' /\ CountersTyped' /\ KioskTyped' /\ HeldFrom /\ PutsFrom

LEMMA AskStep == ASSUME TypeOK, AtTheVendor \/ Visit PROVE Step
<1>1. PICK q \in Call : Ask(q) /\ (q.kind = "put" => ready /\ q.items = held /\ q.seen = heldAt)
  BY Asking
<1>2. /\ UNCHANGED <<store, cached, caches, place, kiosk, faults, putBack>>
      /\ asked < MaxAsked /\ calls' = calls \union {q} /\ asked' = asked + 1
  BY <1>1 DEF Ask
<1>3. Kept /\ Read
  BY <1>2, SameFile
<1>4. CachesTyped' /\ HeldFrom
  BY <1>2, SameCaches
<1>5. KioskTyped'
  BY <1>2, SameKiosk
<1>6. CallsTyped' /\ PutsFrom
  BY <1>1, <1>2 DEF TypeOK, CallsTyped, PutsFrom
<1>7. CountersTyped'
  <2>1. MaxAsked \in Nat
    BY HeadquartersAssumption DEF HeadquartersAssumption
  <2> QED BY <1>2, <2>1 DEF TypeOK, CountersTyped, place
<1> QED BY <1>3, <1>4, <1>5, <1>6, <1>7 DEF Step

LEMMA TickStep == ASSUME TypeOK, Tick PROVE Step
<1>1. /\ UNCHANGED <<desk, store, cached, caches, calls, asked, kiosk, faults, putBack>>
      /\ now < MaxTime /\ now' = now + 1
  BY DEF Tick
<1>2. Kept /\ Read
  BY <1>1, SameFile
<1>3. CachesTyped' /\ HeldFrom
  BY <1>1, SameCaches
<1>4. KioskTyped'
  BY <1>1, SameKiosk
<1>5. CallsTyped' /\ PutsFrom
  BY <1>1, SameCalls
<1>6. CountersTyped'
  <2>1. MaxTime \in Nat
    BY HeadquartersAssumption DEF HeadquartersAssumption
  <2> QED BY <1>1, <2>1 DEF TypeOK, CountersTyped
<1> QED BY <1>2, <1>3, <1>4, <1>5, <1>6 DEF Step

\* A request handled away from the main thread.
LEMMA HandleStep ==
  ASSUME TypeOK, NEW q, NEW results, \A s \in results : Makes(store, s),
         Handle(q, results), UNCHANGED <<caches, asked, place, putBack>>, KioskTyped'
  PROVE  Step
<1>1. Kept /\ Read
  BY Handling
<1>2. CachesTyped' /\ HeldFrom
  BY SameCaches
<1>3. calls' \subseteq calls /\ (UNCHANGED faults \/ Fault)
  BY HandleRest
<1>4. CallsTyped' /\ PutsFrom
  BY <1>3, SameCalls
<1>5. CountersTyped'
  BY <1>3, SameCounters DEF place
<1> QED BY <1>1, <1>2, <1>4, <1>5 DEF Step

LEMMA RequestStep ==
  ASSUME TypeOK, NEW q \in calls, Pawn(q) \/ ApplyRule(q) \/ Consume(q) \/ OpenDrop(q) \/ PickUp(q)
  PROVE  Step
<1>1. q \in Call /\ Sound(store) /\ now \in Nat
  BY TypeFacts DEF TypeOK
<1>2. CASE Pawn(q)
  <2>1. q \in [kind : {"pawn"}, tx : Nat, items : Spares]
    BY <1>1, <1>2, CallKinds DEF Pawn
  <2>2. \A s \in Pawned(store, q) : Makes(store, s)
    BY <1>1, <2>1, PawnedAccount
  <2>3. Handle(q, Pawned(store, q)) /\ UNCHANGED <<caches, asked, place, kiosk, putBack>>
    BY <1>2 DEF Pawn
  <2> QED BY <2>2, <2>3, SameKiosk, HandleStep
<1>3. CASE ApplyRule(q)
  <2>1. UNCHANGED <<caches, asked, place, kiosk, putBack>>
    BY <1>3 DEF ApplyRule
  <2>2. CASE q.kind = "convert" /\ Handle(q, Converted(store, q))
    <3>1. q \in [kind : {"convert"}, tx : Nat, what : Uniform, count : Nat]
      BY <1>1, <2>2, CallKinds
    <3>2. \A s \in Converted(store, q) : Makes(store, s)
      BY <1>1, <3>1, ConvertedAccount
    <3> QED BY <2>1, <2>2, <3>2, SameKiosk, HandleStep
  <2>3. CASE q.kind = "redeem" /\ Handle(q, Redeemed(store, q))
    <3>1. q \in [kind : {"redeem"}, tx : Nat, what : Prize]
      BY <1>1, <2>3, CallKinds
    <3>2. \A s \in Redeemed(store, q) : Makes(store, s)
      BY <1>1, <3>1, RedeemedAccount
    <3> QED BY <2>1, <2>3, <3>2, SameKiosk, HandleStep
  <2> QED BY <1>3, <2>2, <2>3 DEF ApplyRule
<1>4. CASE Consume(q)
  <2>1. q \in [kind : {"consume"}, tx : Nat, what : Stackable, count : Nat]
    BY <1>1, <1>4, CallKinds DEF Consume
  <2>2. \A s \in Consumed(store, q) : Makes(store, s)
    BY <1>1, <2>1, ConsumedAccount
  <2>3. Handle(q, Consumed(store, q)) /\ UNCHANGED <<caches, asked, place, kiosk, putBack>>
    BY <1>4 DEF Consume
  <2> QED BY <2>2, <2>3, SameKiosk, HandleStep
<1>5. CASE OpenDrop(q)
  <2>1. q \in [kind : {"drop"}, tx : Nat, what : Drop]
    BY <1>1, <1>5, CallKinds DEF OpenDrop
  <2>2. \A s \in Opened(store, q) : Makes(store, s)
    BY <1>1, <2>1, OpenedAccount
  <2>3. Handle(q, Opened(store, q)) /\ UNCHANGED <<caches, asked, place, kiosk, putBack>>
    BY <1>5 DEF OpenDrop
  <2> QED BY <2>2, <2>3, SameKiosk, HandleStep
<1>6. CASE PickUp(q)
  <2>1. q \in [kind : {"pickup"}, tx : 0..MaxAsked, at : Nat]
    BY <1>1, <1>6, CallKinds DEF PickUp
  <2>2. q.at \in Nat /\ q.tx \in 0..MaxAsked
    BY <2>1
  <2>3. Makes(store, Settled(store, q.at))
    BY <1>1, <2>2, SettledAccount
  <2>4. \A s \in {Settled(store, q.at)} : Makes(store, s)
    BY <2>3
  <2>5. Handle(q, {Settled(store, q.at)}) /\ UNCHANGED <<caches, asked, place, putBack>>
    BY <1>6 DEF PickUp
  <2>6. KioskTyped'
    BY <1>6, <2>2 DEF PickUp, TypeOK, KioskTyped, Push
  <2> QED BY <2>4, <2>5, <2>6, HandleStep
<1> QED BY <1>2, <1>3, <1>4, <1>5, <1>6

LEMMA PurchaseStep == ASSUME TypeOK, NEW q \in calls, Purchase(q) PROVE Step
<1>1. q \in Call /\ Sound(store)
  BY TypeFacts DEF TypeOK
<1>2. q \in [kind : {"purchase"}, tx : Nat, what : Sold]
  BY <1>1, CallKinds DEF Purchase
<1>3. \A s \in Purchased(store, q) : Makes(store, s)
  BY <1>1, <1>2, PurchasedAccount
<1>4. /\ Handle(q, Purchased(store, q)) /\ UNCHANGED <<ready, inbox, asked, place, kiosk, putBack>>
      /\ ShowIfReady(store') \/ UNCHANGED <<wallet, held, heldAt>>
  BY DEF Purchase
<1>5. Kept /\ Read
  BY <1>3, <1>4, Handling
<1>6. calls' \subseteq calls /\ (UNCHANGED faults \/ Fault)
  BY <1>4, HandleRest
<1>7. CallsTyped' /\ PutsFrom
  BY <1>6, SameCalls
<1>8. CountersTyped'
  BY <1>4, <1>6, SameCounters DEF place
<1>9. KioskTyped'
  BY <1>4, SameKiosk
<1>10. CachesTyped' /\ HeldFrom
  <2>1. CASE UNCHANGED <<wallet, held, heldAt>>
    BY <1>4, <2>1, SameCaches DEF caches
  <2>2. CASE wallet' = store'.credits /\ held' = HeldAfter(store') /\ heldAt' = store'.revision
    <3>1. store'.credits \in Nat /\ store'.copies \in Copies /\ store'.revision \in Nat
      BY <1>5, StoreType DEF Kept, Sound
    <3> QED BY <1>4, <2>2, <3>1 DEF TypeOK, CachesTyped, HeldFrom, HeldAfter
  <2> QED BY <1>4, <2>1, <2>2 DEF ShowIfReady
<1> QED BY <1>5, <1>7, <1>8, <1>9, <1>10 DEF Step

LEMMA PutStep == ASSUME TypeOK, NEW q \in calls, PutItems(q) PROVE Step
<1>1. Handle(q, Put(store, q)) /\ UNCHANGED <<caches, asked, place, kiosk>>
  BY DEF PutItems
<1>2. Kept /\ Read
  BY PutKeeps
<1>3. calls' \subseteq calls /\ (UNCHANGED faults \/ Fault)
  BY <1>1, HandleRest
<1>4. CallsTyped' /\ PutsFrom
  BY <1>3, SameCalls
<1>5. CountersTyped'
  BY <1>1, <1>3, SameCounters DEF place
<1>6. KioskTyped' /\ CachesTyped' /\ HeldFrom
  BY <1>1, SameKiosk, SameCaches
<1> QED BY <1>2, <1>4, <1>5, <1>6 DEF Step

LEMMA RequeueStep == ASSUME TypeOK, NEW q \in calls, Requeue(q) PROVE Step
<1>1. /\ q.kind = "pawn" /\ asked < MaxAsked
      /\ calls' = (calls \ {q}) \union {[q EXCEPT !.tx = asked]} /\ asked' = asked + 1
      /\ UNCHANGED <<store, cached, caches, place, kiosk, faults, putBack>>
  BY DEF Requeue
<1>2. Kept /\ Read
  BY <1>1, SameFile
<1>3. CachesTyped' /\ HeldFrom
  BY <1>1, SameCaches
<1>4. KioskTyped'
  BY <1>1, SameKiosk
<1>5. q \in [kind : {"pawn"}, tx : Nat, items : Spares] /\ asked \in Nat
  BY <1>1, CallKinds, TypeFacts DEF TypeOK
<1>6. PICK p : p = [q EXCEPT !.tx = asked]
  OBVIOUS
<1>7. p \in [kind : {"pawn"}, tx : Nat, items : Spares] /\ p.kind = "pawn"
  BY <1>5, <1>6
<1>8. p \in Call
  BY <1>7 DEF Call
<1>9. CallsTyped' /\ PutsFrom
  <2>1. calls' = (calls \ {q}) \union {p} /\ calls \subseteq Call
    BY <1>1, <1>6 DEF TypeOK
  <2>2. CallsTyped'
    BY <1>8, <2>1 DEF CallsTyped
  <2>3. PutsFrom
    BY <1>7, <2>1 DEF PutsFrom
  <2> QED BY <2>2, <2>3
<1>10. CountersTyped'
  <2>1. MaxAsked \in Nat
    BY HeadquartersAssumption DEF HeadquartersAssumption
  <2> QED BY <1>1, <2>1 DEF TypeOK, CountersTyped, place
<1> QED BY <1>2, <1>3, <1>4, <1>9, <1>10 DEF Step

LEMMA FailsStep == ASSUME TypeOK, NEW q \in calls, Fails(q) PROVE Step
<1>1. calls' \subseteq calls /\ UNCHANGED <<store, cached, asked, caches, place, kiosk, faults, putBack>>
  BY DEF Fails
<1>2. Kept /\ Read
  BY <1>1, SameFile
<1>3. CachesTyped' /\ HeldFrom /\ KioskTyped' /\ CallsTyped' /\ PutsFrom
  BY <1>1, SameCaches, SameKiosk, SameCalls
<1>4. CountersTyped'
  BY <1>1, SameCounters DEF place
<1> QED BY <1>2, <1>3, <1>4 DEF Step

LEMMA RedeemMailStep == ASSUME TypeOK, NEW m \in Mail, RedeemMail(m) PROVE Step
<1>1. /\ Commit(Delivered(store, m)) /\ inbox' = inbox \ {m}
      /\ UNCHANGED <<ready, wallet, held, heldAt, calls, asked, place, kiosk, faults, putBack>>
  BY DEF RedeemMail
<1>2. Sound(store) /\ putBack \in [Row -> Int]
  BY TypeFacts
<1>3. Makes(store, Delivered(store, m))
  BY <1>2, DeliveredAccount
<1>4. /\ Sound(store') /\ store.revision <= store'.revision
      /\ store'.revision = store.revision => store' = store
      /\ cached' = store'
      /\ \A b \in [Row -> Int] : Balance(store, b) => Balance(store', b)
  BY <1>1, <1>2, <1>3, Committing
<1>5. Kept /\ Read
  BY <1>1, <1>2, <1>4 DEF Kept, Read
<1>6. CachesTyped' /\ HeldFrom
  BY <1>1 DEF TypeOK, CachesTyped, HeldFrom
<1>7. KioskTyped' /\ CallsTyped' /\ PutsFrom
  BY <1>1, SameKiosk, SameCalls
<1>8. CountersTyped'
  BY <1>1, SameCounters DEF place
<1> QED BY <1>5, <1>6, <1>7, <1>8 DEF Step

\* The loops of the main thread and the game's fetches only read.
LEMMA LoopStep ==
  ASSUME TypeOK, Fetch \/ SyncInventory \/ TakePush \/ DeliverPush \/ RequeuePush \/ SyncWallet
  PROVE  Step
<1>1. UNCHANGED <<store, calls, asked, place, faults, putBack>> /\ (cached' = cached \/ cached' = Look)
  BY DEF Fetch, SyncInventory, TakePush, DeliverPush, RequeuePush, SyncWallet, ShowWallet
<1>2. Kept /\ Read
  BY <1>1, SameFile
<1>3. CallsTyped' /\ PutsFrom
  BY <1>1, SameCalls
<1>4. CountersTyped'
  BY <1>1, SameCounters DEF place
<1>5. Look.credits \in Nat /\ Look.copies \in Copies /\ Look.revision \in Nat
  BY LookType
<1>6. CASE Fetch
  <2>1. CachesTyped' /\ HeldFrom
    BY <1>1, <1>5, <1>6 DEF Fetch, CachesTyped, HeldFrom
  <2>2. KioskTyped'
    BY <1>6, SameKiosk DEF Fetch
  <2> QED BY <1>2, <1>3, <1>4, <2>1, <2>2 DEF Step
<1>7. CASE SyncInventory
  <2>1. CachesTyped' /\ HeldFrom
    BY <1>1, <1>5, <1>7 DEF SyncInventory, CachesTyped, HeldFrom, HeldAfter, TypeOK
  <2>2. KioskTyped'
    BY <1>7, SameKiosk DEF SyncInventory
  <2> QED BY <1>2, <1>3, <1>4, <2>1, <2>2 DEF Step
<1>8. CASE TakePush
  <2>1. CachesTyped' /\ HeldFrom
    BY <1>8, SameCaches DEF TakePush
  <2>2. KioskTyped'
    BY <1>8 DEF TakePush, TypeOK, KioskTyped, Push
  <2> QED BY <1>2, <1>3, <1>4, <2>1, <2>2 DEF Step
<1>9. CASE DeliverPush \/ RequeuePush \/ SyncWallet
  <2>1. ShowWallet
    BY <1>9 DEF DeliverPush, RequeuePush, SyncWallet
  <2>2. CachesTyped' /\ HeldFrom
    BY <1>5, <2>1 DEF ShowWallet, CachesTyped, HeldFrom, TypeOK
  <2>3. KioskTyped'
    <3>1. UNCHANGED accepted
      BY <2>1 DEF ShowWallet
    <3>2. CASE DeliverPush
      BY <3>1, <3>2 DEF DeliverPush, TypeOK, KioskTyped, Push
    <3>3. CASE RequeuePush
      BY <3>1, <3>3 DEF RequeuePush, PutBackOlder, TypeOK, KioskTyped, Push
    <3>4. CASE SyncWallet
      BY <3>1, <3>4 DEF SyncWallet, TypeOK, KioskTyped
    <3> QED BY <1>9, <3>2, <3>3, <3>4
  <2> QED BY <1>2, <1>3, <1>4, <2>2, <2>3 DEF Step
<1> QED BY <1>6, <1>7, <1>8, <1>9

LEMMA ElsewhereStep == ASSUME TypeOK, Elsewhere PROVE Step
<1>1. /\ Fault /\ UNCHANGED <<cached, caches, calls, asked, place, kiosk, putBack>>
      /\ \E s \in {Delivered(store, m) : m \in Mail} \union
              UNION {Purchased(store, [kind |-> "purchase", tx |-> MaxAsked + faults, what |-> r]) : r \in Sold} :
            store' = [s EXCEPT !.revision = @ + 1]
  BY DEF Elsewhere
<1>2. Sound(store) /\ putBack \in [Row -> Int] /\ faults \in Nat /\ MaxAsked \in Nat
  BY TypeFacts, HeadquartersAssumption DEF HeadquartersAssumption
<1>3. PICK s : /\ store' = [s EXCEPT !.revision = @ + 1]
               /\ \/ \E m \in Mail : s = Delivered(store, m)
                  \/ \E r \in Sold : s \in Purchased(store, [kind |-> "purchase", tx |-> MaxAsked + faults, what |-> r])
  <2>1. PICK s : /\ store' = [s EXCEPT !.revision = @ + 1]
                 /\ s \in {Delivered(store, m) : m \in Mail} \union
                        UNION {Purchased(store, [kind |-> "purchase", tx |-> MaxAsked + faults, what |-> r]) : r \in Sold}
    BY <1>1, Zenon
  <2>2. \/ s \in {Delivered(store, m) : m \in Mail}
        \/ s \in UNION {Purchased(store, [kind |-> "purchase", tx |-> MaxAsked + faults, what |-> r]) : r \in Sold}
    BY <2>1, Zenon
  <2> QED BY <2>1, <2>2, Zenon
<1>4. Makes(store, s)
  <2>1. CASE \E m \in Mail : s = Delivered(store, m)
    BY <1>2, <2>1, DeliveredAccount
  <2>2. CASE \E r \in Sold : s \in Purchased(store, [kind |-> "purchase", tx |-> MaxAsked + faults, what |-> r])
    <3>1. PICK r \in Sold : s \in Purchased(store, [kind |-> "purchase", tx |-> MaxAsked + faults, what |-> r])
      BY <2>2
    <3>2. PICK q : q = [kind |-> "purchase", tx |-> MaxAsked + faults, what |-> r]
      OBVIOUS
    <3>3. q \in [kind : {"purchase"}, tx : Nat, what : Sold]
      BY <1>2, <3>2
    <3>4. s \in Purchased(store, q)
      BY <3>1, <3>2
    <3> QED BY <1>2, <3>3, <3>4, PurchasedAccount
  <2> QED BY <1>3, <2>1, <2>2
<1>5. /\ Sound(store') /\ store'.revision = store.revision + 1 /\ store.revision \in Nat
      /\ \A b \in [Row -> Int] : Balance(store, b) => Balance(store', b)
  BY <1>2, <1>3, <1>4, Advancing
<1>6. Kept /\ Read
  BY <1>1, <1>2, <1>5 DEF Kept, Read
<1>7. CachesTyped' /\ HeldFrom /\ KioskTyped' /\ CallsTyped' /\ PutsFrom
  BY <1>1, SameCaches, SameKiosk, SameCalls
<1>8. CountersTyped'
  BY <1>1, SameCounters DEF place
<1> QED BY <1>6, <1>7, <1>8 DEF Step

LEMMA RestartStep == ASSUME TypeOK, Restart PROVE Step
<1>1. /\ Fault /\ cached' = None /\ calls' = {} /\ ready' = FALSE /\ UNCHANGED <<store, asked, place, putBack>>
      /\ wallet' = 0 /\ held' = [r \in Row |-> 0] /\ heldAt' = 0 /\ inbox' = {}
      /\ notification' = None /\ inHand' = None /\ accepted' = None /\ heard' = None
  BY DEF Restart
<1>2. Sound(store) /\ putBack \in [Row -> Int] /\ store.revision \in Nat
  BY TypeFacts
<1>3. Kept /\ Read
  BY <1>1, <1>2 DEF Kept, Read
<1>4. CachesTyped' /\ HeldFrom
  BY <1>1 DEF CachesTyped, HeldFrom, Copies
<1>5. KioskTyped'
  BY <1>1 DEF KioskTyped, Push
<1>6. CallsTyped' /\ PutsFrom
  BY <1>1, SameCalls
<1>7. CountersTyped'
  BY <1>1, SameCounters DEF place
<1> QED BY <1>3, <1>4, <1>5, <1>6, <1>7 DEF Step

LEMMA EveryStep == ASSUME TypeOK, [Next]_vars PROVE Step
<1>1. ASSUME UNCHANGED vars PROVE Step
  <2>1. UNCHANGED <<store, cached, caches, calls, asked, place, kiosk, faults, putBack>>
    BY <1>1 DEF vars
  <2>2. Kept /\ Read
    BY <2>1, SameFile
  <2>3. CachesTyped' /\ HeldFrom /\ KioskTyped' /\ CallsTyped' /\ PutsFrom
    BY <2>1, SameCaches, SameKiosk, SameCalls
  <2>4. CountersTyped'
    BY <2>1, SameCounters DEF place
  <2> QED BY <2>2, <2>3, <2>4 DEF Step
<1>2. ASSUME NEW q \in calls,
             \/ Purchase(q) \/ Pawn(q) \/ ApplyRule(q) \/ Consume(q) \/ OpenDrop(q) \/ PutItems(q) \/ PickUp(q)
             \/ Requeue(q) \/ Fails(q)
      PROVE  Step
  BY <1>2, PurchaseStep, RequestStep, PutStep, RequeueStep, FailsStep
<1>3. ASSUME NEW m \in Mail, RedeemMail(m) PROVE Step
  BY <1>3, RedeemMailStep
<1> QED BY <1>1, <1>2, <1>3, NextCases, AskStep, TickStep, LoopStep, ElsewhereStep, RestartStep

LEMMA TypeStep == ASSUME TypeOK, [Next]_vars PROVE TypeOK'
<1>1. Step
  BY EveryStep
<1>2. cached \in Store \union {None} /\ Sound(store') /\ (cached' = cached \/ cached' = store' \/ cached' = None)
  BY <1>1 DEF Step, Kept, Read, TypeOK
<1>3. cached' \in Store \union {None}
  BY <1>2 DEF Sound
<1> QED BY <1>1, <1>3 DEF Step, Kept, TypeOK, Sound, CallsTyped, CachesTyped, CountersTyped, KioskTyped

LEMMA CurrentStep == ASSUME TypeOK, Current, [Next]_vars PROVE Current'
<1>1. Step
  BY EveryStep
<1>2. /\ store.revision \in Nat /\ store'.revision \in Nat /\ store.revision <= store'.revision
      /\ store'.revision = store.revision => store' = store
      /\ cached' = cached \/ cached' = store' \/ cached' = None
      /\ CallsTyped' /\ CachesTyped' /\ HeldFrom /\ PutsFrom
  <2>1. store.revision \in Nat
    BY TypeFacts
  <2>2. store'.revision \in Nat
    BY <1>1, StoreType DEF Step, Kept, Sound
  <2> QED BY <1>1, <2>1, <2>2 DEF Step, Kept, Read
<1>3. ready' => heldAt' <= store'.revision /\ (heldAt' = store'.revision => held' = store'.copies)
  <2>1. heldAt \in Nat /\ heldAt' \in Nat
    BY <1>2 DEF TypeOK, CachesTyped
  <2>2. CASE UNCHANGED <<ready, held, heldAt>>
    BY <1>2, <2>1, <2>2 DEF Current
  <2>3. CASE store' = store /\ held' = Look.copies /\ heldAt' = Look.revision
    BY <1>2, <2>3 DEF Current, Look
  <2>4. CASE ready' = FALSE \/ (held' = store'.copies /\ heldAt' = store'.revision)
    BY <1>2, <2>4
  <2> QED BY <1>2, <2>2, <2>3, <2>4 DEF HeldFrom
<1>4. cached' # None => cached'.revision <= store'.revision /\ (cached'.revision = store'.revision => cached' = store')
  <2>1. CASE cached' = cached
    <3>1. cached # None => cached.revision \in Nat
      BY StoreType DEF TypeOK
    <3> QED BY <1>2, <2>1, <3>1 DEF Current
  <2>2. CASE cached' = store' \/ cached' = None
    BY <1>2, <2>2
  <2> QED BY <1>2, <2>1, <2>2
<1>5. ASSUME NEW q \in calls', q.kind = "put"
      PROVE  q.seen <= store'.revision /\ (q.seen = store'.revision => q.items = store'.copies)
  <2>1. q.seen \in Nat
    BY <1>2, <1>5, CallKinds DEF CallsTyped
  <2>2. CASE q \in calls
    <3>1. q.seen <= store.revision /\ (q.seen = store.revision => q.items = store.copies)
      BY <1>5, <2>2 DEF Current
    <3> QED BY <1>2, <2>1, <3>1
  <2>3. CASE store' = store /\ ready /\ q.items = held /\ q.seen = heldAt
    BY <1>2, <2>3 DEF Current
  <2> QED BY <1>2, <1>5, <2>2, <2>3 DEF PutsFrom
<1> QED BY <1>3, <1>4, <1>5 DEF Current

\* Only zero is twice itself.
LEMMA NothingDoubled == ASSUME NEW x \in Int, x = x + x PROVE x = 0
OBVIOUS

LEMMA HeadquartersInit == ASSUME Init PROVE HeadquartersInv
<1>1. /\ store = [revision |-> 0, credits |-> StartCredits, copies |-> StartCopies, receipts |-> {}, payday |-> None]
      /\ cached = None /\ ready = FALSE /\ wallet = 0 /\ held = [r \in Row |-> 0] /\ inbox = {} /\ heldAt = 0
      /\ calls = {} /\ asked = 0 /\ now = 0 /\ faults = 0 /\ putBack = [r \in Row |-> 0]
      /\ notification = None /\ inHand = None /\ accepted = None /\ heard = None
  BY DEF Init
<1>2. StartCredits \in Nat /\ StartCopies \in Copies
  BY StartType
<1>3. Sound(store)
  BY <1>1, <1>2, FS_EmptySet DEF Sound, Store
<1>4. TypeOK
  <2>1. MaxAsked \in Nat /\ MaxTime \in Nat /\ MaxFaults \in Nat
    BY HeadquartersAssumption DEF HeadquartersAssumption
  <2>2. CountersTyped
    BY <1>1, <2>1 DEF CountersTyped
  <2>3. CachesTyped /\ CallsTyped
    BY <1>1 DEF CachesTyped, CallsTyped, Copies
  <2>4. KioskTyped
    BY <1>1 DEF KioskTyped, Push
  <2>5. cached \in Store \union {None} /\ putBack \in [Row -> Int]
    BY <1>1
  <2> QED BY <1>3, <2>2, <2>3, <2>4, <2>5, Parted
<1>5. Current
  BY <1>1 DEF Current
<1>6. Balance(store, putBack)
  <2>1. store.credits = StartCredits /\ store.copies = StartCopies /\ store.receipts = {}
    BY <1>1
  <2>2. PICK z, w : z = putBack /\ w = [p \in {} |-> Worth(p)]
    OBVIOUS
  <2>3. z \in [Row -> Int] /\ \A r \in Row : z[r] = 0
    BY <1>1, <2>2
  <2>4. WorthOf(z) = 0
    <3>1. WorthOf(z) = WorthOf(z) + WorthOf(z)
      BY <2>3, WorthAdds
    <3>2. WorthOf(z) \in Int
      BY <2>3, WorthType
    <3> QED BY <3>1, <3>2, NothingDoubled
  <2>5. Total(w) = 0
    <3>1. w \in [{} -> Int]
      BY <2>2
    <3> QED BY <3>1, TotalOfNone
  <2>6. ASSUME NEW r \in Stackable PROVE StartCopies[r] = StartCopies[r] + z[r] + Total([p \in {} |-> Brought(p, r)])
    <3>1. r \in Row
      BY Constants
    <3>2. PICK y : y = [p \in {} |-> Brought(p, r)]
      OBVIOUS
    <3>3. y \in [{} -> Int]
      BY <3>2
    <3>4. Total(y) = 0
      BY <3>3, TotalOfNone
    <3>5. StartCopies[r] \in Nat
      BY <1>2, <3>1 DEF Copies
    <3> QED BY <2>3, <3>1, <3>2, <3>4, <3>5
  <2>7. WorthOf(StartCopies) \in Int
    BY StartType
  <2> QED BY <1>2, <2>1, <2>2, <2>4, <2>5, <2>6, <2>7 DEF Balance
<1> QED BY <1>4, <1>5, <1>6, Accounted DEF HeadquartersInv

LEMMA HeadquartersStep == ASSUME HeadquartersInv, [Next]_vars PROVE HeadquartersInv'
<1>1. TypeOK /\ Current /\ Balance(store, putBack)
  BY Accounted DEF HeadquartersInv
<1>2. TypeOK' /\ Current'
  BY <1>1, TypeStep, CurrentStep
<1>3. Balance(store', putBack')
  BY <1>1, EveryStep DEF Step, Kept
<1>4. WealthIsAccounted'
  BY <1>3 DEF WealthIsAccounted, Balance
<1> QED BY <1>2, <1>4 DEF HeadquartersInv

THEOREM HeadquartersInvariant == Spec => []HeadquartersInv
<1>1. Init => HeadquartersInv
  BY HeadquartersInit
<1>2. HeadquartersInv /\ [Next]_vars => HeadquartersInv'
  BY HeadquartersStep
<1> QED BY <1>1, <1>2, PTL DEF Spec

\* Every variable keeps its type: in particular no purse and no row is ever
\* driven below zero, and the receipts stay the finite set that was saved.
THEOREM HeadquartersTyped == Spec => []TypeOK
<1>1. HeadquartersInv => TypeOK
  BY DEF HeadquartersInv
<1> QED BY <1>1, HeadquartersInvariant, PTL

\* hq_marketplace.cpp, hq_vendor.hpp, hq_mail.hpp, hq_payroll.hpp and
\* open_supply_drop: for any catalog, drops and deliveries, and however often
\* requests are repeated, lost, refused, requeued or made by another instance,
\* the purse and the inventory are what the receipts say, each counted once.
THEOREM WealthIsAccountedAlways == Spec => []WealthIsAccounted
<1>1. HeadquartersInv => WealthIsAccounted
  BY DEF HeadquartersInv
<1> QED BY <1>1, HeadquartersInvariant, PTL

\* hq_marketplace.cpp put(): a put of quantities that are up to date writes what
\* the file holds already.
THEOREM PutOfCurrentChangesNothingAlways == Spec => PutOfCurrentChangesNothing
<1>1. HeadquartersInv =>
        [\A q \in calls : q.kind = "put" /\ q.seen = store.revision /\ PutItems(q) => store'.copies = store.copies]_vars
  <2>1. ASSUME HeadquartersInv, NEW q \in calls, q.kind = "put", q.seen = store.revision, PutItems(q)
        PROVE  store'.copies = store.copies
    <3>1. store'.copies = q.items
      BY <2>1, PutKeeps DEF HeadquartersInv
    <3>2. q.items = store.copies
      BY <2>1 DEF HeadquartersInv, Current
    <3> QED BY <3>1, <3>2
  <2> QED BY <2>1
<1> QED BY <1>1, HeadquartersInvariant, PTL DEF PutOfCurrentChangesNothing
=============================================================================
