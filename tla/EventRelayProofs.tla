-------------------------- MODULE EventRelayProofs --------------------------
(***************************************************************************)
(* Proofs about EventRelay for any players, events, sizes of events,       *)
(* requests, capacities and limits, and any number of disturbances.        *)
(*                                                                         *)
(* What the server has put on its way to a player and what the client has  *)
(* of it are two lists: Ahead and Arrived.  The lemmas about one player    *)
(* speak of arbitrary lists, so that every action's step only says which   *)
(* lists it makes of which.                                                *)
(***************************************************************************)
EXTENDS EventRelay, FiniteSetTheorems, SequenceTheorems, WellFoundedInduction, TLAPS

-----------------------------------------------------------------------------
(* Weights *)

\* The units of a finite set of finite weights are finite.
LEMMA FiniteWeight ==
  ASSUME NEW D, NEW n \in [D -> Nat], NEW S \in SUBSET D, IsFiniteSet(S)
  PROVE  IsFiniteSet(UNION {{x} \X (1..n[x]) : x \in S})
<1>1. PICK units : units = [x \in S |-> {x} \X (1..n[x])]
  OBVIOUS
<1>2. PICK image : image = {{x} \X (1..n[x]) : x \in S}
  OBVIOUS
<1>3. units \in Surjection(S, image)
  <2>1. units \in [S -> image]
    BY <1>1, <1>2
  <2>2. ASSUME NEW a \in image PROVE \E x \in S : units[x] = a
    BY <1>1, <1>2
  <2> QED BY <2>1, <2>2 DEF Surjection
<1>4. IsFiniteSet(image)
  BY <1>3, FS_Surjection
<1>5. ASSUME NEW x \in S PROVE IsFiniteSet({x} \X (1..n[x]))
  <2>1. PICK k \in Int : k = n[x]
    OBVIOUS
  <2>2. IsFiniteSet(1..k)
    BY FS_Interval
  <2>3. PICK U, V : U = {x} /\ V = 1..k /\ IsFiniteSet(U) /\ IsFiniteSet(V)
    BY <2>2, FS_Singleton
  <2>4. IsFiniteSet(U \X V)
    BY <2>3, FS_Product, Zenon
  <2> QED BY <2>1, <2>3, <2>4
<1>6. \A a \in image : IsFiniteSet(a)
  BY <1>2, <1>5
<1>7. IsFiniteSet(UNION image)
  BY <1>4, <1>6, FS_UNION
<1> QED BY <1>2, <1>7

\* Weights are numbers, add up over disjoint sets, and nothing weighs nothing.
LEMMA WeightIsNat ==
  ASSUME NEW D, NEW n \in [D -> Nat], NEW S \in SUBSET D, IsFiniteSet(S)
  PROVE  Weight(n, S) \in Nat
BY FiniteWeight, FS_CardinalityType DEF Weight

LEMMA WeightOfNone == \A n : Weight(n, {}) = 0
<1>1. TAKE n
<1>2. UNION {{x} \X (1..n[x]) : x \in {}} = {}
  OBVIOUS
<1> QED BY <1>2, FS_EmptySet DEF Weight

LEMMA WeightOfOne ==
  ASSUME NEW D, NEW n \in [D -> Nat], NEW x \in D
  PROVE  Weight(n, {x}) = n[x]
<1>1. PICK k : k = n[x] /\ k \in Nat
  OBVIOUS
<1>2. IsFiniteSet(1..k) /\ Cardinality(1..k) = k
  <2>1. PICK lo, hi : lo \in Int /\ hi \in Int /\ lo = 1 /\ hi = k
    BY <1>1
  <2>2. IsFiniteSet(lo..hi) /\ Cardinality(lo..hi) = IF lo > hi THEN 0 ELSE hi - lo + 1
    BY <2>1, FS_Interval
  <2> QED BY <1>1, <2>1, <2>2
<1>3. PICK U, V : /\ U = {x} /\ V = 1..k /\ IsFiniteSet(U) /\ IsFiniteSet(V)
                  /\ Cardinality(U) = 1 /\ Cardinality(V) = k
  BY <1>2, FS_Singleton
<1>4. Cardinality(U \X V) = Cardinality(U) * Cardinality(V)
  BY <1>3, FS_Product, Zenon
<1>5. UNION {{y} \X (1..n[y]) : y \in {x}} = U \X V
  BY <1>1, <1>3
<1>6. Cardinality(U \X V) = k
  BY <1>1, <1>3, <1>4
<1> QED BY <1>1, <1>5, <1>6 DEF Weight

LEMMA WeightOfBoth ==
  ASSUME NEW D, NEW n \in [D -> Nat], NEW S \in SUBSET D, NEW T \in SUBSET D,
         IsFiniteSet(S), IsFiniteSet(T), S \cap T = {}
  PROVE  Weight(n, S \union T) = Weight(n, S) + Weight(n, T)
<1>1. PICK A, B, C : /\ A = UNION {{x} \X (1..n[x]) : x \in S}
                     /\ B = UNION {{x} \X (1..n[x]) : x \in T}
                     /\ C = UNION {{x} \X (1..n[x]) : x \in S \union T}
  OBVIOUS
<1>2. IsFiniteSet(A) /\ IsFiniteSet(B)
  BY <1>1, FiniteWeight
<1>3. C = A \union B
  BY <1>1
<1>4. A \cap B = {}
  BY <1>1
<1>5. Cardinality(A \union B) = Cardinality(A) + Cardinality(B) - Cardinality(A \cap B)
  BY <1>2, FS_Union
<1>6. Cardinality(A \cap B) = 0 /\ Cardinality(A) \in Nat /\ Cardinality(B) \in Nat
  BY <1>2, <1>4, FS_EmptySet, FS_CardinalityType
<1>7. Cardinality(C) = Cardinality(A) + Cardinality(B)
  BY <1>3, <1>5, <1>6
<1> QED BY <1>1, <1>7 DEF Weight

LEMMA WeightOfOneMore ==
  \A D, n, S, x : n \in [D -> Nat] /\ S \in SUBSET D /\ x \in D /\ x \notin S /\ IsFiniteSet(S) =>
                   Weight(n, S \union {x}) = Weight(n, S) + n[x]
<1> SUFFICES ASSUME NEW D, NEW n \in [D -> Nat], NEW S \in SUBSET D, IsFiniteSet(S), NEW x \in D, x \notin S
             PROVE  Weight(n, S \union {x}) = Weight(n, S) + n[x]
  OBVIOUS
<1>0. IsFiniteSet({x}) /\ {x} \in SUBSET D /\ S \cap {x} = {}
  <2>1. IsFiniteSet({x})
    BY FS_Singleton
  <2> QED BY <2>1
<1>1. PICK T : T = {x} /\ IsFiniteSet(T) /\ T \in SUBSET D /\ S \cap T = {}
  BY <1>0
<1>2. Weight(n, S \union T) = Weight(n, S) + Weight(n, T)
  BY <1>1, WeightOfBoth
<1>3. Weight(n, T) = n[x]
  BY <1>1, WeightOfOne
<1> QED BY <1>1, <1>2, <1>3

\* What is taken out of a set weighs the difference.
LEMMA WeightOfRest ==
  ASSUME NEW D, NEW n \in [D -> Nat], NEW S \in SUBSET D, NEW T \in SUBSET S, IsFiniteSet(S)
  PROVE  Weight(n, S) - Weight(n, S \ T) = Weight(n, T)
<1>1. IsFiniteSet(T) /\ IsFiniteSet(S \ T)
  BY FS_Subset, FS_Difference
<1>2. PICK R : R = S \ T /\ IsFiniteSet(R) /\ R \in SUBSET D /\ T \in SUBSET D /\ R \cap T = {} /\ R \union T = S
  BY <1>1
<1>3. Weight(n, R \union T) = Weight(n, R) + Weight(n, T)
  BY <1>1, <1>2, WeightOfBoth
<1>4. IsFiniteSet(T) /\ T \in SUBSET D
  BY <1>1, <1>2
<1>5. Weight(n, R) \in Nat
  BY <1>2, WeightIsNat
<1>6. Weight(n, T) \in Nat
  BY <1>4, WeightIsNat
<1>7. Weight(n, S \ T) = Weight(n, R) /\ Weight(n, R \union T) = Weight(n, S)
  BY <1>2, Zenon
<1> QED BY <1>3, <1>5, <1>6, <1>7

-----------------------------------------------------------------------------
(* Lists built by counting items *)

\* The items of the first entries of a list, one entry at a time.
LEMMA OneMoreItem ==
  \A L, n, i : L \in Nat /\ n \in [1..L -> Nat] /\ i \in 1..L => Items(n, i) = Items(n, i - 1) + n[i]
<1>1. ASSUME NEW L, NEW n, NEW i, L \in Nat, n \in [1..L -> Nat], i \in 1..L
      PROVE  Items(n, i) = Items(n, i - 1) + n[i]
  <2>1. PICK D, S : D = 1..L /\ S = 1..(i - 1)
    OBVIOUS
  <2>2. S \union {i} = 1..i /\ S \in SUBSET D /\ i \in D /\ i \notin S /\ n \in [D -> Nat]
    BY <1>1, <2>1
  <2>3. IsFiniteSet(S)
    <3>1. PICK k \in Int : k = i - 1
      BY <1>1
    <3>2. IsFiniteSet(1..k)
      BY FS_Interval
    <3> QED BY <2>1, <3>1, <3>2
  <2>4. Weight(n, S \union {i}) = Weight(n, S) + n[i]
    BY <2>2, <2>3, WeightOfOneMore
  <2>5. Items(n, i) = Weight(n, S \union {i}) /\ Items(n, i - 1) = Weight(n, S)
    BY <2>1, <2>2, Zenon DEF Items
  <2> QED BY <2>4, <2>5, Zenon
<1> QED BY <1>1, Zenon

LEMMA ItemsAddUp ==
  ASSUME NEW L \in Nat, NEW n \in [1..L -> Nat]
  PROVE  /\ \A i \in 0..L : Items(n, i) \in Nat
         /\ Items(n, 0) = 0
         /\ \A i \in 1..L : Items(n, i) = Items(n, i - 1) + n[i]
<1>1. ASSUME NEW i \in 0..L PROVE IsFiniteSet(1..i) /\ 1..i \in SUBSET (1..L)
  <2>1. PICK k \in Int : k = i
    OBVIOUS
  <2>2. IsFiniteSet(1..k)
    BY FS_Interval
  <2> QED BY <2>1, <2>2
<1>2. ASSUME NEW i \in 0..L PROVE Items(n, i) \in Nat
  BY <1>1, WeightIsNat DEF Items
<1>3. Items(n, 0) = 0
  <2>1. 1..0 = {}
    OBVIOUS
  <2> QED BY <2>1, WeightOfNone DEF Items
<1>4. ASSUME NEW i \in 1..L PROVE Items(n, i) = Items(n, i - 1) + n[i]
  BY OneMoreItem
<1> QED BY <1>2, <1>3, <1>4

\* A set of naturals has a least element.
LEMMA LeastNatural == ASSUME NEW T \in SUBSET Nat, T # {} PROVE \E x \in T : \A y \in T : x <= y
<1>1. IsWellFoundedOn(OpToRel(<, Nat), Nat)
  BY NatLessThanWellFounded
<1>2. \A y, x \in Nat : y < x => <<y, x>> \in OpToRel(<, Nat)
  BY DEF OpToRel
<1>3. PICK R : R = OpToRel(<, Nat)
  OBVIOUS
<1>4. IsWellFoundedOn(R, Nat)
  BY <1>1, <1>3
<1>5. PICK x \in T : \A y \in T : ~(<<y, x>> \in R)
  BY <1>4, WFMin
<1>6. \A y \in T : ~(y < x)
  BY <1>2, <1>3, <1>5
<1> QED BY <1>5, <1>6

\* More entries have more items.
LEMMA ItemsGrow ==
  ASSUME NEW L \in Nat, NEW n \in [1..L -> Nat]
  PROVE  \A i, j \in 0..L : i <= j => Items(n, i) <= Items(n, j)
<1>1. SUFFICES ASSUME NEW i \in 0..L, NEW j \in 0..L, i <= j, ~(Items(n, i) <= Items(n, j))
               PROVE  FALSE
  OBVIOUS
<1>2. PICK T : T = {k \in i..L : ~(Items(n, i) <= Items(n, k))}
  OBVIOUS
<1>8. j \in i..L /\ i..L \in SUBSET Nat
  BY <1>1
<1>9. T # {} /\ T \in SUBSET Nat
  BY <1>1, <1>2, <1>8
<1>3. PICK k \in T : \A y \in T : k <= y
  BY <1>9, LeastNatural
<1>4. k \in i..L /\ ~(Items(n, i) <= Items(n, k)) /\ k # i
  BY <1>2, <1>3, ItemsAddUp
<1>5. k - 1 \in i..L /\ k - 1 \notin T
  BY <1>3, <1>4
<1>6. Items(n, i) <= Items(n, k - 1)
  BY <1>2, <1>5
<1>10. k \in 1..L /\ k - 1 \in 0..L
  BY <1>4, <1>5
<1>7. Items(n, k) = Items(n, k - 1) + n[k] /\ n[k] \in Nat /\ Items(n, k - 1) \in Nat /\ Items(n, i) \in Nat
  BY <1>10, ItemsAddUp
<1> QED BY <1>4, <1>6, <1>7

\* Every item belongs to an entry, later items to later entries.
LEMMA EntryFits ==
  ASSUME NEW L \in Nat, NEW n \in [1..L -> Nat], NEW k \in 1..Items(n, L)
  PROVE  /\ EntryOf(n, k) \in 1..L
         /\ Items(n, EntryOf(n, k) - 1) < k /\ k <= Items(n, EntryOf(n, k))
<1>1. PICK T : T = {i \in 0..L : k <= Items(n, i)}
  OBVIOUS
<1>2. T \in SUBSET Nat /\ T # {}
  BY <1>1
<1>3. PICK i \in T : \A y \in T : i <= y
  BY <1>2, LeastNatural
<1>4. k \in Nat /\ i \in 0..L /\ k <= Items(n, i)
  BY <1>1, <1>3, ItemsAddUp
<1>5. i # 0
  BY <1>4, ItemsAddUp
<1>6. i - 1 \in 0..L /\ i - 1 \notin T
  BY <1>3, <1>4, <1>5
<1>7. Items(n, i - 1) < k
  <2>1. ~(k <= Items(n, i - 1))
    BY <1>1, <1>6
  <2>2. Items(n, i - 1) \in Nat
    BY <1>6, ItemsAddUp
  <2> QED BY <1>4, <2>1, <2>2
<1>8. \E e \in DOMAIN n : Items(n, e - 1) < k /\ k <= Items(n, e)
  BY <1>4, <1>5, <1>7
<1>9. EntryOf(n, k) \in DOMAIN n /\ Items(n, EntryOf(n, k) - 1) < k /\ k <= Items(n, EntryOf(n, k))
  BY <1>8 DEF EntryOf
<1> QED BY <1>9

LEMMA EntryInOrder ==
  ASSUME NEW L \in Nat, NEW n \in [1..L -> Nat], NEW k \in 1..Items(n, L), NEW m \in 1..Items(n, L),
         k <= m
  PROVE  EntryOf(n, k) <= EntryOf(n, m)
<1>1. PICK i, j : i = EntryOf(n, k) /\ j = EntryOf(n, m)
  OBVIOUS
<1>2. /\ i \in 1..L /\ Items(n, i - 1) < k /\ k <= Items(n, i)
      /\ j \in 1..L /\ Items(n, j - 1) < m /\ m <= Items(n, j)
  BY <1>1, EntryFits
<1>3. SUFFICES ASSUME j < i PROVE FALSE
  BY <1>1, <1>2
<1>4. j <= i - 1 /\ i - 1 \in 0..L /\ j \in 0..L
  BY <1>2, <1>3
<1>5. Items(n, j) <= Items(n, i - 1)
  BY <1>4, ItemsGrow
<1>6. Items(n, j) \in Nat /\ Items(n, i - 1) \in Nat /\ k \in Nat /\ m \in Nat
  BY <1>4, ItemsAddUp
<1> QED BY <1>2, <1>5, <1>6

\* The entry of an item that lies within entry i is i.
LEMMA EntryIsUnique ==
  ASSUME NEW L \in Nat, NEW n \in [1..L -> Nat], NEW i \in 1..L, NEW d \in 1..n[i]
  PROVE  /\ Items(n, i - 1) + d \in 1..Items(n, L)
         /\ EntryOf(n, Items(n, i - 1) + d) = i
<1>1. PICK k : k = Items(n, i - 1) + d
  OBVIOUS
<1>2. i - 1 \in 0..L /\ i \in 0..L /\ L \in 0..L /\ i <= L
  OBVIOUS
<1>3. /\ Items(n, i - 1) \in Nat /\ Items(n, i) \in Nat /\ Items(n, L) \in Nat
      /\ Items(n, i) = Items(n, i - 1) + n[i] /\ Items(n, i) <= Items(n, L) /\ n[i] \in Nat
  BY <1>2, ItemsAddUp, ItemsGrow
<1>4. k \in 1..Items(n, L) /\ Items(n, i - 1) < k /\ k <= Items(n, i)
  BY <1>1, <1>3
<1>5. PICK j : j = EntryOf(n, k)
  OBVIOUS
<1>6. j \in 1..L /\ Items(n, j - 1) < k /\ k <= Items(n, j)
  BY <1>4, <1>5, EntryFits
<1>7. j - 1 \in 0..L /\ j \in 0..L
  BY <1>6
<1>8. Items(n, j - 1) \in Nat /\ Items(n, j) \in Nat
  BY <1>7, ItemsAddUp
<1>9. ~(j < i)
  <2>1. SUFFICES ASSUME j <= i - 1 PROVE FALSE
    BY <1>6
  <2>2. Items(n, j) <= Items(n, i - 1)
    BY <1>2, <1>7, <2>1, ItemsGrow
  <2> QED BY <1>3, <1>4, <1>6, <1>8, <2>2
<1>10. ~(i < j)
  <2>1. SUFFICES ASSUME i <= j - 1 PROVE FALSE
    BY <1>6
  <2>2. Items(n, i) <= Items(n, j - 1)
    BY <1>2, <1>7, <2>1, ItemsGrow
  <2> QED BY <1>3, <1>4, <1>6, <1>8, <2>2
<1>11. i = j
  BY <1>6, <1>9, <1>10
<1> QED BY <1>1, <1>4, <1>5, <1>11

LEMMA EntryOfItem ==
  \A L, n, i, d : L \in Nat /\ n \in [1..L -> Nat] /\ i \in 1..L /\ d \in 1..n[i] =>
      /\ Items(n, i - 1) + d \in 1..Items(n, L)
      /\ EntryOf(n, Items(n, i - 1) + d) = i
BY EntryIsUnique

-----------------------------------------------------------------------------
(* Entries of lists and their order *)

LEMMA PairsAre ==
  \A s, x, y : <<x, y>> \in Pairs(s) <=> \E i, j \in DOMAIN s : i < j /\ x = s[i] /\ y = s[j]
BY DEF Pairs, ToSet

LEMMA PairsArePairs ==
  \A s, p : p \in Pairs(s) => p = <<p[1], p[2]>> /\ p[1] \in ToSet(s) /\ p[2] \in ToSet(s)
BY DEF Pairs

LEMMA EntriesAre == \A s, x : x \in ToSet(s) <=> \E i \in DOMAIN s : x = s[i]
BY DEF ToSet

LEMMA AList == \A S, n, s : n \in Nat /\ s \in [1..n -> S] => s \in Seq(S)
BY SeqDef

LEMMA EmptyList == ToSet(<<>>) = {} /\ Pairs(<<>>) = {}
BY DEF ToSet, Pairs

LEMMA OneEntry == \A x : ToSet(<<x>>) = {x} /\ Pairs(<<x>>) = {}
<1>1. TAKE x
<1>2. DOMAIN <<x>> = {1} /\ <<x>>[1] = x
  OBVIOUS
<1>3. PICK s : s = <<x>> /\ DOMAIN s = {1} /\ s[1] = x
  BY <1>2
<1>4. ToSet(s) = {x} /\ Pairs(s) = {}
  BY <1>3 DEF ToSet, Pairs
<1> QED BY <1>3, <1>4

LEMMA EntriesOf ==
  \A s, n : DOMAIN s = 1..n => \A x : x \in ToSet(s) <=> \E i : i \in 1..n /\ x = s[i]
<1>1. ASSUME NEW s, NEW n, DOMAIN s = 1..n, NEW x
      PROVE  x \in ToSet(s) <=> \E i : i \in 1..n /\ x = s[i]
  <2>1. x \in ToSet(s) <=> \E i : i \in DOMAIN s /\ x = s[i]
    BY EntriesAre
  <2> QED BY <1>1, <2>1, Zenon
<1> QED BY <1>1, Zenon

LEMMA Concat ==
  ASSUME NEW S, NEW s \in Seq(S), NEW t \in Seq(S)
  PROVE  /\ s \o t \in Seq(S)
         /\ ToSet(s \o t) = ToSet(s) \union ToSet(t)
         /\ Pairs(s \o t) = Pairs(s) \union Pairs(t) \union (ToSet(s) \X ToSet(t))
<1>1. PICK c, m, n : c = s \o t /\ m = Len(s) /\ n = Len(t)
  OBVIOUS
<1>2. /\ c \in Seq(S) /\ Len(c) = m + n /\ m \in Nat /\ n \in Nat
      /\ \A i \in 1..m + n : c[i] = IF i <= m THEN s[i] ELSE t[i - m]
  BY <1>1, ConcatProperties, LenProperties
<1>3. DOMAIN c = 1..m + n /\ DOMAIN s = 1..m /\ DOMAIN t = 1..n
  BY <1>1, <1>2, LenProperties
<1>10. \A x : x \in ToSet(c) <=> \E i : i \in 1..m + n /\ x = c[i]
  <2>1. DOMAIN c = 1..m + n
    BY <1>3
  <2> QED BY <2>1, EntriesOf
<1>11. \A x, y : <<x, y>> \in Pairs(c) <=>
            \E i, j : i \in 1..m + n /\ j \in 1..m + n /\ i < j /\ x = c[i] /\ y = c[j]
  <2>1. DOMAIN c = 1..m + n
    BY <1>3
  <2>2. ASSUME NEW x, NEW y
        PROVE  <<x, y>> \in Pairs(c) <=> \E i, j : i \in 1..m + n /\ j \in 1..m + n /\ i < j /\ x = c[i] /\ y = c[j]
    <3>1. <<x, y>> \in Pairs(c) <=> \E i, j : i \in DOMAIN c /\ j \in DOMAIN c /\ i < j /\ x = c[i] /\ y = c[j]
      BY PairsAre
    <3> QED BY <2>1, <3>1, Zenon
  <2> QED BY <2>2
<1>12. /\ \A x : x \in ToSet(s) <=> \E i : i \in 1..m /\ x = s[i]
       /\ \A x, y : <<x, y>> \in Pairs(s) <=> \E i, j : i \in 1..m /\ j \in 1..m /\ i < j /\ x = s[i] /\ y = s[j]
  <2>1. DOMAIN s = 1..m
    BY <1>3
  <2>2. \A x : x \in ToSet(s) <=> \E i : i \in 1..m /\ x = s[i]
    BY <2>1, EntriesOf
  <2>3. \A x, y : <<x, y>> \in Pairs(s) <=> \E i, j : i \in 1..m /\ j \in 1..m /\ i < j /\ x = s[i] /\ y = s[j]
    <3>1. DOMAIN s = 1..m
      BY <1>3
    <3>2. ASSUME NEW x, NEW y
          PROVE  <<x, y>> \in Pairs(s) <=> \E i, j : i \in 1..m /\ j \in 1..m /\ i < j /\ x = s[i] /\ y = s[j]
      <4>1. <<x, y>> \in Pairs(s) <=> \E i, j : i \in DOMAIN s /\ j \in DOMAIN s /\ i < j /\ x = s[i] /\ y = s[j]
        BY PairsAre
      <4> QED BY <3>1, <4>1, Zenon
    <3> QED BY <3>2
  <2> QED BY <2>2, <2>3
<1>13. /\ \A x : x \in ToSet(t) <=> \E i : i \in 1..n /\ x = t[i]
       /\ \A x, y : <<x, y>> \in Pairs(t) <=> \E i, j : i \in 1..n /\ j \in 1..n /\ i < j /\ x = t[i] /\ y = t[j]
  <2>1. DOMAIN t = 1..n
    BY <1>3
  <2>2. \A x : x \in ToSet(t) <=> \E i : i \in 1..n /\ x = t[i]
    BY <2>1, EntriesOf
  <2>3. \A x, y : <<x, y>> \in Pairs(t) <=> \E i, j : i \in 1..n /\ j \in 1..n /\ i < j /\ x = t[i] /\ y = t[j]
    <3>1. DOMAIN t = 1..n
      BY <1>3
    <3>2. ASSUME NEW x, NEW y
          PROVE  <<x, y>> \in Pairs(t) <=> \E i, j : i \in 1..n /\ j \in 1..n /\ i < j /\ x = t[i] /\ y = t[j]
      <4>1. <<x, y>> \in Pairs(t) <=> \E i, j : i \in DOMAIN t /\ j \in DOMAIN t /\ i < j /\ x = t[i] /\ y = t[j]
        BY PairsAre
      <4> QED BY <3>1, <4>1, Zenon
    <3> QED BY <3>2
  <2> QED BY <2>2, <2>3
<1>4. (\A i \in 1..m : i \in 1..m + n /\ c[i] = s[i]) /\ (\A i \in 1..n : i + m \in 1..m + n /\ c[i + m] = t[i])
  <2>1. ASSUME NEW i \in 1..m PROVE i \in 1..m + n /\ c[i] = s[i]
    BY <1>2
  <2>2. ASSUME NEW i \in 1..n PROVE i + m \in 1..m + n /\ c[i + m] = t[i]
    <3>1. i + m \in 1..m + n /\ ~(i + m <= m) /\ (i + m) - m = i
      BY <1>2
    <3>2. c[i + m] = t[(i + m) - m]
      BY <1>2, <3>1
    <3> QED BY <3>1, <3>2
  <2> QED BY <2>1, <2>2
<1>5. ASSUME NEW i \in 1..m + n
      PROVE  (i \in 1..m /\ c[i] = s[i]) \/ (i - m \in 1..n /\ c[i] = t[i - m])
  BY <1>2
<1>6. ToSet(c) = ToSet(s) \union ToSet(t)
  <2>1. ASSUME NEW x \in ToSet(c) PROVE x \in ToSet(s) \union ToSet(t)
    BY <1>5, <1>10, <1>12, <1>13
  <2>2. ASSUME NEW x \in ToSet(s) \union ToSet(t) PROVE x \in ToSet(c)
    BY <1>4, <1>10, <1>12, <1>13
  <2> QED BY <2>1, <2>2
<1>7. ASSUME NEW x, NEW y, <<x, y>> \in Pairs(c)
      PROVE  <<x, y>> \in Pairs(s) \/ <<x, y>> \in Pairs(t) \/ (x \in ToSet(s) /\ y \in ToSet(t))
  <2>1. PICK i, j : i \in 1..m + n /\ j \in 1..m + n /\ i < j /\ x = c[i] /\ y = c[j]
    BY <1>7, <1>11
  <2>2. CASE j \in 1..m
    <3>1. i \in 1..m /\ c[i] = s[i] /\ c[j] = s[j]
      BY <1>2, <1>4, <2>1, <2>2
    <3> QED BY <1>12, <2>1, <2>2, <3>1
  <2>3. CASE j - m \in 1..n /\ i \in 1..m
    <3>1. c[i] = s[i] /\ c[j] = t[j - m]
      BY <1>2, <2>1, <2>3
    <3> QED BY <1>12, <1>13, <2>1, <2>3, <3>1
  <2>4. CASE j - m \in 1..n /\ i - m \in 1..n
    <3>1. c[i] = t[i - m] /\ c[j] = t[j - m] /\ i - m < j - m
      BY <1>2, <2>1, <2>4
    <3> QED BY <1>13, <2>1, <2>4, <3>1
  <2> QED BY <1>2, <2>1, <2>2, <2>3, <2>4
<1>8. ASSUME NEW x, NEW y, <<x, y>> \in Pairs(s) \/ <<x, y>> \in Pairs(t) \/ (x \in ToSet(s) /\ y \in ToSet(t))
      PROVE  <<x, y>> \in Pairs(c)
  <2>1. CASE <<x, y>> \in Pairs(s)
    <3>1. PICK i, j : i \in 1..m /\ j \in 1..m /\ i < j /\ x = s[i] /\ y = s[j]
      BY <1>12, <2>1
    <3> QED BY <1>4, <1>11, <3>1
  <2>2. CASE <<x, y>> \in Pairs(t)
    <3>1. PICK i, j : i \in 1..n /\ j \in 1..n /\ i < j /\ x = t[i] /\ y = t[j]
      BY <1>13, <2>2
    <3>2. i + m < j + m /\ i + m \in 1..m + n /\ j + m \in 1..m + n /\ c[i + m] = x /\ c[j + m] = y
      BY <1>2, <1>4, <3>1
    <3> QED BY <1>11, <3>2
  <2>3. CASE x \in ToSet(s) /\ y \in ToSet(t)
    <3>1. PICK i, j : i \in 1..m /\ j \in 1..n /\ x = s[i] /\ y = t[j]
      BY <1>12, <1>13, <2>3
    <3>2. i < j + m /\ i \in 1..m + n /\ j + m \in 1..m + n /\ c[i] = x /\ c[j + m] = y
      BY <1>2, <1>4, <3>1
    <3> QED BY <1>11, <3>2
  <2> QED BY <1>8, <2>1, <2>2, <2>3
<1>9. Pairs(c) = Pairs(s) \union Pairs(t) \union (ToSet(s) \X ToSet(t))
  <2>1. ASSUME NEW p \in Pairs(c) PROVE p \in Pairs(s) \union Pairs(t) \union (ToSet(s) \X ToSet(t))
    <3>1. p = <<p[1], p[2]>>
      BY PairsArePairs
    <3>2. PICK x, y : p = <<x, y>>
      BY <3>1
    <3> QED BY <1>7, <2>1, <3>2
  <2>2. ASSUME NEW p \in Pairs(s) \union Pairs(t) \union (ToSet(s) \X ToSet(t)) PROVE p \in Pairs(c)
    <3>1. p = <<p[1], p[2]>>
      BY PairsArePairs
    <3>2. PICK x, y : p = <<x, y>>
      BY <3>1
    <3> QED BY <1>8, <2>2, <3>2
  <2> QED BY <2>1, <2>2
<1> QED BY <1>1, <1>2, <1>6, <1>9

\* A list is its beginning and the rest.
LEMMA CutInTwo ==
  ASSUME NEW S, NEW s \in Seq(S), NEW k \in 0..Len(s)
  PROVE  /\ SubSeq(s, 1, k) \in Seq(S) /\ Len(SubSeq(s, 1, k)) = k
         /\ SubSeq(s, k + 1, Len(s)) \in Seq(S) /\ Len(SubSeq(s, k + 1, Len(s))) = Len(s) - k
         /\ SubSeq(s, 1, k) \o SubSeq(s, k + 1, Len(s)) = s
<1>1. PICK n : n = Len(s) /\ n \in Nat /\ DOMAIN s = 1..n /\ s \in [1..n -> S]
  BY LenProperties
<1>2. k \in Int /\ n \in Int /\ 1 \in Int /\ k + 1 \in Int
  BY <1>1
<1>3. PICK f : f = SubSeq(s, 1, k)
  OBVIOUS
<1>4. PICK g : g = SubSeq(s, k + 1, n)
  OBVIOUS
<1>5. /\ f \in Seq(S) /\ Len(f) = k /\ \A i \in 1..k : f[i] = s[i]
  <2>1. \A i \in 1..k : s[i] \in S
    BY <1>1
  <2>2. f \in Seq(S) /\ Len(f) = (IF 1 <= k THEN k - 1 + 1 ELSE 0) /\ \A i \in 1..k - 1 + 1 : f[i] = s[1 + i - 1]
    BY <1>2, <1>3, <2>1, SubSeqProperties
  <2> QED BY <1>2, <2>2
<1>6. /\ g \in Seq(S) /\ Len(g) = n - k /\ \A i \in 1..n - k : g[i] = s[k + i]
  <2>1. \A i \in k + 1..n : s[i] \in S
    BY <1>1
  <2>2. PICK lo : lo = k + 1 /\ lo \in Int
    BY <1>2
  <2>3. /\ SubSeq(s, lo, n) \in Seq(S) /\ Len(SubSeq(s, lo, n)) = (IF lo <= n THEN n - lo + 1 ELSE 0)
        /\ \A i \in 1..n - lo + 1 : SubSeq(s, lo, n)[i] = s[lo + i - 1]
    BY <1>2, <2>1, <2>2, SubSeqProperties
  <2>4. g = SubSeq(s, lo, n)
    BY <1>4, <2>2
  <2>5. g \in Seq(S) /\ Len(g) = (IF lo <= n THEN n - lo + 1 ELSE 0) /\ \A i \in 1..n - lo + 1 : g[i] = s[lo + i - 1]
    BY <2>3, <2>4
  <2>6. n - lo + 1 = n - k /\ (IF lo <= n THEN n - lo + 1 ELSE 0) = n - k
    <3>1. k \in 0..n /\ n \in Int /\ lo = k + 1
      BY <1>1, <2>2
    <3> QED BY <3>1
  <2>7. \A i \in 1..n - k : lo + i - 1 = k + i
    BY <1>1, <2>2
  <2> QED BY <2>5, <2>6, <2>7
<1>7. /\ f \o g \in Seq(S) /\ Len(f \o g) = k + (n - k)
      /\ \A i \in 1..k + (n - k) : (f \o g)[i] = IF i <= k THEN f[i] ELSE g[i - k]
  <2>1. f \in Seq(S) /\ g \in Seq(S) /\ Len(f) = k /\ Len(g) = n - k
    BY <1>5, <1>6
  <2>2. /\ f \o g \in Seq(S) /\ Len(f \o g) = Len(f) + Len(g)
        /\ \A i \in 1..Len(f) + Len(g) : (f \o g)[i] = IF i <= Len(f) THEN f[i] ELSE g[i - Len(f)]
    BY <2>1, ConcatProperties
  <2> QED BY <2>1, <2>2
<1>8. Len(f \o g) = n /\ \A i \in 1..n : (f \o g)[i] = s[i]
  <2>1. k + (n - k) = n
    BY <1>1
  <2>2. ASSUME NEW i \in 1..n PROVE (f \o g)[i] = s[i]
    <3>1. CASE i <= k
      BY <1>1, <1>5, <1>7, <2>1, <3>1
    <3>2. CASE ~(i <= k)
      <4>1. i - k \in 1..n - k /\ k + (i - k) = i
        BY <1>1, <3>2
      <4>2. g[i - k] = s[i]
        BY <1>6, <4>1
      <4> QED BY <1>7, <2>1, <3>2, <4>2
    <3> QED BY <3>1, <3>2
  <2> QED BY <1>7, <2>1, <2>2
<1>9. f \o g = s
  BY <1>1, <1>7, <1>8, SeqEqual
<1> QED BY <1>1, <1>3, <1>4, <1>5, <1>6, <1>9

-----------------------------------------------------------------------------
(* Fragments *)

\* The order of the fragments of a list of events: by event, then by index.
FragmentOrder(es) ==
    {p \in Fragment \X Fragment :
        \/ <<p[1].event, p[2].event>> \in Pairs(es)
        \/ p[1].event = p[2].event /\ p[1].index < p[2].index}

FragmentsOf(es) == {f \in Fragment : f.event \in ToSet(es) /\ f.index < Parts[f.event]}

LEMMA SomeParts == \A e \in Event : Parts[e] \in Nat /\ Parts[e] >= 1
BY RelayAssumption

LEMMA AFragment ==
  \A e, i : e \in Event /\ i \in Nat =>
      /\ [event |-> e, index |-> i] \in Fragment
      /\ [event |-> e, index |-> i].event = e /\ [event |-> e, index |-> i].index = i
BY DEF Fragment

LEMMA FragmentFields ==
  \A f \in Fragment : f.event \in Event /\ f.index \in Nat /\ f = [event |-> f.event, index |-> f.index]
BY DEF Fragment

LEMMA FragmentsInOrder ==
  \A es, f, g : <<f, g>> \in FragmentOrder(es) <=>
      /\ f \in Fragment /\ g \in Fragment
      /\ <<f.event, g.event>> \in Pairs(es) \/ (f.event = g.event /\ f.index < g.index)
BY DEF FragmentOrder

\* Fragment k of a list belongs to the event of the entry that item k belongs to.
LEMMA FragmentAt ==
  ASSUME NEW es \in Seq(Event), NEW n, n = [i \in DOMAIN es |-> Parts[es[i]]]
  PROVE  /\ n \in [1..Len(es) -> Nat] /\ Len(es) \in Nat /\ Items(n, Len(es)) \in Nat
         /\ ChunksOf(es) \in Seq(Fragment)
         /\ DOMAIN ChunksOf(es) = 1..Items(n, Len(es))
         /\ \A k \in 1..Items(n, Len(es)) :
              /\ EntryOf(n, k) \in 1..Len(es) /\ Items(n, EntryOf(n, k) - 1) \in Nat
              /\ Items(n, EntryOf(n, k) - 1) < k
              /\ k <= Items(n, EntryOf(n, k) - 1) + Parts[es[EntryOf(n, k)]]
              /\ es[EntryOf(n, k)] \in Event
              /\ ChunksOf(es)[k] \in Fragment
              /\ ChunksOf(es)[k].event = es[EntryOf(n, k)]
              /\ ChunksOf(es)[k].index = k - Items(n, EntryOf(n, k) - 1) - 1
<1>1. PICK L : L = Len(es) /\ L \in Nat /\ DOMAIN es = 1..L /\ es \in [1..L -> Event]
  BY LenProperties
<1>2. n \in [1..L -> Nat] /\ \A i \in 1..L : n[i] = Parts[es[i]]
  <2>1. \A i \in 1..L : es[i] \in Event /\ Parts[es[i]] \in Nat
    BY <1>1, SomeParts
  <2> QED BY <1>1, <2>1
<1>3. PICK N : N = Items(n, L) /\ N \in Nat
  <2>1. L \in 0..L
    BY <1>1
  <2> QED BY <1>1, <1>2, <2>1, ItemsAddUp
<1>4. PICK c : /\ c = ChunksOf(es) 
               /\ c = [k \in 1..N |-> [event |-> es[EntryOf(n, k)],
                                       index |-> k - Items(n, EntryOf(n, k) - 1) - 1]]
  BY <1>1, <1>3, Zenon DEF ChunksOf
<1>5. ASSUME NEW k \in 1..N, NEW e, e = EntryOf(n, k)
      PROVE  /\ e \in 1..L /\ Items(n, e - 1) \in Nat /\ Items(n, e - 1) < k
             /\ k <= Items(n, e - 1) + Parts[es[e]]
             /\ es[e] \in Event /\ k - Items(n, e - 1) - 1 \in Nat
  <2>1. e \in 1..L /\ Items(n, e - 1) < k /\ k <= Items(n, e)
    BY <1>1, <1>2, <1>3, <1>5, EntryFits
  <2>2. e - 1 \in 0..L /\ n[e] = Parts[es[e]]
    BY <1>1, <1>2, <2>1
  <2>3. Items(n, e - 1) \in Nat /\ Items(n, e) = Items(n, e - 1) + n[e]
    BY <1>1, <1>2, <2>1, <2>2, ItemsAddUp
  <2>4. es[e] \in Event
    BY <1>1, <2>1
  <2>5. k \in Nat
    BY <1>3
  <2> QED BY <2>1, <2>2, <2>3, <2>4, <2>5
<1>6. ASSUME NEW k \in 1..N
      PROVE  /\ c[k] \in Fragment /\ c[k].event = es[EntryOf(n, k)]
             /\ c[k].index = k - Items(n, EntryOf(n, k) - 1) - 1
  <2>1. PICK e, i : e = es[EntryOf(n, k)] /\ i = k - Items(n, EntryOf(n, k) - 1) - 1
    OBVIOUS
  <2>2. e \in Event /\ i \in Nat
    BY <1>5, <2>1
  <2>3. c[k] = [event |-> e, index |-> i]
    BY <1>4, <2>1
  <2> QED BY <2>1, <2>2, <2>3, AFragment
<1>7. c \in Seq(Fragment) /\ DOMAIN c = 1..N
  <2>1. DOMAIN c = 1..N
    BY <1>4
  <2>2. c \in [1..N -> Fragment]
    BY <1>4, <1>6
  <2> QED BY <1>3, <2>1, <2>2, AList
<1>8. \A k \in 1..N : /\ EntryOf(n, k) \in 1..L /\ Items(n, EntryOf(n, k) - 1) \in Nat
                      /\ Items(n, EntryOf(n, k) - 1) < k
                      /\ k <= Items(n, EntryOf(n, k) - 1) + Parts[es[EntryOf(n, k)]]
                      /\ es[EntryOf(n, k)] \in Event
  BY <1>5
<1> QED BY <1>1, <1>2, <1>3, <1>4, <1>6, <1>7, <1>8, Zenon

\* A list's fragments are all the fragments of its events, in their order.
LEMMA FragmentsOfList ==
  ASSUME NEW es \in Seq(Event)
  PROVE  /\ ChunksOf(es) \in Seq(Fragment)
         /\ ToSet(ChunksOf(es)) = FragmentsOf(es)
         /\ Pairs(ChunksOf(es)) \subseteq FragmentOrder(es)
<1>1. PICK n : n = [i \in DOMAIN es |-> Parts[es[i]]]
  OBVIOUS
<1>2. PICK c, L, N : c = ChunksOf(es) /\ L = Len(es) /\ N = Items(n, L)
  OBVIOUS
<1>3. L \in Nat /\ n \in [1..L -> Nat] /\ N \in Nat /\ c \in Seq(Fragment) /\ DOMAIN c = 1..N
  <2>1. /\ n \in [1..Len(es) -> Nat] /\ Len(es) \in Nat /\ Items(n, Len(es)) \in Nat
        /\ ChunksOf(es) \in Seq(Fragment) /\ DOMAIN ChunksOf(es) = 1..Items(n, Len(es))
    BY <1>1, FragmentAt
  <2> QED BY <1>2, <2>1, Zenon
<1>4. ASSUME NEW k \in 1..N
      PROVE  /\ EntryOf(n, k) \in 1..L /\ Items(n, EntryOf(n, k) - 1) \in Nat
             /\ Items(n, EntryOf(n, k) - 1) < k
             /\ k <= Items(n, EntryOf(n, k) - 1) + Parts[es[EntryOf(n, k)]]
             /\ es[EntryOf(n, k)] \in Event
             /\ c[k] \in Fragment
             /\ c[k].event = es[EntryOf(n, k)]
             /\ c[k].index = k - Items(n, EntryOf(n, k) - 1) - 1
  <2>1. k \in 1..Items(n, Len(es))
    BY <1>2
  <2>2. /\ EntryOf(n, k) \in 1..Len(es) /\ Items(n, EntryOf(n, k) - 1) \in Nat
        /\ Items(n, EntryOf(n, k) - 1) < k
        /\ k <= Items(n, EntryOf(n, k) - 1) + Parts[es[EntryOf(n, k)]]
        /\ es[EntryOf(n, k)] \in Event
        /\ ChunksOf(es)[k] \in Fragment
        /\ ChunksOf(es)[k].event = es[EntryOf(n, k)]
        /\ ChunksOf(es)[k].index = k - Items(n, EntryOf(n, k) - 1) - 1
    BY <1>1, <2>1, FragmentAt
  <2> QED BY <1>2, <2>2
<1>5. DOMAIN es = 1..L /\ DOMAIN n = 1..L /\ \A i \in 1..L : es[i] \in Event /\ n[i] = Parts[es[i]]
  BY <1>1, <1>2, LenProperties
<1>6. ASSUME NEW f \in ToSet(c) PROVE f \in FragmentsOf(es)
  <2>1. PICK k : k \in 1..N /\ f = c[k]
    BY <1>3, EntriesAre
  <2>2. PICK i : i = EntryOf(n, k) /\ i \in 1..L
    BY <1>4, <2>1
  <2>3. es[i] \in ToSet(es)
    BY <1>5, <2>2, EntriesAre
  <2>4. f \in Fragment /\ f.event = es[i] /\ f.index = k - Items(n, i - 1) - 1
    BY <1>4, <2>1, <2>2
  <2>5. Items(n, i - 1) \in Nat /\ k <= Items(n, i - 1) + Parts[es[i]] /\ es[i] \in Event /\ k \in Nat
    <3>1. k \in Nat
      BY <1>3, <2>1
    <3>2. Items(n, i - 1) \in Nat /\ k <= Items(n, i - 1) + Parts[es[i]] /\ es[i] \in Event
      BY <1>4, <2>1, <2>2
    <3> QED BY <3>1, <3>2
  <2>6. f.index < Parts[es[i]]
    BY <2>4, <2>5, SomeParts
  <2> QED BY <2>3, <2>4, <2>6 DEF FragmentsOf
<1>7. ASSUME NEW f \in FragmentsOf(es) PROVE f \in ToSet(c)
  <2>1. f \in Fragment /\ f.event \in ToSet(es) /\ f.index < Parts[f.event]
    BY DEF FragmentsOf
  <2>2. PICK i : i \in 1..L /\ f.event = es[i]
    <3>1. \E i : i \in DOMAIN es /\ f.event = es[i]
      BY <2>1, EntriesAre
    <3> QED BY <1>5, <3>1
  <2>3. PICK d : d = f.index + 1 /\ d \in 1..n[i] /\ d \in Nat
    <3>1. f.index \in Nat /\ f.index < Parts[es[i]] /\ n[i] = Parts[es[i]] /\ Parts[es[i]] \in Nat
      BY <1>5, <2>1, <2>2, FragmentFields, SomeParts
    <3> QED BY <3>1
  <2>4. PICK k : k = Items(n, i - 1) + d
    OBVIOUS
  <2>5. k \in 1..N /\ EntryOf(n, k) = i
    BY <1>2, <1>3, <2>2, <2>3, <2>4, EntryOfItem
  <2>6. c[k] \in Fragment /\ c[k].event = es[i] /\ c[k].index = k - Items(n, i - 1) - 1 /\ Items(n, i - 1) \in Nat
    BY <1>4, <2>5
  <2>7. c[k].index = f.index
    <3>1. k - Items(n, i - 1) - 1 = d - 1 /\ f.index \in Nat
      BY <2>1, <2>3, <2>4, <2>6, FragmentFields
    <3> QED BY <2>3, <2>6, <3>1
  <2>8. f = c[k]
    BY <2>1, <2>2, <2>6, <2>7, FragmentFields
  <2> QED BY <1>3, <2>5, <2>8, EntriesAre
<1>8. ASSUME NEW p \in Pairs(c) PROVE p \in FragmentOrder(es)
  <2>1. PICK f, g : p = <<f, g>>
    BY PairsArePairs
  <2>2. PICK k, m : k \in 1..N /\ m \in 1..N /\ k < m /\ f = c[k] /\ g = c[m]
    <3>1. \E i, j : i \in DOMAIN c /\ j \in DOMAIN c /\ i < j /\ f = c[i] /\ g = c[j]
      BY <1>8, <2>1, PairsAre
    <3> QED BY <1>3, <3>1
  <2>3. PICK i, j : i = EntryOf(n, k) /\ j = EntryOf(n, m) /\ i \in 1..L /\ j \in 1..L
    BY <1>4, <2>2
  <2>4. i <= j
    <3>1. k <= m
      BY <1>3, <2>2
    <3> QED BY <1>2, <1>3, <2>2, <2>3, <3>1, EntryInOrder
  <2>5. /\ f \in Fragment /\ f.event = es[i] /\ f.index = k - Items(n, i - 1) - 1 /\ Items(n, i - 1) \in Nat
        /\ g \in Fragment /\ g.event = es[j] /\ g.index = m - Items(n, j - 1) - 1 /\ Items(n, j - 1) \in Nat
    BY <1>4, <2>2, <2>3
  <2>6. CASE i = j
    <3>1. f.event = g.event /\ f.index < g.index
      BY <1>3, <2>2, <2>5, <2>6
    <3> QED BY <2>1, <2>5, <3>1, FragmentsInOrder
  <2>7. CASE i < j
    <3>1. <<es[i], es[j]>> \in Pairs(es)
      BY <1>5, <2>3, <2>7, PairsAre
    <3>2. <<f.event, g.event>> \in Pairs(es)
      BY <2>5, <3>1
    <3> QED BY <2>1, <2>5, <3>2, FragmentsInOrder
  <2> QED BY <1>3, <2>3, <2>4, <2>6, <2>7
<1>9. ToSet(c) = FragmentsOf(es) /\ Pairs(c) \subseteq FragmentOrder(es)
  BY <1>6, <1>7, <1>8
<1> QED BY <1>2, <1>3, <1>9

\* The batch without the rejected events, in the same order.
LEMMA ApplicableOfList ==
  ASSUME NEW es \in Seq(Event)
  PROVE  /\ Applicable(es) \in Seq(Event)
         /\ ToSet(Applicable(es)) = ToSet(es) \ Rejected
         /\ Pairs(Applicable(es)) \subseteq Pairs(es)
<1>1. PICK L : L = Len(es) /\ L \in Nat /\ DOMAIN es = 1..L /\ es \in [1..L -> Event]
  BY LenProperties
<1>2. PICK n : n = [i \in DOMAIN es |-> IF es[i] \in Rejected THEN 0 ELSE 1]
  OBVIOUS
<1>3. n \in [1..L -> Nat] /\ \A i \in 1..L : n[i] = IF es[i] \in Rejected THEN 0 ELSE 1
  BY <1>1, <1>2
<1>4. PICK N : N = Items(n, L) /\ N \in Nat
  <2>1. L \in 0..L
    BY <1>1
  <2> QED BY <1>1, <1>3, <2>1, ItemsAddUp
<1>5. PICK c : c = Applicable(es) /\ c = [k \in 1..N |-> es[EntryOf(n, k)]]
  BY <1>1, <1>2, <1>4, Zenon DEF Applicable
<1>6. ASSUME NEW k \in 1..N, NEW e, e = EntryOf(n, k)
      PROVE  e \in 1..L /\ es[e] \in Event /\ es[e] \notin Rejected /\ Items(n, e - 1) < k
             /\ k <= Items(n, e - 1) + 1 /\ Items(n, e - 1) \in Nat
  <2>1. e \in 1..L /\ Items(n, e - 1) < k /\ k <= Items(n, e)
    BY <1>1, <1>3, <1>4, <1>6, EntryFits
  <2>2. e - 1 \in 0..L
    BY <1>1, <2>1
  <2>3. Items(n, e - 1) \in Nat /\ Items(n, e) = Items(n, e - 1) + n[e]
    <3>1. (\A i \in 0..L : Items(n, i) \in Nat) /\ \A i \in 1..L : Items(n, i) = Items(n, i - 1) + n[i]
      BY <1>1, <1>3, ItemsAddUp
    <3> QED BY <2>1, <2>2, <3>1, Zenon
  <2>4. n[e] = IF es[e] \in Rejected THEN 0 ELSE 1
    BY <1>3, <2>1
  <2>5. k \in Nat
    BY <1>4
  <2>6. es[e] \notin Rejected
    BY <2>1, <2>3, <2>4, <2>5
  <2>7. es[e] \in Event
    BY <1>1, <2>1
  <2> QED BY <2>1, <2>3, <2>4, <2>6, <2>7
<1>7. DOMAIN c = 1..N /\ \A k \in 1..N : c[k] = es[EntryOf(n, k)]
  BY <1>5
<1>8. c \in Seq(Event)
  <2>1. c \in [1..N -> Event]
    BY <1>5, <1>6
  <2> QED BY <1>4, <2>1, AList
<1>9. ASSUME NEW x \in ToSet(c) PROVE x \in ToSet(es) \ Rejected
  <2>1. \E k : k \in DOMAIN c /\ x = c[k]
    BY EntriesAre
  <2>2. PICK k : k \in 1..N /\ x = c[k]
    BY <1>7, <2>1
  <2>3. PICK e : e = EntryOf(n, k)
    OBVIOUS
  <2>4. e \in 1..L /\ x = es[e] /\ es[e] \notin Rejected
    BY <1>6, <1>7, <2>2, <2>3
  <2>5. es[e] \in ToSet(es)
    BY <1>1, <2>4, EntriesAre
  <2> QED BY <2>4, <2>5
<1>10. ASSUME NEW x \in ToSet(es) \ Rejected PROVE x \in ToSet(c)
  <2>1. \E i : i \in DOMAIN es /\ x = es[i]
    BY EntriesAre
  <2>2. PICK i : i \in 1..L /\ x = es[i]
    BY <1>1, <2>1
  <2>3. PICK d : d = 1 /\ d \in 1..n[i]
    BY <1>3, <2>2
  <2>4. PICK k : k = Items(n, i - 1) + d
    OBVIOUS
  <2>5. k \in 1..N /\ EntryOf(n, k) = i
    <3>1. L \in Nat /\ n \in [1..L -> Nat] /\ i \in 1..L
      BY <1>1, <1>3, <2>2
    <3>2. d \in 1..n[i]
      BY <2>3
    <3>3. Items(n, i - 1) + d \in 1..Items(n, L) /\ EntryOf(n, Items(n, i - 1) + d) = i
      BY <3>1, <3>2, EntryIsUnique
    <3> QED BY <1>4, <2>4, <3>3
  <2>6. c[k] = x
    BY <1>7, <2>2, <2>5
  <2> QED BY <1>7, <2>5, <2>6, EntriesAre
<1>11. ASSUME NEW p \in Pairs(c) PROVE p \in Pairs(es)
  <2>1. PICK x, y : p = <<x, y>>
    BY PairsArePairs
  <2>2. PICK k, m : k \in 1..N /\ m \in 1..N /\ k < m /\ x = c[k] /\ y = c[m]
    <3>1. \E i, j : i \in DOMAIN c /\ j \in DOMAIN c /\ i < j /\ x = c[i] /\ y = c[j]
      BY <1>11, <2>1, PairsAre
    <3> QED BY <1>7, <3>1
  <2>3. PICK i : i = EntryOf(n, k)
    OBVIOUS
  <2>4. PICK j : j = EntryOf(n, m)
    OBVIOUS
  <2>5. i \in 1..L /\ j \in 1..L /\ x = es[i] /\ y = es[j]
    BY <1>6, <1>7, <2>2, <2>3, <2>4
  <2>6. i <= j
    <3>1. k <= m
      BY <1>4, <2>2
    <3> QED BY <1>1, <1>3, <1>4, <2>2, <2>3, <2>4, <3>1, EntryInOrder
  <2>7. i # j
    <3>1. SUFFICES ASSUME i = j PROVE FALSE
      OBVIOUS
    <3>2. Items(n, i - 1) < k /\ Items(n, i - 1) \in Nat
      BY <1>6, <2>2, <2>3
    <3>3. m <= Items(n, i - 1) + 1
      BY <1>6, <2>2, <2>4, <3>1
    <3>4. k \in Nat /\ m \in Nat /\ k < m
      BY <1>4, <2>2
    <3> QED BY <3>2, <3>3, <3>4
  <2>8. i < j
    BY <1>1, <2>5, <2>6, <2>7
  <2>9. <<es[i], es[j]>> \in Pairs(es)
    BY <1>1, <2>5, <2>8, PairsAre
  <2> QED BY <2>1, <2>5, <2>9
<1>12. ToSet(c) = ToSet(es) \ Rejected
  BY <1>9, <1>10
<1>13. Pairs(c) \subseteq Pairs(es)
  BY <1>11
<1> QED BY <1>5, <1>8, <1>12, <1>13

\* The order of a list that holds nothing twice is strict.
NoRepeats(s) == \A x \in ToSet(s) : <<x, x>> \notin Pairs(s)

LEMMA StrictOrder ==
  ASSUME NEW S, NEW s \in Seq(S), NoRepeats(s)
  PROVE  /\ \A x : <<x, x>> \notin Pairs(s)
         /\ \A x, y, z : <<x, y>> \in Pairs(s) /\ <<y, z>> \in Pairs(s) => <<x, z>> \in Pairs(s)
         /\ \A x, y : <<x, y>> \in Pairs(s) => <<y, x>> \notin Pairs(s)
<1>1. \A x : <<x, x>> \notin Pairs(s)
  BY PairsArePairs DEF NoRepeats
<1>2. PICK L : L \in Nat /\ DOMAIN s = 1..L
  BY LenProperties
<1>3. ASSUME NEW i \in 1..L, NEW j \in 1..L, s[i] = s[j] PROVE i = j
  <2>1. SUFFICES ASSUME i < j \/ j < i PROVE FALSE
    BY <1>2
  <2>2. <<s[i], s[j]>> \in Pairs(s) \/ <<s[j], s[i]>> \in Pairs(s)
    BY <1>2, <2>1, PairsAre
  <2> QED BY <1>1, <1>3, <2>2
<1>4. ASSUME NEW x, NEW y, NEW z, <<x, y>> \in Pairs(s), <<y, z>> \in Pairs(s)
      PROVE  <<x, z>> \in Pairs(s)
  <2>1. PICK i, j : i \in DOMAIN s /\ j \in DOMAIN s /\ i < j /\ x = s[i] /\ y = s[j]
    BY <1>4, PairsAre
  <2>2. PICK k, l : k \in DOMAIN s /\ l \in DOMAIN s /\ k < l /\ y = s[k] /\ z = s[l]
    BY <1>4, PairsAre
  <2>3. j = k
    BY <1>2, <1>3, <2>1, <2>2
  <2>4. i < l
    BY <1>2, <2>1, <2>2, <2>3
  <2> QED BY <2>1, <2>2, <2>4, PairsAre
<1>5. ASSUME NEW x, NEW y, <<x, y>> \in Pairs(s), <<y, x>> \in Pairs(s) PROVE FALSE
  BY <1>1, <1>4, <1>5
<1> QED BY <1>1, <1>4, <1>5

LEMMA StrictFragmentOrder ==
  ASSUME NEW es \in Seq(Event), NoRepeats(es)
  PROVE  /\ \A f : <<f, f>> \notin FragmentOrder(es)
         /\ \A f, g : <<f, g>> \in FragmentOrder(es) => <<g, f>> \notin FragmentOrder(es)
<1>1. ASSUME NEW f, NEW g, <<f, g>> \in FragmentOrder(es), <<g, f>> \in FragmentOrder(es) PROVE FALSE
  <2>1. f.index \in Nat /\ g.index \in Nat
    BY <1>1, FragmentsInOrder, FragmentFields
  <2>2. <<f.event, g.event>> \in Pairs(es) \/ (f.event = g.event /\ f.index < g.index)
    BY <1>1, FragmentsInOrder
  <2>3. <<g.event, f.event>> \in Pairs(es) \/ (g.event = f.event /\ g.index < f.index)
    BY <1>1, FragmentsInOrder
  <2>4. PICK d, e : d = f.event /\ e = g.event
    OBVIOUS
  <2>5. ~(<<d, e>> \in Pairs(es) /\ (<<e, d>> \in Pairs(es) \/ d = e)) /\ ~(<<e, d>> \in Pairs(es) /\ d = e)
    BY StrictOrder
  <2> QED BY <2>1, <2>2, <2>3, <2>4, <2>5
<1> QED BY <1>1

\* In a list that holds no event twice the order of the fragments is theirs.
LEMMA OrderOfFragments ==
  ASSUME NEW es \in Seq(Event), NoRepeats(es), NEW f \in FragmentsOf(es), NEW g \in FragmentsOf(es),
         <<f, g>> \in FragmentOrder(es)
  PROVE  <<f, g>> \in Pairs(ChunksOf(es))
<1>1. PICK c : /\ c = ChunksOf(es) /\ c \in Seq(Fragment) /\ ToSet(c) = FragmentsOf(es)
               /\ Pairs(c) \subseteq FragmentOrder(es)
  BY FragmentsOfList
<1>2. PICK N : N \in Nat /\ DOMAIN c = 1..N
  BY <1>1, LenProperties
<1>3. PICK k : k \in 1..N /\ f = c[k]
  <2>1. \E i : i \in DOMAIN c /\ f = c[i]
    BY <1>1, EntriesAre
  <2> QED BY <1>2, <2>1
<1>4. PICK m : m \in 1..N /\ g = c[m]
  <2>1. \E i : i \in DOMAIN c /\ g = c[i]
    BY <1>1, EntriesAre
  <2> QED BY <1>2, <2>1
<1>5. k # m
  BY <1>3, <1>4, StrictFragmentOrder
<1>6. ~(m < k)
  <2>1. SUFFICES ASSUME m < k PROVE FALSE
    OBVIOUS
  <2>2. <<g, f>> \in Pairs(c)
    BY <1>2, <1>3, <1>4, <2>1, PairsAre
  <2> QED BY <1>1, <2>2, StrictFragmentOrder
<1>7. k < m
  BY <1>2, <1>3, <1>4, <1>5, <1>6
<1> QED BY <1>1, <1>2, <1>3, <1>4, <1>7, PairsAre

-----------------------------------------------------------------------------
(* The inductive invariant *)

\* What a receiver has of the event it is joining, and the fragments of an event.
Begun(p) == IF p = None THEN <<>> ELSE SubSeq(Chunks(p.event), 1, p.index)
AllFragments(e) == {[event |-> e, index |-> i] : i \in 0..Parts[e] - 1}

\* What the server has put on its way to a player, and what of it the player's
\* client still has to complete.
Ahead(u) == channel[u] \o pending[u]
Held(p, ahead) == ToSet(Begun(p)) \union ToSet(ahead)

\* Only a request that is being handled has room reserved.
Reserving ==
    /\ busy = None => reserved = 0 /\ reservedBytes = 0 /\ ~stored
    /\ busy # None => /\ Unanswered(busy)
                      /\ reserved = Cardinality(Carried(busy))
                      /\ reservedBytes = Bytes(Carried(busy))

Counting ==
    /\ Cardinality(Queued) + reserved <= QueueCapacity
    /\ pendingBytes + reservedBytes <= ByteCapacity
    /\ pendingBytes = Bytes(Queued)

\* After the shutdown no request is handled, so that none refills the queue.
Closing == closed => ~accepting /\ busy = None /\ \A u \in User : pending[u] = <<>>

\* Accepted events are those of the requests that were answered.
Origin ==
    /\ \A u \in User : \A e \in ToSet(accepted[u]) :
          \E r \in Request : verdict[r] = "done" /\ e \in ToSet(Remote[r][u])
    /\ \A r \in locally : verdict[r] = "done" \/ (busy = r /\ stored)

\* Events arrive in the order they were accepted, ahead of the fragments that
\* are still on their way, which are in that order too.
Follows(acc, arr, ahead) ==
    /\ NoRepeats(acc)
    /\ ToSet(arr) \subseteq ToSet(acc)
    /\ Pairs(arr) \subseteq Pairs(acc)
    /\ ToSet(ahead) \subseteq FragmentsOf(acc)
    /\ Pairs(ahead) \subseteq FragmentOrder(acc)
    /\ \A e \in ToSet(arr) : \A f \in ToSet(ahead) : <<e, f.event>> \in Pairs(acc)

\* The receiver is within an event whose other fragments come next.
Joins(acc, arr, p, ahead) ==
    /\ p.event \in ToSet(acc)
    /\ p.index > 0 /\ p.index < Parts[p.event]
    /\ \A e \in ToSet(arr) : <<e, p.event>> \in Pairs(acc)
    /\ \A f \in ToSet(ahead) : \/ <<p.event, f.event>> \in Pairs(acc)
                               \/ f.event = p.event /\ f.index >= p.index

\* Events are on their way whole, and what the economy wants arrived or is on its way.
Keeps(acc, arr, p, ahead) ==
    /\ p # None => Joins(acc, arr, p, ahead)
    /\ \A f \in Held(p, ahead) : AllFragments(f.event) \subseteq Held(p, ahead)
    /\ \A e \in ToSet(acc) \ Rejected : e \in ToSet(arr) \/ AllFragments(e) \subseteq Held(p, ahead)

SRoom == Reserving /\ Counting /\ Closing /\ Origin
SOrder == \A u \in User : Follows(accepted[u], Arrived(u), Ahead(u))
SKeeping ==
    \A u \in User : ~excused[u] =>
        conn[u] # "gone" /\ Keeps(accepted[u], Arrived(u), partial[u], Ahead(u))
IInv == TypeOK /\ SRoom /\ SOrder /\ SKeeping

-----------------------------------------------------------------------------
(* Lists of one player *)

LEMMA EventLists ==
  \A s, t : s \in Seq(Event) /\ t \in Seq(Event) =>
      /\ s \o t \in Seq(Event)
      /\ ToSet(s \o t) = ToSet(s) \union ToSet(t)
      /\ Pairs(s \o t) = Pairs(s) \union Pairs(t) \union (ToSet(s) \X ToSet(t))
BY Concat

LEMMA FragmentLists ==
  \A s, t : s \in Seq(Fragment) /\ t \in Seq(Fragment) =>
      /\ s \o t \in Seq(Fragment)
      /\ ToSet(s \o t) = ToSet(s) \union ToSet(t)
      /\ Pairs(s \o t) = Pairs(s) \union Pairs(t) \union (ToSet(s) \X ToSet(t))
BY Concat

LEMMA EventAppended ==
  \A s, e : s \in Seq(Event) /\ e \in Event =>
      /\ Append(s, e) \in Seq(Event)
      /\ ToSet(Append(s, e)) = ToSet(s) \union {e}
      /\ Pairs(Append(s, e)) = Pairs(s) \union (ToSet(s) \X {e})
<1>1. ASSUME NEW s, NEW e, s \in Seq(Event), e \in Event
      PROVE  /\ Append(s, e) \in Seq(Event)
             /\ ToSet(Append(s, e)) = ToSet(s) \union {e}
             /\ Pairs(Append(s, e)) = Pairs(s) \union (ToSet(s) \X {e})
  <2>1. PICK t : t = <<e>> /\ t \in Seq(Event) /\ ToSet(t) = {e} /\ Pairs(t) = {}
    <3>1. <<e>> \in Seq(Event)
      BY <1>1
    <3> QED BY <3>1, OneEntry
  <2>2. Append(s, e) = s \o t
    BY <1>1, <2>1, AppendIsConcat
  <2>3. /\ s \o t \in Seq(Event) /\ ToSet(s \o t) = ToSet(s) \union ToSet(t)
        /\ Pairs(s \o t) = Pairs(s) \union Pairs(t) \union (ToSet(s) \X ToSet(t))
    BY <1>1, <2>1, EventLists
  <2> QED BY <2>1, <2>2, <2>3
<1> QED BY <1>1

LEMMA FirstFragment ==
  \A s : s \in Seq(Fragment) /\ s # <<>> =>
      /\ Head(s) \in Fragment /\ Tail(s) \in Seq(Fragment) /\ s = <<Head(s)>> \o Tail(s)
      /\ ToSet(s) = {Head(s)} \union ToSet(Tail(s))
      /\ Pairs(s) = Pairs(Tail(s)) \union ({Head(s)} \X ToSet(Tail(s)))
<1>1. ASSUME NEW s, s \in Seq(Fragment), s # <<>>
      PROVE  /\ Head(s) \in Fragment /\ Tail(s) \in Seq(Fragment) /\ s = <<Head(s)>> \o Tail(s)
             /\ ToSet(s) = {Head(s)} \union ToSet(Tail(s))
             /\ Pairs(s) = Pairs(Tail(s)) \union ({Head(s)} \X ToSet(Tail(s)))
  <2>1. /\ Head(s) \in Fragment /\ Tail(s) \in Seq(Fragment) /\ Len(Tail(s)) = Len(s) - 1
        /\ Len(s) \in Nat /\ \A i \in 1..Len(Tail(s)) : Tail(s)[i] = s[i + 1]
    BY <1>1, HeadTailProperties, LenProperties
  <2>2. PICK f, t : f = <<Head(s)>> /\ t = Tail(s)
    OBVIOUS
  <2>3. f \in Seq(Fragment) /\ t \in Seq(Fragment) /\ ToSet(f) = {Head(s)} /\ Pairs(f) = {} /\ Len(f) = 1 /\ f[1] = s[1]
    <3>1. <<Head(s)>> \in Seq(Fragment) /\ Len(<<Head(s)>>) = 1 /\ <<Head(s)>>[1] = s[1]
      BY <1>1, <2>1
    <3>2. ToSet(<<Head(s)>>) = {Head(s)} /\ Pairs(<<Head(s)>>) = {}
      BY OneEntry
    <3> QED BY <2>1, <2>2, <3>1, <3>2
  <2>4. /\ f \o t \in Seq(Fragment) /\ ToSet(f \o t) = ToSet(f) \union ToSet(t)
        /\ Pairs(f \o t) = Pairs(f) \union Pairs(t) \union (ToSet(f) \X ToSet(t))
    BY <2>3, FragmentLists
  <2>5. /\ Len(f \o t) = Len(f) + Len(t)
        /\ \A i \in 1..Len(f) + Len(t) : (f \o t)[i] = IF i <= Len(f) THEN f[i] ELSE t[i - Len(f)]
    BY <2>3, ConcatProperties
  <2>6. PICK n : n = Len(s) /\ n \in Nat /\ Len(t) = n - 1
    BY <2>1, <2>2
  <2>7. \A i \in 1..n - 1 : t[i] = s[i + 1]
    BY <2>1, <2>2, <2>6
  <2>8. Len(f \o t) = n
    BY <2>3, <2>5, <2>6
  <2>9. ASSUME NEW i \in 1..n PROVE (f \o t)[i] = s[i]
    <3>1. CASE i = 1
      <4>1. i \in 1..Len(f) + Len(t) /\ i <= Len(f)
        BY <2>3, <2>6, <3>1
      <4> QED BY <2>3, <2>5, <3>1, <4>1
    <3>2. CASE i # 1
      <4>1. i \in 1..Len(f) + Len(t) /\ ~(i <= Len(f)) /\ i - Len(f) \in 1..n - 1 /\ (i - Len(f)) + 1 = i
        BY <2>3, <2>6, <3>2
      <4>2. t[i - Len(f)] = s[(i - Len(f)) + 1]
        BY <2>7, <4>1
      <4> QED BY <2>5, <4>1, <4>2
    <3> QED BY <3>1, <3>2
  <2>10. f \o t = s
    BY <1>1, <2>4, <2>6, <2>8, <2>9, SeqEqual
  <2> QED BY <2>1, <2>2, <2>3, <2>4, <2>10
<1> QED BY <1>1

LEMMA EventsCut ==
  \A s, k : s \in Seq(Event) /\ k \in 0..Len(s) =>
      /\ SubSeq(s, 1, k) \in Seq(Event) /\ SubSeq(s, k + 1, Len(s)) \in Seq(Event)
      /\ SubSeq(s, 1, k) \o SubSeq(s, k + 1, Len(s)) = s
BY CutInTwo

LEMMA FragmentsCut ==
  \A s, k : s \in Seq(Fragment) /\ k \in 0..Len(s) =>
      /\ SubSeq(s, 1, k) \in Seq(Fragment) /\ Len(SubSeq(s, 1, k)) = k
      /\ SubSeq(s, k + 1, Len(s)) \in Seq(Fragment)
      /\ SubSeq(s, 1, k) \o SubSeq(s, k + 1, Len(s)) = s
BY CutInTwo

LEMMA FollowsLess ==
  ASSUME NEW acc, NEW arr, NEW ahead, NEW arr2, NEW ahead2, Follows(acc, arr, ahead),
         ToSet(arr2) \subseteq ToSet(arr), Pairs(arr2) \subseteq Pairs(arr),
         ToSet(ahead2) \subseteq ToSet(ahead), Pairs(ahead2) \subseteq Pairs(ahead)
  PROVE  Follows(acc, arr2, ahead2)
BY Zenon DEF Follows

\* The last fragment of an event takes its event to the client.
LEMMA FollowsArrival ==
  ASSUME NEW acc \in Seq(Event), NEW arr \in Seq(Event), NEW ahead \in Seq(Fragment), ahead # <<>>,
         Follows(acc, arr, ahead), Head(ahead).index + 1 = Parts[Head(ahead).event]
  PROVE  Follows(acc, Append(arr, Head(ahead).event), Tail(ahead))
<1>0. /\ Head(ahead) \in Fragment /\ Tail(ahead) \in Seq(Fragment)
      /\ ToSet(ahead) = {Head(ahead)} \union ToSet(Tail(ahead))
      /\ Pairs(ahead) = Pairs(Tail(ahead)) \union ({Head(ahead)} \X ToSet(Tail(ahead)))
  BY FirstFragment
<1>1. PICK f, rest : /\ f = Head(ahead) /\ rest = Tail(ahead) /\ f \in Fragment /\ rest \in Seq(Fragment)
                     /\ ToSet(ahead) = {f} \union ToSet(rest)
                     /\ Pairs(ahead) = Pairs(rest) \union ({f} \X ToSet(rest))
  BY <1>0
<1>2. PICK e, arr2 : e = f.event /\ arr2 = Append(arr, e)
  OBVIOUS
<1>3. ToSet(ahead) = {f} \union ToSet(rest) /\ Pairs(ahead) = Pairs(rest) \union ({f} \X ToSet(rest))
  BY <1>1
<1>4. e = f.event /\ arr2 = Append(arr, e) /\ e \in Event /\ f.index \in Nat
  BY <1>1, <1>2, FragmentFields
<1>5. ToSet(arr2) = ToSet(arr) \union {e} /\ Pairs(arr2) = Pairs(arr) \union (ToSet(arr) \X {e})
  BY <1>4, EventAppended
<1>6. /\ NoRepeats(acc) /\ ToSet(arr) \subseteq ToSet(acc) /\ Pairs(arr) \subseteq Pairs(acc)
      /\ ToSet(ahead) \subseteq FragmentsOf(acc) /\ Pairs(ahead) \subseteq FragmentOrder(acc)
      /\ \A d \in ToSet(arr) : \A g \in ToSet(ahead) : <<d, g.event>> \in Pairs(acc)
  BY DEF Follows
<1>7. f \in FragmentsOf(acc) /\ e \in ToSet(acc)
  BY <1>3, <1>4, <1>6 DEF FragmentsOf
<1>8. \A d \in ToSet(arr) : <<d, e>> \in Pairs(acc)
  BY <1>3, <1>4, <1>6
<1>9. ASSUME NEW g \in ToSet(rest) PROVE <<e, g.event>> \in Pairs(acc)
  <2>1. <<f, g>> \in FragmentOrder(acc) /\ g \in FragmentsOf(acc)
    BY <1>3, <1>6
  <2>2. <<f.event, g.event>> \in Pairs(acc) \/ (f.event = g.event /\ f.index < g.index)
    BY <2>1, FragmentsInOrder
  <2>3. g.event \in Event /\ g.index \in Nat /\ g.index < Parts[g.event] /\ Parts[g.event] \in Nat
    BY <2>1, FragmentFields, SomeParts DEF FragmentsOf
  <2>4. f.index + 1 = Parts[f.event]
    BY <1>1
  <2>5. ~(f.event = g.event /\ f.index < g.index)
    BY <1>4, <2>3, <2>4
  <2> QED BY <1>4, <2>2, <2>5
<1>10. ToSet(arr2) \subseteq ToSet(acc) /\ Pairs(arr2) \subseteq Pairs(acc)
  BY <1>5, <1>6, <1>7, <1>8
<1>11. ToSet(rest) \subseteq FragmentsOf(acc) /\ Pairs(rest) \subseteq FragmentOrder(acc)
  BY <1>3, <1>6
<1>12. \A d \in ToSet(arr2) : \A g \in ToSet(rest) : <<d, g.event>> \in Pairs(acc)
  BY <1>3, <1>5, <1>6, <1>9
<1>13. Follows(acc, arr2, rest)
  BY <1>6, <1>10, <1>11, <1>12 DEF Follows
<1> QED BY <1>1, <1>4, <1>13

\* Fragments stay in the order of a list that grows.
LEMMA OrderGrows ==
  ASSUME NEW acc, NEW acc2, Pairs(acc) \subseteq Pairs(acc2), ToSet(acc) \subseteq ToSet(acc2)
  PROVE  FragmentOrder(acc) \subseteq FragmentOrder(acc2) /\ FragmentsOf(acc) \subseteq FragmentsOf(acc2)
<1>1. FragmentOrder(acc) \subseteq FragmentOrder(acc2)
  BY DEF FragmentOrder
<1>2. FragmentsOf(acc) \subseteq FragmentsOf(acc2)
  BY DEF FragmentsOf
<1> QED BY <1>1, <1>2

\* The fragments of newly accepted events go behind all others.
LEMMA FollowsAccepting ==
  ASSUME NEW acc \in Seq(Event), NEW arr \in Seq(Event), NEW ahead \in Seq(Fragment), NEW es \in Seq(Event),
         Follows(acc, arr, ahead), NoRepeats(acc \o es)
  PROVE  Follows(acc \o es, arr, ahead \o ChunksOf(es))
<1>1. PICK c : /\ c = ChunksOf(es) /\ c \in Seq(Fragment) /\ ToSet(c) = FragmentsOf(es)
               /\ Pairs(c) \subseteq FragmentOrder(es)
  BY FragmentsOfList
<1>2. PICK acc2 : /\ acc2 = acc \o es /\ ToSet(acc2) = ToSet(acc) \union ToSet(es)
                  /\ Pairs(acc2) = Pairs(acc) \union Pairs(es) \union (ToSet(acc) \X ToSet(es))
  BY EventLists
<1>3. PICK ahead2 : /\ ahead2 = ahead \o c /\ ToSet(ahead2) = ToSet(ahead) \union ToSet(c)
                    /\ Pairs(ahead2) = Pairs(ahead) \union Pairs(c) \union (ToSet(ahead) \X ToSet(c))
  BY <1>1, FragmentLists
<1>4. /\ ToSet(arr) \subseteq ToSet(acc) /\ Pairs(arr) \subseteq Pairs(acc)
      /\ ToSet(ahead) \subseteq FragmentsOf(acc) /\ Pairs(ahead) \subseteq FragmentOrder(acc)
      /\ \A d \in ToSet(arr) : \A g \in ToSet(ahead) : <<d, g.event>> \in Pairs(acc)
  BY DEF Follows
<1>5. FragmentOrder(acc) \subseteq FragmentOrder(acc2) /\ FragmentsOf(acc) \subseteq FragmentsOf(acc2)
  BY <1>2, OrderGrows
<1>6. FragmentOrder(es) \subseteq FragmentOrder(acc2) /\ FragmentsOf(es) \subseteq FragmentsOf(acc2)
  BY <1>2, OrderGrows
<1>7. ASSUME NEW f \in ToSet(ahead), NEW g \in ToSet(c) PROVE <<f, g>> \in FragmentOrder(acc2)
  <2>1. f \in Fragment /\ f.event \in ToSet(acc) /\ g \in Fragment /\ g.event \in ToSet(es)
    BY <1>1, <1>4 DEF FragmentsOf
  <2>2. <<f.event, g.event>> \in Pairs(acc2)
    BY <1>2, <2>1
  <2> QED BY <2>1, <2>2, FragmentsInOrder
<1>8. Pairs(ahead2) \subseteq FragmentOrder(acc2)
  <2>1. \A p \in ToSet(ahead) \X ToSet(c) : p \in FragmentOrder(acc2)
    BY <1>7
  <2> QED BY <1>1, <1>3, <1>4, <1>5, <1>6, <2>1
<1>9. ToSet(ahead2) \subseteq FragmentsOf(acc2)
  BY <1>1, <1>3, <1>4, <1>5, <1>6
<1>10. ASSUME NEW d \in ToSet(arr), NEW g \in ToSet(ahead2) PROVE <<d, g.event>> \in Pairs(acc2)
  <2>1. CASE g \in ToSet(ahead)
    BY <1>2, <1>4, <2>1
  <2>2. CASE g \in ToSet(c)
    <3>1. g.event \in ToSet(es) /\ d \in ToSet(acc)
      BY <1>1, <1>4, <2>2 DEF FragmentsOf
    <3> QED BY <1>2, <3>1
  <2> QED BY <1>3, <2>1, <2>2
<1>11. ToSet(arr) \subseteq ToSet(acc2) /\ Pairs(arr) \subseteq Pairs(acc2)
  BY <1>2, <1>4
<1>12. NoRepeats(acc2)
  BY <1>2
<1>13. Follows(acc2, arr, ahead2)
  BY <1>8, <1>9, <1>10, <1>11, <1>12 DEF Follows
<1> QED BY <1>1, <1>2, <1>3, <1>13

LEMMA OfAnEvent ==
  \A e, g : e \in Event => (g \in AllFragments(e) <=> g \in Fragment /\ g.event = e /\ g.index < Parts[e])
<1>1. ASSUME NEW e, NEW g, e \in Event, g \in AllFragments(e) PROVE g \in Fragment /\ g.event = e /\ g.index < Parts[e]
  <2>1. PICK i : i \in 0..Parts[e] - 1 /\ g = [event |-> e, index |-> i]
    BY <1>1 DEF AllFragments
  <2>2. Parts[e] \in Nat
    BY <1>1, SomeParts
  <2>3. i \in Nat /\ i < Parts[e]
    BY <2>1, <2>2
  <2> QED BY <1>1, <2>1, <2>3, AFragment
<1>2. ASSUME NEW e, NEW g, e \in Event, g \in Fragment, g.event = e, g.index < Parts[e] PROVE g \in AllFragments(e)
  <2>1. g.index \in Nat /\ g = [event |-> g.event, index |-> g.index] /\ Parts[e] \in Nat
    BY <1>2, FragmentFields, SomeParts
  <2>2. g.index \in 0..Parts[e] - 1
    BY <1>2, <2>1
  <2> QED BY <1>2, <2>1, <2>2 DEF AllFragments
<1> QED BY <1>1, <1>2

\* What the receiver has joined are the fragments before the one it expects.
LEMMA NothingJoined == Begun(None) = <<>> /\ ToSet(Begun(None)) = {}
BY EmptyList DEF Begun

LEMMA BegunIs ==
  ASSUME NEW p \in Fragment, p.index <= Parts[p.event]
  PROVE  /\ Begun(p) \in Seq(Fragment)
         /\ \A f : f \in ToSet(Begun(p)) <=> f \in Fragment /\ f.event = p.event /\ f.index < p.index
         /\ \A f, g : <<f, g>> \in Pairs(Begun(p)) => f.event = g.event /\ f.index < g.index
<1>1. PICK e, k : e = p.event /\ k = p.index /\ e \in Event /\ k \in Nat /\ k <= Parts[e] /\ Parts[e] \in Nat
  BY FragmentFields, SomeParts
<1>2. p # None
  BY RelayAssumption DEF Fragment
<1>3. PICK c, m : c = Chunks(e) /\ m = Parts[e] /\ m \in Nat /\ k <= m /\ c = [i \in 1..m |-> [event |-> e, index |-> i - 1]]
  BY <1>1 DEF Chunks
<1>4. ASSUME NEW i \in 1..m
      PROVE  c[i] = [event |-> e, index |-> i - 1] /\ c[i] \in Fragment /\ c[i].event = e /\ c[i].index = i - 1
  <2>1. i - 1 \in Nat
    BY <1>3
  <2>2. c[i] = [event |-> e, index |-> i - 1]
    BY <1>3
  <2> QED BY <1>1, <2>1, <2>2, AFragment
<1>5. PICK f : f = SubSeq(c, 1, k)
  OBVIOUS
<1>6. f \in Seq(Fragment) /\ DOMAIN f = 1..k /\ \A i \in 1..k : f[i] = c[i]
  <2>1. \A i \in 1..k : c[i] \in Fragment
    <3>1. \A i \in 1..k : i \in 1..m
      BY <1>1, <1>3
    <3> QED BY <1>4, <3>1
  <2>2. /\ f \in Seq(Fragment) /\ Len(f) = (IF 1 <= k THEN k - 1 + 1 ELSE 0)
        /\ \A i \in 1..k - 1 + 1 : f[i] = c[1 + i - 1]
    BY <1>1, <1>5, <2>1, SubSeqProperties
  <2>3. Len(f) = k
    BY <1>1, <2>2
  <2>4. \A i \in 1..k : f[i] = c[i]
    BY <1>1, <2>2
  <2> QED BY <2>2, <2>3, <2>4, LenProperties
<1>7. ASSUME NEW i \in 1..k
      PROVE  i \in 1..m /\ f[i] = [event |-> e, index |-> i - 1] /\ f[i] \in Fragment /\ f[i].event = e /\ f[i].index = i - 1
  <2>1. i \in 1..m
    BY <1>1, <1>3
  <2> QED BY <1>4, <1>6, <2>1
<1>8. Begun(p) = f
  BY <1>1, <1>2, <1>3, <1>5 DEF Begun
<1>9. ASSUME NEW g, g \in ToSet(f) PROVE g \in Fragment /\ g.event = e /\ g.index < k
  <2>1. \E i : i \in DOMAIN f /\ g = f[i]
    BY <1>9, EntriesAre
  <2>2. PICK i : i \in 1..k /\ g = f[i]
    BY <1>6, <2>1
  <2>3. i - 1 < k
    BY <1>1, <2>2
  <2> QED BY <1>7, <2>2, <2>3
<1>10. ASSUME NEW g, g \in Fragment, g.event = e, g.index < k PROVE g \in ToSet(f)
  <2>1. PICK i : i = g.index + 1
    OBVIOUS
  <2>2. i \in 1..k /\ i - 1 = g.index /\ g = [event |-> e, index |-> g.index]
    BY <1>1, <1>10, <2>1, FragmentFields
  <2>3. g = f[i]
    BY <1>7, <2>2
  <2> QED BY <1>6, <2>2, <2>3, EntriesAre
<1>11. ASSUME NEW g, NEW h, <<g, h>> \in Pairs(f) PROVE g.event = h.event /\ g.index < h.index
  <2>1. \E i, j : i \in DOMAIN f /\ j \in DOMAIN f /\ i < j /\ g = f[i] /\ h = f[j]
    BY <1>11, PairsAre
  <2>2. PICK i, j : i \in 1..k /\ j \in 1..k /\ i < j /\ g = f[i] /\ h = f[j]
    BY <1>6, <2>1
  <2>3. i - 1 < j - 1
    BY <1>1, <2>2
  <2> QED BY <1>7, <2>2, <2>3
<1> QED BY <1>1, <1>6, <1>8, <1>9, <1>10, <1>11

\* Only rejected events are lost to the economy when a batch is reduced.
LEMMA KeepsBatch ==
  ASSUME NEW acc, NEW arr, NEW p, NEW ahead, NEW arr2, Keeps(acc, arr, p, ahead),
         ToSet(arr2) \subseteq ToSet(arr), ToSet(arr) \ Rejected \subseteq ToSet(arr2)
  PROVE  Keeps(acc, arr2, p, ahead)
<1>1. p # None => Joins(acc, arr2, p, ahead)
  BY Zenon DEF Keeps, Joins
<1>2. \A e \in ToSet(acc) \ Rejected : e \in ToSet(arr2) \/ AllFragments(e) \subseteq Held(p, ahead)
  BY Zenon DEF Keeps
<1> QED BY <1>1, <1>2, Zenon DEF Keeps

LEMMA KeepsAccepting ==
  ASSUME NEW acc \in Seq(Event), NEW arr \in Seq(Event), NEW p, NEW ahead \in Seq(Fragment), NEW es \in Seq(Event),
         Keeps(acc, arr, p, ahead), Follows(acc, arr, ahead)
  PROVE  Keeps(acc \o es, arr, p, ahead \o ChunksOf(es))
<1>1. PICK c : c = ChunksOf(es) /\ c \in Seq(Fragment) /\ ToSet(c) = FragmentsOf(es)
  BY FragmentsOfList
<1>2. PICK acc2 : /\ acc2 = acc \o es /\ ToSet(acc2) = ToSet(acc) \union ToSet(es)
                  /\ Pairs(acc2) = Pairs(acc) \union Pairs(es) \union (ToSet(acc) \X ToSet(es))
  BY EventLists
<1>3. PICK ahead2 : ahead2 = ahead \o c /\ ToSet(ahead2) = ToSet(ahead) \union ToSet(c)
  <2>1. ToSet(ahead \o c) = ToSet(ahead) \union ToSet(c)
    BY <1>1, Concat
  <2> QED BY <2>1
<1>4. PICK H, H2 : H = Held(p, ahead) /\ H2 = Held(p, ahead2) /\ H2 = H \union FragmentsOf(es)
  <2>1. Held(p, ahead2) = Held(p, ahead) \union FragmentsOf(es)
    BY <1>1, <1>3 DEF Held
  <2> QED BY <2>1
<1>5. ASSUME NEW e \in ToSet(es) PROVE AllFragments(e) \subseteq H2
  <2>1. e \in Event
    <3>1. \E i : i \in DOMAIN es /\ e = es[i]
      BY EntriesAre
    <3> QED BY <3>1, LenProperties, ElementOfSeq
  <2>2. ASSUME NEW g \in AllFragments(e) PROVE g \in FragmentsOf(es)
    BY <1>5, <2>1, OfAnEvent DEF FragmentsOf
  <2> QED BY <1>4, <2>2
<1>6. ASSUME p # None PROVE Joins(acc2, arr, p, ahead2)
  <2>1. Joins(acc, arr, p, ahead)
    BY <1>6 DEF Keeps
  <2>2. p.event \in ToSet(acc2) /\ \A e \in ToSet(arr) : <<e, p.event>> \in Pairs(acc2)
    BY <1>2, <2>1 DEF Joins
  <2>3. ASSUME NEW f \in ToSet(ahead2)
        PROVE  <<p.event, f.event>> \in Pairs(acc2) \/ (f.event = p.event /\ f.index >= p.index)
    <3>1. CASE f \in ToSet(ahead)
      BY <1>2, <2>1, <3>1 DEF Joins
    <3>2. CASE f \in FragmentsOf(es)
      <4>1. f.event \in ToSet(es) /\ p.event \in ToSet(acc)
        BY <2>1, <3>2 DEF Joins, FragmentsOf
      <4> QED BY <1>2, <4>1
    <3> QED BY <1>1, <1>3, <3>1, <3>2
  <2> QED BY <2>1, <2>2, <2>3 DEF Joins
<1>7. ASSUME NEW f \in H2 PROVE AllFragments(f.event) \subseteq H2
  <2>1. CASE f \in H
    <3>1. AllFragments(f.event) \subseteq H
      BY <1>4, <2>1 DEF Keeps
    <3> QED BY <1>4, <3>1
  <2>2. CASE f \in FragmentsOf(es)
    <3>1. f.event \in ToSet(es)
      BY <2>2 DEF FragmentsOf
    <3> QED BY <1>5, <3>1
  <2> QED BY <1>4, <2>1, <2>2
<1>8. ASSUME NEW e \in ToSet(acc2) \ Rejected PROVE e \in ToSet(arr) \/ AllFragments(e) \subseteq H2
  <2>1. CASE e \in ToSet(acc)
    <3>1. e \in ToSet(arr) \/ AllFragments(e) \subseteq H
      BY <1>4, <2>1 DEF Keeps
    <3> QED BY <1>4, <3>1
  <2>2. CASE e \in ToSet(es)
    BY <1>5, <2>2
  <2> QED BY <1>2, <2>1, <2>2
<1>9. Keeps(acc2, arr, p, ahead2)
  BY <1>4, <1>6, <1>7, <1>8 DEF Keeps
<1> QED BY <1>1, <1>2, <1>3, <1>9

\* What the receiver expects when nothing was lost: the first fragment ahead.
ComesNext(acc, arr, p, ahead, f, rest) ==
    /\ f \in FragmentsOf(acc) /\ rest \in Seq(Fragment) /\ f \in ToSet(ahead)
    /\ f.index > 0 => p # None /\ f.event = p.event /\ f.index = p.index
    /\ f.index = 0 => p = None
    /\ \A g : g \in Held(p, ahead) <=>
           g \in ToSet(rest) \/ (g \in Fragment /\ g.event = f.event /\ g.index <= f.index)
    /\ \A g \in ToSet(rest) :
           <<f.event, g.event>> \in Pairs(acc) \/ (f.event = g.event /\ f.index < g.index)
    /\ ToSet(rest) \subseteq FragmentsOf(acc)
    /\ \A e \in ToSet(arr) : <<e, f.event>> \in Pairs(acc)

LEMMA NextIsExpected ==
  ASSUME NEW acc \in Seq(Event), NEW arr \in Seq(Event), NEW p \in Fragment \union {None},
         NEW ahead \in Seq(Fragment), ahead # <<>>, Follows(acc, arr, ahead), Keeps(acc, arr, p, ahead),
         NEW f, f = Head(ahead), NEW rest, rest = Tail(ahead)
  PROVE  ComesNext(acc, arr, p, ahead, f, rest)
<1>1. /\ f \in Fragment /\ rest \in Seq(Fragment) /\ ToSet(ahead) = {f} \union ToSet(rest)
      /\ Pairs(ahead) = Pairs(rest) \union ({f} \X ToSet(rest))
  BY FirstFragment
<1>2. /\ NoRepeats(acc) /\ ToSet(ahead) \subseteq FragmentsOf(acc) /\ Pairs(ahead) \subseteq FragmentOrder(acc)
      /\ \A d \in ToSet(arr) : \A g \in ToSet(ahead) : <<d, g.event>> \in Pairs(acc)
  BY DEF Follows
<1>3. \A g \in ToSet(rest) : <<f, g>> \in FragmentOrder(acc)
  BY <1>1, <1>2
<1>4. \A g \in ToSet(rest) : <<f.event, g.event>> \in Pairs(acc) \/ (f.event = g.event /\ f.index < g.index)
  BY <1>3, FragmentsInOrder
<1>5. /\ \A x : <<x, x>> \notin Pairs(acc)
      /\ \A x, y : <<x, y>> \in Pairs(acc) => <<y, x>> \notin Pairs(acc)
  BY <1>2, StrictOrder
<1>6. /\ f \in FragmentsOf(acc) /\ f.event \in Event /\ f.index \in Nat /\ f.index < Parts[f.event]
      /\ Parts[f.event] \in Nat
  <2>1. f \in FragmentsOf(acc)
    BY <1>1, <1>2
  <2> QED BY <1>1, <2>1, FragmentFields, SomeParts DEF FragmentsOf
<1>7. /\ p # None => Joins(acc, arr, p, ahead)
      /\ \A g \in Held(p, ahead) : AllFragments(g.event) \subseteq Held(p, ahead)
  BY DEF Keeps
<1>8. f \in Held(p, ahead)
  BY <1>1 DEF Held
<1>9. ASSUME p # None
      PROVE  /\ p \in Fragment /\ p.event \in Event /\ p.index \in Nat /\ p.index > 0 /\ p.index < Parts[p.event]
             /\ \A g : g \in ToSet(Begun(p)) <=> g \in Fragment /\ g.event = p.event /\ g.index < p.index
             /\ \A g \in ToSet(ahead) : \/ <<p.event, g.event>> \in Pairs(acc)
                                        \/ g.event = p.event /\ g.index >= p.index
  <2>1. p \in Fragment
    BY <1>9
  <2>2. p.event \in Event /\ p.index \in Nat /\ Parts[p.event] \in Nat
    BY <2>1, FragmentFields, SomeParts
  <2>3. /\ p.index > 0 /\ p.index < Parts[p.event]
        /\ \A g \in ToSet(ahead) : <<p.event, g.event>> \in Pairs(acc) \/ (g.event = p.event /\ g.index >= p.index)
    BY <1>7, <1>9 DEF Joins
  <2>4. p.index <= Parts[p.event]
    BY <2>2, <2>3
  <2>5. \A g : g \in ToSet(Begun(p)) <=> g \in Fragment /\ g.event = p.event /\ g.index < p.index
    BY <2>1, <2>4, BegunIs
  <2> QED BY <2>1, <2>2, <2>3, <2>5
<1>10. ASSUME f.index > 0 PROVE p # None /\ f.event = p.event /\ f.index = p.index
  <2>0. PICK e, i : e = f.event /\ i = f.index - 1 /\ e \in Event /\ i \in Nat
    BY <1>6, <1>10
  <2>10. PICK g : g = [event |-> e, index |-> i]
    OBVIOUS
  <2>11. g \in Fragment /\ g.event = e /\ g.index = i
    BY <2>0, <2>10, AFragment
  <2>1. g \in Fragment /\ g.event = f.event /\ g.index = f.index - 1
    BY <2>0, <2>11
  <2>2. g \in AllFragments(f.event)
    BY <1>6, <1>10, <2>1, OfAnEvent
  <2>3. g \in Held(p, ahead)
    BY <1>7, <1>8, <2>2
  <2>4. g \notin ToSet(ahead)
    <3>1. g # f
      BY <1>6, <2>1
    <3>2. g \notin ToSet(rest)
      <4>1. ~(f.index < g.index)
        BY <1>6, <2>1
      <4>2. <<f.event, g.event>> \notin Pairs(acc)
        BY <1>5, <2>1
      <4> QED BY <1>4, <4>1, <4>2
    <3> QED BY <1>1, <3>1, <3>2
  <2>5. g \in ToSet(Begun(p))
    BY <2>3, <2>4 DEF Held
  <2>6. p # None
    BY <2>5, NothingJoined
  <2>7. p.event = f.event /\ f.index - 1 < p.index /\ p.index \in Nat
    BY <1>9, <2>1, <2>5, <2>6
  <2>8. f.index >= p.index
    BY <1>1, <1>5, <1>9, <2>6, <2>7
  <2> QED BY <1>6, <2>6, <2>7, <2>8
<1>11. ASSUME f.index = 0, p # None PROVE FALSE
  <2>1. <<p.event, f.event>> \in Pairs(acc)
    BY <1>1, <1>9, <1>11
  <2>0. PICK e, i : e = p.event /\ i = 0 /\ e \in Event /\ i \in Nat
    BY <1>9, <1>11
  <2>10. PICK g : g = [event |-> e, index |-> i]
    OBVIOUS
  <2>11. g \in Fragment /\ g.event = e /\ g.index = i
    BY <2>0, <2>10, AFragment
  <2>2. g \in Fragment /\ g.event = p.event /\ g.index = 0
    BY <2>0, <2>11
  <2>3. g \in Held(p, ahead)
    BY <1>9, <1>11, <2>2 DEF Held
  <2>4. p \in AllFragments(p.event)
    BY <1>9, <1>11, OfAnEvent
  <2>5. p \in Held(p, ahead)
    BY <1>7, <2>2, <2>3, <2>4
  <2>6. p \in ToSet(ahead)
    <3>1. ~(p.index < p.index)
      BY <1>9, <1>11
    <3>2. p \notin ToSet(Begun(p))
      BY <1>9, <1>11, <3>1
    <3> QED BY <2>5, <3>2 DEF Held
  <2>7. p # f
    BY <1>9, <1>11
  <2>8. <<f.event, p.event>> \in Pairs(acc) \/ f.event = p.event
    BY <1>1, <1>4, <2>6, <2>7
  <2> QED BY <1>5, <2>1, <2>8
<1>12. ASSUME NEW g
       PROVE  g \in ToSet(Begun(p)) <=> g \in Fragment /\ g.event = f.event /\ g.index < f.index
  <2>1. CASE f.index > 0
    BY <1>9, <1>10, <2>1
  <2>2. CASE f.index = 0
    <3>1. ToSet(Begun(p)) = {}
      BY <1>11, <2>2, NothingJoined
    <3>2. ~(g \in Fragment /\ g.index < 0)
      <4>1. g \in Fragment => g.index \in Nat
        BY FragmentFields
      <4> QED BY <4>1
    <3> QED BY <2>2, <3>1, <3>2
  <2> QED BY <1>6, <2>1, <2>2
<1>13. ASSUME NEW g
       PROVE  g \in Held(p, ahead) <=> g \in ToSet(rest) \/ (g \in Fragment /\ g.event = f.event /\ g.index <= f.index)
  <2>1. g \in Held(p, ahead) <=> g \in ToSet(Begun(p)) \/ g = f \/ g \in ToSet(rest)
    BY <1>1 DEF Held
  <2>2. g = f <=> g \in Fragment /\ g.event = f.event /\ g.index = f.index
    BY <1>1, FragmentFields
  <2>3. g \in Fragment => g.index \in Nat
    BY FragmentFields
  <2> QED BY <1>6, <1>12, <2>1, <2>2, <2>3
<1>14. ToSet(rest) \subseteq FragmentsOf(acc) /\ (\A e \in ToSet(arr) : <<e, f.event>> \in Pairs(acc)) /\ f \in ToSet(ahead)
  BY <1>1, <1>2
<1> QED BY <1>1, <1>4, <1>6, <1>10, <1>11, <1>13, <1>14 DEF ComesNext

\* One more fragment of the event the receiver is joining.
LEMMA KeepsJoining ==
  ASSUME NEW acc \in Seq(Event), NEW arr \in Seq(Event), NEW p \in Fragment \union {None},
         NEW ahead \in Seq(Fragment), ahead # <<>>, Follows(acc, arr, ahead), Keeps(acc, arr, p, ahead),
         NEW f, f = Head(ahead), f.index + 1 # Parts[f.event]
  PROVE  Keeps(acc, arr, [event |-> f.event, index |-> f.index + 1], Tail(ahead))
<1>1. PICK rest : rest = Tail(ahead)
  OBVIOUS
<1>2. /\ f \in FragmentsOf(acc) /\ rest \in Seq(Fragment) /\ f \in ToSet(ahead)
      /\ \A g : g \in Held(p, ahead) <=>
            g \in ToSet(rest) \/ (g \in Fragment /\ g.event = f.event /\ g.index <= f.index)
      /\ \A g \in ToSet(rest) : <<f.event, g.event>> \in Pairs(acc) \/ (f.event = g.event /\ f.index < g.index)
      /\ ToSet(rest) \subseteq FragmentsOf(acc)
      /\ \A e \in ToSet(arr) : <<e, f.event>> \in Pairs(acc)
  <2>1. ComesNext(acc, arr, p, ahead, f, rest)
    BY <1>1, NextIsExpected
  <2> QED BY <2>1 DEF ComesNext
<1>3. /\ f \in Fragment /\ f.event \in ToSet(acc) /\ f.event \in Event /\ f.index \in Nat
      /\ f.index < Parts[f.event] /\ Parts[f.event] \in Nat
  <2>1. f \in Fragment /\ f.event \in ToSet(acc) /\ f.index < Parts[f.event]
    BY <1>2 DEF FragmentsOf
  <2> QED BY <2>1, FragmentFields, SomeParts
<1>4. PICK q : /\ q = [event |-> f.event, index |-> f.index + 1] /\ q \in Fragment
               /\ q.event = f.event /\ q.index = f.index + 1
  <2>1. PICK e, i : e = f.event /\ i = f.index + 1 /\ e \in Event /\ i \in Nat
    BY <1>3
  <2>2. PICK q : q = [event |-> e, index |-> i]
    OBVIOUS
  <2>3. q \in Fragment /\ q.event = e /\ q.index = i
    BY <2>1, <2>2, AFragment
  <2> QED BY <2>1, <2>2, <2>3
<1>5. q.index > 0 /\ q.index < Parts[q.event] /\ q.index <= Parts[q.event]
  BY <1>3, <1>4
<1>6. \A g \in ToSet(rest) : <<q.event, g.event>> \in Pairs(acc) \/ (g.event = q.event /\ g.index >= q.index)
  <2>1. \A g \in ToSet(rest) : g.index \in Nat
    BY <1>2, FragmentFields DEF FragmentsOf
  <2> QED BY <1>2, <1>3, <1>4, <2>1
<1>7. Joins(acc, arr, q, rest)
  BY <1>2, <1>3, <1>4, <1>5, <1>6 DEF Joins
<1>8. ASSUME NEW g PROVE g \in Held(q, rest) <=> g \in Held(p, ahead)
  <2>1. g \in Held(q, rest) <=> (g \in Fragment /\ g.event = q.event /\ g.index < q.index) \/ g \in ToSet(rest)
    BY <1>4, <1>5, BegunIs DEF Held
  <2>2. g \in Fragment => g.index \in Nat
    BY FragmentFields
  <2> QED BY <1>2, <1>3, <1>4, <2>1, <2>2
<1>9. Held(q, rest) = Held(p, ahead)
  BY <1>8
<1>10. Keeps(acc, arr, q, rest)
  BY <1>7, <1>9 DEF Keeps
<1> QED BY <1>1, <1>4, <1>10

\* The last one: the event is at the client.
LEMMA KeepsArrival ==
  ASSUME NEW acc \in Seq(Event), NEW arr \in Seq(Event), NEW p \in Fragment \union {None},
         NEW ahead \in Seq(Fragment), ahead # <<>>, Follows(acc, arr, ahead), Keeps(acc, arr, p, ahead),
         NEW f, f = Head(ahead), f.index + 1 = Parts[f.event]
  PROVE  Keeps(acc, Append(arr, f.event), None, Tail(ahead))
<1>1. PICK rest : rest = Tail(ahead)
  OBVIOUS
<1>2. /\ f \in FragmentsOf(acc) /\ rest \in Seq(Fragment)
      /\ \A g : g \in Held(p, ahead) <=>
            g \in ToSet(rest) \/ (g \in Fragment /\ g.event = f.event /\ g.index <= f.index)
      /\ \A g \in ToSet(rest) : <<f.event, g.event>> \in Pairs(acc) \/ (f.event = g.event /\ f.index < g.index)
      /\ ToSet(rest) \subseteq FragmentsOf(acc)
  <2>1. ComesNext(acc, arr, p, ahead, f, rest)
    BY <1>1, NextIsExpected
  <2> QED BY <2>1 DEF ComesNext
<1>3. f.event \in Event /\ f.index \in Nat
  BY <1>2, FragmentFields DEF FragmentsOf
<1>4. PICK arr2 : arr2 = Append(arr, f.event) /\ ToSet(arr2) = ToSet(arr) \union {f.event}
  <2>1. PICK e : e = f.event /\ e \in Event
    BY <1>3
  <2>2. ToSet(Append(arr, e)) = ToSet(arr) \union {e}
    BY <2>1, EventAppended
  <2> QED BY <2>1, <2>2
<1>5. Held(None, rest) = ToSet(rest)
  BY NothingJoined DEF Held
<1>6. ASSUME NEW g \in ToSet(rest) PROVE g.event # f.event
  <2>1. NoRepeats(acc)
    BY DEF Follows
  <2>2. <<f.event, f.event>> \notin Pairs(acc)
    BY <2>1, StrictOrder
  <2>3. g.index < Parts[g.event] /\ g.index \in Nat
    BY <1>2, FragmentFields DEF FragmentsOf
  <2>4. ~(f.event = g.event /\ f.index < g.index)
    BY <1>3, <2>3
  <2> QED BY <1>2, <2>2, <2>4
<1>7. ASSUME NEW e \in Event, e # f.event, AllFragments(e) \subseteq Held(p, ahead)
      PROVE  AllFragments(e) \subseteq ToSet(rest)
  BY <1>2, <1>7, OfAnEvent
<1>8. ASSUME NEW g \in ToSet(rest) PROVE AllFragments(g.event) \subseteq ToSet(rest)
  <2>1. g \in Held(p, ahead)
    BY <1>2
  <2>2. AllFragments(g.event) \subseteq Held(p, ahead)
    BY <2>1 DEF Keeps
  <2>3. g.event \in Event
    BY <1>2, FragmentFields DEF FragmentsOf
  <2> QED BY <1>6, <1>7, <2>2, <2>3
<1>9. ASSUME NEW e \in ToSet(acc) \ Rejected PROVE e \in ToSet(arr2) \/ AllFragments(e) \subseteq ToSet(rest)
  <2>1. e \in ToSet(arr) \/ AllFragments(e) \subseteq Held(p, ahead)
    BY DEF Keeps
  <2>2. e \in Event
    <3>1. \E i : i \in DOMAIN acc /\ e = acc[i]
      BY EntriesAre
    <3> QED BY <3>1, LenProperties, ElementOfSeq
  <2> QED BY <1>4, <1>7, <2>1, <2>2
<1>10. Keeps(acc, arr2, None, rest)
  BY <1>5, <1>8, <1>9 DEF Keeps
<1> QED BY <1>1, <1>4, <1>10

-----------------------------------------------------------------------------
(* Finite sets of events *)

LEMMA FiniteList ==
  \A S, s : s \in Seq(S) => IsFiniteSet(ToSet(s)) /\ ToSet(s) \subseteq S
<1>1. ASSUME NEW S, NEW s, s \in Seq(S) PROVE IsFiniteSet(ToSet(s)) /\ ToSet(s) \subseteq S
  <2>1. PICK n : n \in Nat /\ DOMAIN s = 1..n /\ s \in [1..n -> S]
    BY <1>1, LenProperties
  <2>2. PICK T : T = ToSet(s) /\ \A x : x \in T <=> \E i : i \in DOMAIN s /\ x = s[i]
    BY EntriesAre
  <2>3. s \in [1..n -> T]
    BY <2>1, <2>2
  <2>4. \A x \in T : \E i \in 1..n : s[i] = x
    BY <2>1, <2>2
  <2>5. PICK I : I = 1..n /\ IsFiniteSet(I)
    <3>1. PICK k \in Int : k = n
      BY <2>1
    <3>2. IsFiniteSet(1..k)
      BY FS_Interval
    <3> QED BY <3>1, <3>2
  <2>6. s \in Surjection(I, T)
    BY <2>3, <2>4, <2>5 DEF Surjection
  <2>7. IsFiniteSet(T)
    BY <2>5, <2>6, FS_Surjection
  <2>8. T \subseteq S
    BY <2>1, <2>2
  <2> QED BY <2>2, <2>7, <2>8
<1> QED BY <1>1

LEMMA FiniteOverUsers ==
  ASSUME NEW f, f \in [User -> SUBSET Event], \A u \in User : IsFiniteSet(f[u])
  PROVE  IsFiniteSet(UNION {f[u] : u \in User}) /\ UNION {f[u] : u \in User} \subseteq Event
<1>1. PICK T : T = {f[u] : u \in User}
  OBVIOUS
<1>2. f \in Surjection(User, T)
  <2>1. f \in [User -> T]
    BY <1>1
  <2>2. \A x \in T : \E u \in User : f[u] = x
    BY <1>1
  <2> QED BY <2>1, <2>2 DEF Surjection
<1>3. IsFiniteSet(T)
  BY <1>2, FS_Surjection, RelayAssumption
<1>4. \A x \in T : IsFiniteSet(x)
  BY <1>1
<1>5. IsFiniteSet(UNION T)
  BY <1>3, <1>4, FS_UNION
<1>6. UNION T \subseteq Event
  BY <1>1
<1> QED BY <1>1, <1>5, <1>6

LEMMA SomeRemote == \A r \in Request : \A u \in User : Remote[r][u] \in Seq(Event)
BY RelayAssumption

LEMMA FiniteCarried ==
  ASSUME NEW r \in Request PROVE IsFiniteSet(Carried(r)) /\ Carried(r) \subseteq Event
<1>1. PICK f : f = [u \in User |-> ToSet(Remote[r][u])]
  OBVIOUS
<1>2. \A u \in User : f[u] = ToSet(Remote[r][u]) /\ IsFiniteSet(f[u]) /\ f[u] \subseteq Event
  BY <1>1, SomeRemote, FiniteList
<1>3. f \in [User -> SUBSET Event]
  BY <1>1, <1>2
<1>4. UNION {f[u] : u \in User} = Carried(r)
  BY <1>2 DEF Carried
<1> QED BY <1>2, <1>3, <1>4, FiniteOverUsers

LEMMA EventsAre == \A s, e : e \in EventsIn(s) <=> \E f \in ToSet(s) : e = f.event
BY EntriesAre DEF EventsIn

LEMMA FiniteEvents ==
  ASSUME NEW s, s \in Seq(Fragment)
  PROVE  IsFiniteSet(EventsIn(s)) /\ EventsIn(s) \subseteq Event
<1>1. PICK n : n \in Nat /\ DOMAIN s = 1..n /\ s \in [1..n -> Fragment]
  BY LenProperties
<1>2. PICK es : es = [i \in 1..n |-> s[i].event]
  OBVIOUS
<1>3. \A i \in 1..n : s[i].event \in Event
  BY <1>1, FragmentFields
<1>4. es \in [1..n -> Event]
  BY <1>2, <1>3
<1>5. es \in Seq(Event)
  BY <1>1, <1>4, AList
<1>6. DOMAIN es = 1..n /\ \A i \in 1..n : es[i] = s[i].event
  BY <1>2
<1>7. ToSet(es) = EventsIn(s)
  <2>1. \A e : e \in ToSet(es) <=> \E i : i \in DOMAIN es /\ e = es[i]
    BY EntriesAre
  <2>2. \A e : e \in EventsIn(s) <=> \E i : i \in DOMAIN s /\ e = s[i].event
    BY DEF EventsIn
  <2>3. DOMAIN es = DOMAIN s /\ \A i \in DOMAIN s : es[i] = s[i].event
    BY <1>1, <1>6, Zenon
  <2>4. ASSUME NEW e PROVE e \in ToSet(es) <=> e \in EventsIn(s)
    <3>1. (\E i : i \in DOMAIN es /\ e = es[i]) <=> \E i : i \in DOMAIN s /\ e = s[i].event
      BY <2>3
    <3> QED BY <2>1, <2>2, <3>1
  <2> QED BY <2>4, Zenon
<1> QED BY <1>5, <1>7, FiniteList

LEMMA FiniteQueued ==
  \A p \in [User -> Seq(Fragment)] :
      /\ IsFiniteSet(UNION {EventsIn(p[u]) : u \in User})
      /\ UNION {EventsIn(p[u]) : u \in User} \subseteq Event
<1>1. ASSUME NEW p \in [User -> Seq(Fragment)]
      PROVE  /\ IsFiniteSet(UNION {EventsIn(p[u]) : u \in User})
             /\ UNION {EventsIn(p[u]) : u \in User} \subseteq Event
  <2>1. PICK f : f = [u \in User |-> EventsIn(p[u])]
    OBVIOUS
  <2>2. \A u \in User : f[u] = EventsIn(p[u]) /\ IsFiniteSet(f[u]) /\ f[u] \subseteq Event
    <3>1. \A u \in User : p[u] \in Seq(Fragment)
      OBVIOUS
    <3> QED BY <2>1, <3>1, FiniteEvents
  <2>3. f \in [User -> SUBSET Event]
    BY <2>1, <2>2
  <2>4. {f[u] : u \in User} = {EventsIn(p[u]) : u \in User}
    BY <2>2
  <2> QED BY <2>2, <2>3, <2>4, FiniteOverUsers
<1> QED BY <1>1

\* The bytes of finite sets of events.
LEMMA SomeBytes ==
  \A S : S \subseteq Event /\ IsFiniteSet(S) => Bytes(S) \in Nat /\ Cardinality(S) \in Nat
<1>1. Parts \in [Event -> Nat]
  BY RelayAssumption
<1>2. ASSUME NEW S, S \subseteq Event, IsFiniteSet(S) PROVE Bytes(S) \in Nat /\ Cardinality(S) \in Nat
  <2>1. S \in SUBSET Event
    BY <1>2
  <2> QED BY <1>1, <1>2, <2>1, WeightIsNat, FS_CardinalityType DEF Bytes
<1> QED BY <1>2

LEMMA BytesOfBoth ==
  \A S, T : S \subseteq Event /\ IsFiniteSet(S) /\ T \subseteq Event /\ IsFiniteSet(T) /\ S \cap T = {} =>
      /\ Bytes(S \union T) = Bytes(S) + Bytes(T)
      /\ Cardinality(S \union T) = Cardinality(S) + Cardinality(T)
<1>1. Parts \in [Event -> Nat]
  BY RelayAssumption
<1>2. ASSUME NEW S, NEW T, S \subseteq Event, IsFiniteSet(S), T \subseteq Event, IsFiniteSet(T), S \cap T = {}
      PROVE  /\ Bytes(S \union T) = Bytes(S) + Bytes(T)
             /\ Cardinality(S \union T) = Cardinality(S) + Cardinality(T)
  <2>1. S \in SUBSET Event /\ T \in SUBSET Event
    BY <1>2
  <2>2. Weight(Parts, S \union T) = Weight(Parts, S) + Weight(Parts, T)
    BY <1>1, <1>2, <2>1, WeightOfBoth
  <2>3. Cardinality(S \union T) = Cardinality(S) + Cardinality(T) - Cardinality(S \cap T)
    BY <1>2, FS_Union
  <2>4. Cardinality(S \cap T) = 0 /\ Cardinality(S) \in Nat /\ Cardinality(T) \in Nat
    BY <1>2, FS_EmptySet, FS_CardinalityType
  <2>5. Cardinality(S \union T) = Cardinality(S) + Cardinality(T)
    BY <2>3, <2>4
  <2> QED BY <2>2, <2>5 DEF Bytes
<1> QED BY <1>2

LEMMA BytesOfRest ==
  \A S, T : S \subseteq Event /\ IsFiniteSet(S) /\ T \subseteq S => Bytes(S) - Bytes(S \ T) = Bytes(T)
<1>1. Parts \in [Event -> Nat]
  BY RelayAssumption
<1>2. ASSUME NEW S, NEW T, S \subseteq Event, IsFiniteSet(S), T \subseteq S
      PROVE  Bytes(S) - Bytes(S \ T) = Bytes(T)
  <2>1. S \in SUBSET Event /\ T \in SUBSET S
    BY <1>2
  <2> QED BY <1>1, <1>2, <2>1, WeightOfRest DEF Bytes
<1> QED BY <1>2

-----------------------------------------------------------------------------
(* Types *)

Shapes ==
    /\ accepting \in BOOLEAN /\ closed \in BOOLEAN /\ stored \in BOOLEAN
    /\ busy \in Request \union {None}
    /\ verdict \in [Request -> {"new", "retry", "refused", "done"}]
    /\ pending \in [User -> Seq(Fragment)]
    /\ conn \in [User -> {"gone", "loading", "active"}]
    /\ channel \in [User -> Seq(Fragment)]
    /\ partial \in [User -> Fragment \union {None}]
    /\ inbox \in [User -> Seq(Event)]
    /\ batch \in [User -> Seq(Event)]
    /\ handled \in [User -> Seq(Event)]
    /\ accepted \in [User -> Seq(Event)]
    /\ excused \in [User -> BOOLEAN]
    /\ locally \in SUBSET Request
    /\ disturbances \in 0..MaxDisturbances

LEMMA LeastOfTwo ==
  \A a, b : a \in Nat /\ b \in Nat => Min({a, b}) \in {a, b} /\ Min({a, b}) <= a /\ Min({a, b}) <= b
<1>1. ASSUME NEW a, NEW b, a \in Nat, b \in Nat
      PROVE  Min({a, b}) \in {a, b} /\ Min({a, b}) <= a /\ Min({a, b}) <= b
  <2>1. \E x \in {a, b} : \A y \in {a, b} : x <= y
    BY <1>1
  <2>2. Min({a, b}) \in {a, b} /\ \A y \in {a, b} : Min({a, b}) <= y
    BY <2>1 DEF Min
  <2> QED BY <2>2
<1> QED BY <1>1

\* A frame takes a player's queue apart without losing anything of it.
LEMMA Handing ==
  ASSUME Shapes, NEW u \in User
  PROVE  /\ Selected(u) \in Seq(Fragment) /\ Unselected(u) \in Seq(Fragment)
         /\ Selected(u) \o Unselected(u) = pending[u]
<1>1. PICK s, c : s = pending[u] /\ c = channel[u] /\ s \in Seq(Fragment) /\ c \in Seq(Fragment)
  BY DEF Shapes
<1>2. Len(s) \in Nat /\ Len(c) \in Nat /\ Backlog \in Nat /\ FrameParts \in Nat
  BY <1>1, LenProperties, RelayAssumption
<1>3. Allowance(u) \in Nat
  <2>1. CASE Len(c) < Backlog
    <3>1. Backlog - Len(c) \in Nat
      BY <1>2, <2>1
    <3>2. Min({FrameParts, Backlog - Len(c)}) \in {FrameParts, Backlog - Len(c)}
      BY <1>2, <3>1, LeastOfTwo
    <3> QED BY <1>1, <1>2, <3>1, <3>2 DEF Allowance
  <2>2. CASE ~(Len(c) < Backlog)
    BY <1>1, <2>2 DEF Allowance
  <2> QED BY <2>1, <2>2
<1>4. PICK k : k = Min({Allowance(u), Len(s)}) /\ k \in 0..Len(s)
  <2>1. Min({Allowance(u), Len(s)}) \in {Allowance(u), Len(s)} /\ Min({Allowance(u), Len(s)}) <= Len(s)
    BY <1>2, <1>3, LeastOfTwo
  <2> QED BY <1>2, <1>3, <2>1
<1>5. /\ SubSeq(s, 1, k) \in Seq(Fragment) /\ Len(SubSeq(s, 1, k)) = k
      /\ SubSeq(s, k + 1, Len(s)) \in Seq(Fragment)
      /\ SubSeq(s, 1, k) \o SubSeq(s, k + 1, Len(s)) = s
  BY <1>1, <1>4, FragmentsCut
<1>6. Selected(u) = SubSeq(s, 1, k)
  BY <1>1, <1>4 DEF Selected
<1>7. Unselected(u) = SubSeq(s, k + 1, Len(s))
  BY <1>1, <1>5, <1>6 DEF Unselected
<1> QED BY <1>1, <1>5, <1>6, <1>7

\* So does the taking of a batch.
LEMMA Batching ==
  ASSUME Shapes, NEW u \in User, inbox[u] # <<>>, NEW n, n = Min({BatchSize, Len(inbox[u])})
  PROVE  /\ SubSeq(inbox[u], 1, n) \in Seq(Event) /\ SubSeq(inbox[u], n + 1, Len(inbox[u])) \in Seq(Event)
         /\ SubSeq(inbox[u], 1, n) \o SubSeq(inbox[u], n + 1, Len(inbox[u])) = inbox[u]
<1>1. PICK s : s = inbox[u] /\ s \in Seq(Event)
  BY DEF Shapes
<1>2. Len(s) \in Nat /\ BatchSize \in Nat
  BY <1>1, LenProperties, RelayAssumption
<1>3. n \in {BatchSize, Len(s)} /\ n <= Len(s)
  BY <1>1, <1>2, LeastOfTwo
<1>4. n \in 0..Len(s)
  BY <1>2, <1>3
<1> QED BY <1>1, <1>4, EventsCut

LEMMA Sending ==
  ASSUME Shapes, NEW u \in User, channel[u] # <<>>, NEW f, f = Head(channel[u])
  PROVE  /\ f \in Fragment /\ Tail(channel[u]) \in Seq(Fragment)
         /\ f.event \in Event /\ f.index \in Nat /\ f.index + 1 \in Nat
         /\ [event |-> f.event, index |-> f.index + 1] \in Fragment
<1>1. PICK s : s = channel[u] /\ s \in Seq(Fragment) /\ s # <<>>
  BY DEF Shapes
<1>2. f \in Fragment /\ Tail(s) \in Seq(Fragment)
  BY <1>1, FirstFragment
<1>3. f.event \in Event /\ f.index \in Nat /\ f.index + 1 \in Nat
  BY <1>2, FragmentFields
<1>4. PICK e, i : e = f.event /\ i = f.index + 1 /\ e \in Event /\ i \in Nat
  BY <1>3
<1>5. [event |-> e, index |-> i] \in Fragment
  BY <1>4, AFragment
<1> QED BY <1>1, <1>2, <1>3, <1>4, <1>5

LEMMA StepShapes == ASSUME Shapes, [Next]_vars PROVE Shapes'
<1> USE DEF serverVars, clientVars
<1>1. ASSUME NEW r \in Request, ServerStep(r) PROVE Shapes'
  <2>1. CASE Refuse(r)
    BY <2>1 DEF Refuse, Answer, Shapes
  <2>2. CASE TurnAway(r)
    BY <2>2 DEF TurnAway, StoredWhenTurnedAway, Answer, Shapes
  <2>3. CASE Reserve(r)
    BY <2>3 DEF Reserve, Shapes
  <2>4. CASE StoreLocal(r)
    BY <2>4 DEF StoreLocal, Shapes
  <2>5. CASE StoreFails(r)
    BY <2>5 DEF StoreFails, Answer, Shapes
  <2>6. CASE Publish(r)
    <3>1. ASSUME NEW u \in User
          PROVE  pending[u] \o ChunksOf(Remote[r][u]) \in Seq(Fragment) /\ accepted[u] \o Remote[r][u] \in Seq(Event)
      <4>1. Remote[r][u] \in Seq(Event) /\ pending[u] \in Seq(Fragment) /\ accepted[u] \in Seq(Event)
        BY SomeRemote DEF Shapes
      <4>2. ChunksOf(Remote[r][u]) \in Seq(Fragment)
        BY <4>1, FragmentsOfList
      <4> QED BY <4>1, <4>2, FragmentLists, EventLists
    <3>2. pending' \in [User -> Seq(Fragment)]
      BY <2>6, <3>1 DEF Publish
    <3>3. accepted' \in [User -> Seq(Event)]
      BY <2>6, <3>1 DEF Publish
    <3> QED BY <2>6, <3>2, <3>3 DEF Publish, Answer, Shapes
  <2> QED BY <1>1, <2>1, <2>2, <2>3, <2>4, <2>5, <2>6 DEF ServerStep
<1>2. CASE Frame
  <2>1. ASSUME NEW u \in User
        PROVE  /\ (IF conn[u] = "gone" THEN <<>> ELSE Unselected(u)) \in Seq(Fragment)
               /\ channel[u] \o Selected(u) \in Seq(Fragment)
    <3>1. Selected(u) \in Seq(Fragment) /\ Unselected(u) \in Seq(Fragment) /\ channel[u] \in Seq(Fragment)
      BY Handing DEF Shapes
    <3> QED BY <3>1, FragmentLists
  <2>2. pending' \in [User -> Seq(Fragment)]
    BY <1>2, <2>1 DEF Frame
  <2>3. channel' \in [User -> Seq(Fragment)]
    BY <1>2, <2>1 DEF Frame
  <2> QED BY <1>2, <2>2, <2>3 DEF Frame, Shapes
<1>3. CASE StopAccepting
  BY <1>3 DEF StopAccepting, Shapes
<1>4. CASE Clear
  BY <1>4 DEF Clear, Shapes
<1>5. ASSUME NEW u \in User, ClientStep(u) PROVE Shapes'
  <2>1. CASE Deliver(u)
    <3>1. PICK f : f = Head(channel[u])
      OBVIOUS
    <3>2. /\ f \in Fragment /\ Tail(channel[u]) \in Seq(Fragment)
          /\ f.event \in Event /\ [event |-> f.event, index |-> f.index + 1] \in Fragment
      BY <2>1, <3>1, Sending DEF Deliver
    <3>3. channel' \in [User -> Seq(Fragment)]
      BY <2>1, <3>2 DEF Deliver, Shapes
    <3>4. Append(inbox[u], f.event) \in Seq(Event)
      <4>1. inbox[u] \in Seq(Event)
        BY DEF Shapes
      <4> QED BY <3>2, <4>1, EventAppended
    <3>5. excused' \in [User -> BOOLEAN]
      BY <2>1 DEF Deliver, Shapes
    <3>6. /\ \/ inbox' = inbox \/ inbox' = [inbox EXCEPT ![u] = Append(@, f.event)]
          /\ \/ partial' = partial \/ partial' = [partial EXCEPT ![u] = None]
             \/ partial' = [partial EXCEPT ![u] = [event |-> f.event, index |-> f.index + 1]]
      BY <2>1, <3>1 DEF Deliver
    <3>7. inbox' \in [User -> Seq(Event)]
      BY <3>4, <3>6 DEF Shapes
    <3>8. partial' \in [User -> Fragment \union {None}]
      <4>1. PICK g : g = [event |-> f.event, index |-> f.index + 1] /\ g \in Fragment
        BY <3>2, Zenon
      <4>2. partial \in [User -> Fragment \union {None}]
        BY Zenon DEF Shapes
      <4>3. partial' = partial \/ \E h \in {None, g} : partial' = [partial EXCEPT ![u] = h]
        BY <3>6, <4>1, Zenon
      <4> QED BY <4>1, <4>2, <4>3
    <3> QED BY <2>1, <3>3, <3>5, <3>7, <3>8 DEF Deliver, Shapes
  <2>2. CASE TakeBatch(u)
    <3>1. PICK n : n = Min({BatchSize, Len(inbox[u])})
      OBVIOUS
    <3>2. SubSeq(inbox[u], 1, n) \in Seq(Event) /\ SubSeq(inbox[u], n + 1, Len(inbox[u])) \in Seq(Event)
      BY <2>2, <3>1, Batching DEF TakeBatch
    <3>3. batch' \in [User -> Seq(Event)] /\ inbox' \in [User -> Seq(Event)]
      BY <2>2, <3>1, <3>2 DEF TakeBatch, Shapes
    <3> QED BY <2>2, <3>3 DEF TakeBatch, Shapes
  <2>3. CASE CommitBatch(u)
    <3>1. batch[u] \in Seq(Event) /\ handled[u] \in Seq(Event)
      BY DEF Shapes
    <3>2. Applicable(batch[u]) \in Seq(Event)
      BY <3>1, ApplicableOfList
    <3>3. handled[u] \o Applicable(batch[u]) \in Seq(Event)
      BY <3>1, <3>2, EventLists
    <3>4. handled' \in [User -> Seq(Event)]
      BY <2>3, <3>3 DEF CommitBatch, Shapes
    <3>5. batch' \in [User -> Seq(Event)]
      BY <2>3 DEF CommitBatch, Shapes
    <3> QED BY <2>3, <3>4, <3>5 DEF CommitBatch, Shapes
  <2>4. CASE CommitFails(u)
    <3>1. batch[u] \in Seq(Event)
      BY DEF Shapes
    <3>2. Applicable(batch[u]) \in Seq(Event)
      BY <3>1, ApplicableOfList
    <3>3. batch' \in [User -> Seq(Event)] /\ inbox' \in [User -> Seq(Event)]
      BY <2>4, <3>2 DEF CommitFails, InboxAfterFailure, Shapes
    <3> QED BY <2>4, <3>3 DEF CommitFails, Shapes
  <2> QED BY <1>5, <2>1, <2>2, <2>3, <2>4 DEF ClientStep
<1>6. ASSUME NEW u \in User, Disturb PROVE disturbances' \in 0..MaxDisturbances
  BY <1>6, RelayAssumption DEF Disturb, Shapes
<1>7. ASSUME NEW u \in User, Disconnect(u) PROVE Shapes'
  BY <1>6, <1>7 DEF Disconnect, Shapes
<1>8. ASSUME NEW u \in User, Restart(u) PROVE Shapes'
  BY <1>6, <1>8 DEF Restart, Shapes
<1>9. ASSUME NEW u \in User, Reconnect(u) PROVE Shapes'
  BY <1>9 DEF Reconnect, Shapes
<1>10. ASSUME NEW u \in User, ChangeMap(u) PROVE Shapes'
  BY <1>6, <1>10 DEF ChangeMap, Shapes
<1>11. ASSUME NEW u \in User, Activate(u) PROVE Shapes'
  BY <1>11 DEF Activate, Shapes
<1>12. CASE UNCHANGED vars
  BY <1>12 DEF vars, Shapes
<1> QED BY <1>1, <1>2, <1>3, <1>4, <1>5, <1>7, <1>8, <1>9, <1>10, <1>11, <1>12 DEF Next

-----------------------------------------------------------------------------
(* Room *)

LEMMA QueuedAmounts ==
  ASSUME Shapes
  PROVE  IsFiniteSet(Queued) /\ Queued \subseteq Event /\ Bytes(Queued) \in Nat /\ Cardinality(Queued) \in Nat
<1>1. pending \in [User -> Seq(Fragment)]
  BY DEF Shapes
<1>2. IsFiniteSet(Queued) /\ Queued \subseteq Event
  BY <1>1, FiniteQueued DEF Queued
<1> QED BY <1>2, SomeBytes

LEMMA QueuedAmountsNext ==
  ASSUME Shapes'
  PROVE  IsFiniteSet(Queued') /\ Queued' \subseteq Event /\ Bytes(Queued') \in Nat /\ Cardinality(Queued') \in Nat
<1>1. pending' \in [User -> Seq(Fragment)]
  BY DEF Shapes
<1>2. IsFiniteSet(Queued') /\ Queued' \subseteq Event
  BY <1>1, FiniteQueued DEF Queued
<1> QED BY <1>2, SomeBytes

LEMMA CarriedAmounts == \A r \in Request : Bytes(Carried(r)) \in Nat /\ Cardinality(Carried(r)) \in Nat
BY FiniteCarried, SomeBytes

\* The numbers have their types because they count what is queued and reserved.
LEMMA NumbersNext == ASSUME Shapes', Reserving', Counting' PROVE TypeOK'
<1>1. PICK b : b = busy' /\ b \in Request \union {None}
  BY DEF Shapes
<1>2. PICK q : q = Bytes(Queued') /\ q \in Nat
  BY QueuedAmountsNext
<1>3. pendingBytes' \in Nat
  BY <1>2 DEF Counting
<1>4. reserved' \in Nat /\ reservedBytes' \in Nat
  <2>1. CASE b = None
    BY <1>1, <2>1 DEF Reserving
  <2>2. CASE b # None
    <3>1. Bytes(Carried(b)) \in Nat /\ Cardinality(Carried(b)) \in Nat
      BY <1>1, <2>2, CarriedAmounts
    <3>2. reserved' = Cardinality(Carried(b)) /\ reservedBytes' = Bytes(Carried(b))
      BY <1>1, <2>2 DEF Reserving
    <3> QED BY <3>1, <3>2
  <2> QED BY <2>1, <2>2
<1> QED BY <1>3, <1>4 DEF TypeOK, Shapes

\* An event stands in one place of what the service can answer: one request, one user,
\* one position (RelayAssumption).
LEMMA EventOccursOnce ==
  \A r, s \in Request : \A u, v \in User :
      \A i \in DOMAIN Remote[r][u], j \in DOMAIN Remote[s][v] :
          Remote[r][u][i] = Remote[s][v][j] => r = s /\ u = v /\ i = j
BY RelayAssumption

LEMMA OneOccurrence ==
  \A r, s \in Request : \A u, v \in User : \A e :
      e \in ToSet(Remote[r][u]) /\ e \in ToSet(Remote[s][v]) => r = s /\ u = v
<1>1. ASSUME NEW r \in Request, NEW s \in Request, NEW u \in User, NEW v \in User, NEW e,
             e \in ToSet(Remote[r][u]), e \in ToSet(Remote[s][v])
      PROVE  r = s /\ u = v
  <2>1. PICK i : i \in DOMAIN Remote[r][u] /\ e = Remote[r][u][i]
    BY <1>1, EntriesAre
  <2>2. PICK j : j \in DOMAIN Remote[s][v] /\ e = Remote[s][v][j]
    BY <1>1, EntriesAre
  <2>3. \A k \in DOMAIN Remote[r][u], l \in DOMAIN Remote[s][v] :
            Remote[r][u][k] = Remote[s][v][l] => r = s /\ u = v /\ k = l
    BY EventOccursOnce
  <2> QED BY <2>1, <2>2, <2>3
<1> QED BY <1>1

\* What a request adds to the queue is new there: an event is one occurrence.
LEMMA CarriedIsNew ==
  ASSUME Shapes, Origin, SOrder, NEW r \in Request, verdict[r] # "done"
  PROVE  /\ Queued \cap Carried(r) = {}
         /\ \A u \in User : \A v \in User : ToSet(accepted[u]) \cap ToSet(Remote[r][v]) = {}
<1>1. \A u \in User : \A v \in User : ToSet(accepted[u]) \cap ToSet(Remote[r][v]) = {}
  <2>1. SUFFICES ASSUME NEW u \in User, NEW v \in User, NEW e, e \in ToSet(accepted[u]), e \in ToSet(Remote[r][v])
                 PROVE FALSE
    OBVIOUS
  <2>2. PICK s : s \in Request /\ verdict[s] = "done" /\ e \in ToSet(Remote[s][u])
    BY <2>1 DEF Origin
  <2>3. r = s
    BY <2>1, <2>2, OneOccurrence
  <2> QED BY <2>2, <2>3
<1>2. Queued \cap Carried(r) = {}
  <2>1. SUFFICES ASSUME NEW e, e \in Queued, e \in Carried(r) PROVE FALSE
    OBVIOUS
  <2>2. PICK v : v \in User /\ e \in ToSet(Remote[r][v])
    BY <2>1 DEF Carried
  <2>3. PICK u : u \in User /\ e \in EventsIn(pending[u])
    BY <2>1 DEF Queued
  <2>4. PICK f : f \in ToSet(pending[u]) /\ e = f.event
    BY <2>3, EventsAre
  <2>5. PICK c, p : c = channel[u] /\ p = pending[u] /\ c \in Seq(Fragment) /\ p \in Seq(Fragment)
    BY <2>3 DEF Shapes
  <2>6. f \in ToSet(c \o p)
    BY <2>4, <2>5, FragmentLists
  <2>7. ToSet(c \o p) \subseteq FragmentsOf(accepted[u])
    BY <2>3, <2>5 DEF SOrder, Follows, Ahead
  <2>8. e \in ToSet(accepted[u])
    BY <2>4, <2>6, <2>7 DEF FragmentsOf
  <2> QED BY <1>1, <2>2, <2>3, <2>8
<1> QED BY <1>1, <1>2

LEMMA EmptyQueue == ASSUME \A u \in User : pending[u] = <<>> PROVE Queued = {}
<1>1. \A u \in User : EventsIn(pending[u]) = {}
  BY EventsAre, EmptyList
<1> QED BY <1>1 DEF Queued

LEMMA EmptyQueueNext == ASSUME \A u \in User : pending'[u] = <<>> PROVE Queued' = {}
<1>1. \A u \in User : EventsIn(pending'[u]) = {}
  BY EventsAre, EmptyList
<1> QED BY <1>1 DEF Queued

LEMMA NothingWeighs == Bytes({}) = 0 /\ Cardinality({}) = 0
BY WeightOfNone, FS_EmptySet DEF Bytes

LEMMA EventsOfBoth ==
  \A s, t : s \in Seq(Fragment) /\ t \in Seq(Fragment) => EventsIn(s \o t) = EventsIn(s) \union EventsIn(t)
BY EventsAre, FragmentLists

\* A list's fragments are of all its events: each has at least one.
LEMMA EventsOfChunks == \A es : es \in Seq(Event) => EventsIn(ChunksOf(es)) = ToSet(es)
<1>1. ASSUME NEW es, es \in Seq(Event) PROVE EventsIn(ChunksOf(es)) = ToSet(es)
  <2>1. PICK c : c = ChunksOf(es) /\ ToSet(c) = FragmentsOf(es)
    BY <1>1, FragmentsOfList
  <2>2. ASSUME NEW e, e \in EventsIn(c) PROVE e \in ToSet(es)
    BY <2>1, <2>2, EventsAre DEF FragmentsOf
  <2>3. ASSUME NEW e, e \in ToSet(es) PROVE e \in EventsIn(c)
    <3>1. e \in Event /\ Parts[e] \in Nat /\ 0 < Parts[e]
      BY <1>1, <2>3, FiniteList, SomeParts
    <3>2. PICK f : f \in Fragment /\ f.event = e /\ f.index = 0
      <4>1. [event |-> e, index |-> 0] \in Fragment
        BY <3>1, AFragment
      <4> QED BY <3>1, <4>1, AFragment
    <3>3. f \in FragmentsOf(es)
      BY <2>3, <3>1, <3>2 DEF FragmentsOf
    <3> QED BY <2>1, <3>2, <3>3, EventsAre
  <2> QED BY <2>1, <2>2, <2>3
<1> QED BY <1>1

LEMMA QueuedByPublish ==
  ASSUME Shapes, NEW r \in Request, Publish(r) PROVE Queued' = Queued \union Carried(r)
<1>1. ASSUME NEW u \in User PROVE EventsIn(pending'[u]) = EventsIn(pending[u]) \union ToSet(Remote[r][u])
  <2>1. pending[u] \in Seq(Fragment) /\ Remote[r][u] \in Seq(Event)
    BY SomeRemote DEF Shapes
  <2>2. ChunksOf(Remote[r][u]) \in Seq(Fragment) /\ EventsIn(ChunksOf(Remote[r][u])) = ToSet(Remote[r][u])
    BY <2>1, FragmentsOfList, EventsOfChunks
  <2>3. pending'[u] = pending[u] \o ChunksOf(Remote[r][u])
    BY DEF Publish
  <2> QED BY <2>1, <2>2, <2>3, EventsOfBoth
<1> QED BY <1>1 DEF Queued, Carried

LEMMA QueuedByFrame ==
  ASSUME Shapes, Frame PROVE Queued' \subseteq Queued /\ pendingBytes' = pendingBytes - Bytes(Queued \ Queued')
<1>1. PICK left : left = [u \in User |-> IF conn[u] = "gone" THEN <<>> ELSE Unselected(u)]
  OBVIOUS
<1>2. ASSUME NEW u \in User PROVE EventsIn(left[u]) \subseteq EventsIn(pending[u])
  <2>1. CASE conn[u] = "gone"
    <3>1. left[u] = <<>>
      BY <1>1, <2>1
    <3> QED BY <3>1, EventsAre, EmptyList
  <2>2. CASE conn[u] # "gone"
    <3>1. PICK s, t : s = Selected(u) /\ t = Unselected(u) /\ s \in Seq(Fragment) /\ t \in Seq(Fragment) /\ s \o t = pending[u]
      BY Handing
    <3>2. left[u] = t
      BY <1>1, <2>2, <3>1
    <3>3. EventsIn(s \o t) = EventsIn(s) \union EventsIn(t)
      BY <3>1, EventsOfBoth
    <3> QED BY <3>1, <3>2, <3>3
  <2> QED BY <2>1, <2>2
<1>3. PICK remaining : remaining = UNION {EventsIn(left[u]) : u \in User}
  OBVIOUS
<1>4. pending' = left /\ pendingBytes' = pendingBytes - Bytes(Queued \ remaining)
  BY <1>1, <1>3 DEF Frame
<1>5. Queued' = remaining
  BY <1>3, <1>4 DEF Queued
<1>6. remaining \subseteq Queued
  BY <1>2, <1>3 DEF Queued
<1> QED BY <1>4, <1>5, <1>6

\* The accounts of the room survive every step.
LEMMA CountingNext ==
  ASSUME Shapes, SRoom, SOrder, [Next]_vars PROVE Reserving' /\ Counting' /\ Closing'
<1>1. PICK q, n : q = Bytes(Queued) /\ n = Cardinality(Queued) /\ q \in Nat /\ n \in Nat
  BY QueuedAmounts
<1>2. QueueCapacity \in Nat /\ ByteCapacity \in Nat
  BY RelayAssumption
<1>3. UNCHANGED pending => Queued' = Queued
  BY DEF Queued
<1>4. UNCHANGED serverVars => Reserving' /\ Counting' /\ Closing'
  BY <1>3 DEF serverVars, SRoom, Reserving, Counting, Closing, Unanswered
<1>5. ASSUME NEW r \in Request, ServerStep(r) PROVE Reserving' /\ Counting' /\ Closing'
  <2>1. PICK b, k : b = Bytes(Carried(r)) /\ k = Cardinality(Carried(r)) /\ b \in Nat /\ k \in Nat
    BY <1>5, CarriedAmounts
  <2>2. r # None
    BY <1>5, RelayAssumption
  <2>3. ASSUME busy = r PROVE reserved = k /\ reservedBytes = b /\ Unanswered(r)
    BY <2>1, <2>2, <2>3 DEF SRoom, Reserving
  <2>4. CASE Refuse(r)
    BY <1>3, <2>4 DEF Refuse, Answer, SRoom, Reserving, Counting, Closing, Unanswered
  <2>5. CASE TurnAway(r)
    BY <1>3, <2>5 DEF TurnAway, Answer, SRoom, Reserving, Counting, Closing, Unanswered
  <2>6. CASE Reserve(r)
    <3>1. /\ reserved = 0 /\ reservedBytes = 0 /\ ~stored /\ ~closed
          /\ k <= QueueCapacity - n - reserved /\ b <= ByteCapacity - pendingBytes - reservedBytes
          /\ Unanswered(r) /\ pendingBytes = q
      BY <1>1, <2>1, <2>6 DEF Reserve, Fits, SRoom, Reserving, Closing, Counting
    <3>2. /\ busy' = r /\ reserved' = k /\ reservedBytes' = b /\ UNCHANGED <<pendingBytes, pending, verdict, closed>>
      BY <2>1, <2>6, <3>1 DEF Reserve
    <3>3. Reserving'
      BY <2>1, <2>2, <3>1, <3>2 DEF Reserving, Unanswered
    <3>4. Counting'
      BY <1>1, <1>2, <1>3, <2>1, <3>1, <3>2 DEF Counting
    <3> QED BY <3>1, <3>2, <3>3, <3>4 DEF Closing
  <2>7. CASE StoreLocal(r)
    BY <1>3, <2>2, <2>7 DEF StoreLocal, SRoom, Reserving, Counting, Closing, Unanswered
  <2>8. CASE StoreFails(r)
    <3>1. reserved' = 0 /\ reservedBytes' = 0 /\ busy' = None /\ ~stored' /\ UNCHANGED <<pendingBytes, pending, closed, accepting>>
      BY <2>1, <2>3, <2>8 DEF StoreFails, ReservationReleased
    <3>2. Counting'
      BY <1>1, <1>2, <1>3, <2>1, <2>3, <2>8, <3>1 DEF SRoom, Counting, StoreFails
    <3>3. Closing'
      BY <3>1 DEF SRoom, Closing
    <3> QED BY <3>1, <3>2, <3>3 DEF Reserving
  <2>9. CASE Publish(r)
    <3>1. /\ reserved' = 0 /\ reservedBytes' = 0 /\ busy' = None /\ ~stored' /\ UNCHANGED <<closed, accepting>>
          /\ pendingBytes' = pendingBytes + b /\ reserved = k /\ reservedBytes = b /\ Unanswered(r) /\ busy = r
      BY <2>1, <2>3, <2>9 DEF Publish, ReservationReleased
    <3>2. Queued \cap Carried(r) = {}
      BY <3>1, CarriedIsNew DEF SRoom, Unanswered
    <3>3. PICK Q, C : Q = Queued /\ C = Carried(r)
      OBVIOUS
    <3>4. Bytes(Q \union C) = Bytes(Q) + Bytes(C) /\ Cardinality(Q \union C) = Cardinality(Q) + Cardinality(C)
      BY <3>2, <3>3, FiniteCarried, QueuedAmounts, BytesOfBoth
    <3>5. Bytes(Queued') = q + b /\ Cardinality(Queued') = n + k
      BY <1>1, <2>1, <2>9, <3>3, <3>4, QueuedByPublish
    <3>6. n + k <= QueueCapacity /\ q + b <= ByteCapacity /\ pendingBytes = q
      BY <1>1, <3>1 DEF SRoom, Counting
    <3>7. Counting'
      BY <1>1, <1>2, <2>1, <3>1, <3>5, <3>6 DEF Counting
    <3>8. ~closed
      BY <2>2, <3>1 DEF SRoom, Closing
    <3> QED BY <3>1, <3>7, <3>8 DEF Reserving, Closing
  <2> QED BY <1>5, <2>4, <2>5, <2>6, <2>7, <2>8, <2>9 DEF ServerStep
<1>6. CASE Frame
  <2>1. PICK Q, R : Q = Queued /\ R = Queued' /\ R \subseteq Q /\ pendingBytes' = pendingBytes - Bytes(Q \ R)
    BY <1>6, QueuedByFrame
  <2>2. PICK x : x = Bytes(Q \ R) /\ x \in Nat /\ Bytes(R) \in Nat
    <3>1. IsFiniteSet(Q) /\ Q \subseteq Event
      BY <2>1, QueuedAmounts
    <3>2. IsFiniteSet(R) /\ R \subseteq Event /\ IsFiniteSet(Q \ R) /\ Q \ R \subseteq Event
      BY <2>1, <3>1, FS_Subset
    <3> QED BY <3>2, SomeBytes
  <2>3. Bytes(Q) - Bytes(Q \ R) = Bytes(R) /\ Cardinality(R) <= Cardinality(Q) /\ Cardinality(R) \in Nat
    <3>1. IsFiniteSet(Q) /\ Q \subseteq Event
      BY <2>1, QueuedAmounts
    <3> QED BY <2>1, <3>1, BytesOfRest, FS_Subset, FS_CardinalityType
  <2>4. UNCHANGED <<busy, stored, verdict, reserved, reservedBytes, closed, accepting>>
    BY <1>6 DEF Frame
  <2>5. PICK v, w : v = reserved /\ w = reservedBytes /\ v \in Nat /\ w \in Nat
    <3>1. CASE busy = None
      BY <3>1 DEF SRoom, Reserving
    <3>2. CASE busy # None
      <4>1. busy \in Request
        BY <3>2 DEF Shapes
      <4> QED BY <3>2, <4>1, CarriedAmounts DEF SRoom, Reserving
    <3> QED BY <3>1, <3>2
  <2>6. n + v <= QueueCapacity /\ q + w <= ByteCapacity /\ pendingBytes = q /\ q = Bytes(Q) /\ n = Cardinality(Q)
    BY <1>1, <2>1, <2>5 DEF SRoom, Counting
  <2>7. pendingBytes' = Bytes(R)
    BY <2>1, <2>3, <2>6
  <2>8. Bytes(R) + w <= ByteCapacity /\ Cardinality(R) + v <= QueueCapacity
    BY <1>1, <1>2, <2>2, <2>3, <2>5, <2>6
  <2>9. Counting'
    BY <2>1, <2>4, <2>5, <2>7, <2>8 DEF Counting
  <2>10. Reserving'
    BY <2>4 DEF SRoom, Reserving, Unanswered
  <2>11. Closing'
    <3>1. SUFFICES ASSUME closed' PROVE ~accepting' /\ busy' = None /\ \A u \in User : pending'[u] = <<>>
      BY DEF Closing
    <3>2. ~accepting /\ busy = None /\ \A u \in User : pending[u] = <<>>
      BY <2>4, <3>1 DEF SRoom, Closing
    <3>3. ASSUME NEW u \in User PROVE pending'[u] = <<>>
      <4>1. PICK s, t : s = Selected(u) /\ t = Unselected(u) /\ s \in Seq(Fragment) /\ t \in Seq(Fragment) /\ s \o t = <<>>
        BY <3>2, Handing
      <4>2. t = <<>>
        <5>1. Len(s \o t) = Len(s) + Len(t) /\ Len(s) \in Nat /\ Len(t) \in Nat
          BY <4>1, ConcatProperties, LenProperties
        <5>2. Len(t) = 0
          BY <4>1, <5>1
        <5> QED BY <4>1, <5>2, EmptySeq
      <4> QED BY <1>6, <4>1, <4>2 DEF Frame
    <3> QED BY <2>4, <3>2, <3>3
  <2> QED BY <2>9, <2>10, <2>11
<1>7. CASE StopAccepting
  BY <1>3, <1>7 DEF StopAccepting, SRoom, Reserving, Counting, Closing, Unanswered
<1>8. CASE Clear
  <2>1. /\ ~accepting /\ busy = None /\ pendingBytes' = 0 /\ \A u \in User : pending'[u] = <<>>
        /\ UNCHANGED <<busy, stored, verdict, reserved, reservedBytes, accepting>>
    BY <1>8 DEF Clear, ClearAllowed
  <2>2. Queued' = {} /\ reserved = 0 /\ reservedBytes = 0 /\ ~stored
    BY <2>1, EmptyQueueNext DEF SRoom, Reserving
  <2>3. Counting'
    BY <1>2, <2>1, <2>2, NothingWeighs DEF Counting
  <2> QED BY <2>1, <2>2, <2>3 DEF Reserving, Closing
<1>9. ASSUME NEW u \in User, ClientStep(u) PROVE UNCHANGED serverVars
  BY <1>9 DEF ClientStep, Deliver, TakeBatch, CommitBatch, CommitFails
<1>10. ASSUME NEW u \in User,
              Disconnect(u) \/ Restart(u) \/ Reconnect(u) \/ ChangeMap(u) \/ Activate(u)
       PROVE  UNCHANGED serverVars
  BY <1>10 DEF Disconnect, Restart, Reconnect, ChangeMap, Activate
<1>11. CASE UNCHANGED vars
  BY <1>4, <1>11 DEF vars
<1> QED BY <1>4, <1>5, <1>6, <1>7, <1>8, <1>9, <1>10, <1>11 DEF Next

\* What was accepted or stored is what answered requests carry.
LEMMA OriginNext == ASSUME Shapes, SRoom, [Next]_vars PROVE Origin'
<1>1. UNCHANGED serverVars => Origin'
  BY DEF serverVars, SRoom, Origin
<1>2. ASSUME UNCHANGED <<verdict, locally, busy, stored, accepted>> PROVE Origin'
  BY <1>2 DEF SRoom, Origin
<1>3. ASSUME NEW r \in Request, ServerStep(r) PROVE Origin'
  <2>1. r # None
    BY <1>3, RelayAssumption
  <2>2. ASSUME verdict[r] # "done", UNCHANGED accepted, NEW x, verdict' = [verdict EXCEPT ![r] = x],
               \A s \in locally' : verdict'[s] = "done" \/ (busy' = s /\ stored')
        PROVE  Origin'
    <3>1. \A s \in Request : verdict[s] = "done" => verdict'[s] = "done"
      BY <2>2 DEF Shapes
    <3>2. \A u \in User : \A e \in ToSet(accepted[u]) : \E s \in Request : verdict[s] = "done" /\ e \in ToSet(Remote[s][u])
      BY DEF SRoom, Origin
    <3> QED BY <2>2, <3>1, <3>2, Zenon DEF Origin
  <2>3. CASE Refuse(r)
    <3>1. \A s \in locally' : verdict'[s] = "done" \/ (busy' = s /\ stored')
      BY <2>3 DEF Refuse, Answer, Unanswered, Shapes, SRoom, Origin
    <3>2. verdict[r] # "done" /\ UNCHANGED accepted /\ verdict' = [verdict EXCEPT ![r] = "refused"]
      BY <2>3 DEF Refuse, Answer, Unanswered
    <3> QED BY <2>2, <3>1, <3>2
  <2>4. CASE TurnAway(r)
    <3>1. \A s \in locally' : verdict'[s] = "done" \/ (busy' = s /\ stored')
      BY <2>4 DEF TurnAway, StoredWhenTurnedAway, Answer, Unanswered, Shapes, SRoom, Origin
    <3>2. verdict[r] # "done" /\ UNCHANGED accepted /\ verdict' = [verdict EXCEPT ![r] = "retry"]
      BY <2>4 DEF TurnAway, Answer, Unanswered
    <3> QED BY <2>2, <3>1, <3>2
  <2>5. CASE Reserve(r)
    BY <2>1, <2>5 DEF Reserve, Shapes, SRoom, Reserving, Origin
  <2>6. CASE StoreLocal(r)
    BY <2>6 DEF StoreLocal, SRoom, Origin
  <2>7. CASE StoreFails(r)
    <3>1. verdict[r] # "done"
      BY <2>1, <2>7 DEF StoreFails, SRoom, Reserving, Unanswered
    <3>2. \A s \in locally' : verdict'[s] = "done" \/ (busy' = s /\ stored')
      BY <2>7, <3>1 DEF StoreFails, Answer, Shapes, SRoom, Origin
    <3>3. UNCHANGED accepted /\ verdict' = [verdict EXCEPT ![r] = "retry"]
      BY <2>7 DEF StoreFails, Answer
    <3> QED BY <2>2, <3>1, <3>2, <3>3
  <2>8. CASE Publish(r)
    <3>1. /\ verdict' = [verdict EXCEPT ![r] = "done"] /\ locally' = locally
          /\ accepted' = [u \in User |-> accepted[u] \o Remote[r][u]] /\ busy = r
      BY <2>8 DEF Publish, Answer
    <3>2. \A s \in Request : verdict[s] = "done" => verdict'[s] = "done"
      BY <3>1 DEF Shapes
    <3>3. verdict'[r] = "done"
      BY <3>1 DEF Shapes
    <3>4. ASSUME NEW u \in User, NEW e, e \in ToSet(accepted'[u])
          PROVE  \E s \in Request : verdict'[s] = "done" /\ e \in ToSet(Remote[s][u])
      <4>1. accepted[u] \in Seq(Event) /\ Remote[r][u] \in Seq(Event)
        BY SomeRemote DEF Shapes
      <4>2. ToSet(accepted'[u]) = ToSet(accepted[u]) \union ToSet(Remote[r][u])
        BY <3>1, <4>1, EventLists
      <4>3. CASE e \in ToSet(accepted[u])
        <5>1. PICK s : s \in Request /\ verdict[s] = "done" /\ e \in ToSet(Remote[s][u])
          BY <4>3 DEF SRoom, Origin
        <5> QED BY <3>2, <5>1
      <4>4. CASE e \in ToSet(Remote[r][u])
        BY <3>3, <4>4
      <4> QED BY <3>4, <4>2, <4>3, <4>4
    <3>5. \A s \in locally' : verdict'[s] = "done"
      BY <3>1, <3>2, <3>3 DEF Shapes, SRoom, Origin
    <3> QED BY <3>4, <3>5 DEF Origin
  <2> QED BY <1>3, <2>3, <2>4, <2>5, <2>6, <2>7, <2>8 DEF ServerStep
<1>4. CASE Frame
  BY <1>2, <1>4 DEF Frame
<1>5. CASE StopAccepting
  BY <1>2, <1>5 DEF StopAccepting
<1>6. CASE Clear
  BY <1>2, <1>6 DEF Clear
<1>7. ASSUME NEW u \in User, ClientStep(u) PROVE UNCHANGED serverVars
  BY <1>7 DEF ClientStep, Deliver, TakeBatch, CommitBatch, CommitFails
<1>8. ASSUME NEW u \in User,
             Disconnect(u) \/ Restart(u) \/ Reconnect(u) \/ ChangeMap(u) \/ Activate(u)
      PROVE  UNCHANGED serverVars
  BY <1>8 DEF Disconnect, Restart, Reconnect, ChangeMap, Activate
<1>9. CASE UNCHANGED vars
  BY <1>1, <1>9 DEF vars
<1> QED BY <1>1, <1>3, <1>4, <1>5, <1>6, <1>7, <1>8, <1>9 DEF Next

-----------------------------------------------------------------------------
(* The way of one player's events *)

\* SOrder and SKeeping for one player.
Way(u) ==
    /\ Follows(accepted[u], Arrived(u), Ahead(u))
    /\ ~excused[u] => conn[u] # "gone" /\ Keeps(accepted[u], Arrived(u), partial[u], Ahead(u))

\* Nothing of what the way consists of changes for u.
Untouched(u) ==
    /\ accepted'[u] = accepted[u] /\ handled'[u] = handled[u] /\ batch'[u] = batch[u]
    /\ inbox'[u] = inbox[u] /\ partial'[u] = partial[u] /\ channel'[u] = channel[u]
    /\ pending'[u] = pending[u] /\ excused'[u] = excused[u]
    /\ conn[u] # "gone" => conn'[u] # "gone"

LEMMA WayUntouched == ASSUME NEW u \in User, Way(u), Untouched(u) PROVE Way(u)'
BY DEF Way, Untouched, Arrived, Ahead

LEMMA Lists ==
  ASSUME Shapes, NEW u \in User
  PROVE  /\ accepted[u] \in Seq(Event) /\ handled[u] \in Seq(Event) /\ batch[u] \in Seq(Event)
         /\ inbox[u] \in Seq(Event) /\ Arrived(u) \in Seq(Event) /\ handled[u] \o batch[u] \in Seq(Event)
         /\ channel[u] \in Seq(Fragment) /\ pending[u] \in Seq(Fragment) /\ Ahead(u) \in Seq(Fragment)
         /\ partial[u] \in Fragment \union {None}
<1>1. /\ accepted[u] \in Seq(Event) /\ handled[u] \in Seq(Event) /\ batch[u] \in Seq(Event)
      /\ inbox[u] \in Seq(Event) /\ channel[u] \in Seq(Fragment) /\ pending[u] \in Seq(Fragment)
      /\ partial[u] \in Fragment \union {None}
  BY DEF Shapes
<1>2. handled[u] \o batch[u] \in Seq(Event)
  BY <1>1, EventLists
<1>3. Arrived(u) \in Seq(Event)
  BY <1>1, <1>2, EventLists DEF Arrived
<1>4. Ahead(u) \in Seq(Fragment)
  BY <1>1, FragmentLists DEF Ahead
<1> QED BY <1>1, <1>2, <1>3, <1>4

\* What comes next to a player is the first fragment in the channel.
LEMMA NextInChannel ==
  \A c, p : c \in Seq(Fragment) /\ c # <<>> /\ p \in Seq(Fragment) =>
      c \o p # <<>> /\ Head(c \o p) = Head(c) /\ Tail(c \o p) = Tail(c) \o p
<1>1. ASSUME NEW c, NEW p, c \in Seq(Fragment), c # <<>>, p \in Seq(Fragment)
      PROVE  c \o p # <<>> /\ Head(c \o p) = Head(c) /\ Tail(c \o p) = Tail(c) \o p
  <2>1. PICK m, n : m = Len(c) /\ n = Len(p) /\ m \in Nat /\ n \in Nat /\ m >= 1
    <3>1. Len(c) \in Nat /\ Len(p) \in Nat
      BY <1>1, LenProperties
    <3>2. Len(c) \in Nat \ {0}
      BY <1>1, EmptySeq
    <3>3. Len(c) >= 1
      BY <3>2
    <3> QED BY <3>1, <3>3
  <2>2. PICK s : s = c \o p /\ s \in Seq(Fragment) /\ Len(s) = m + n
    BY <1>1, <2>1, ConcatProperties
  <2>3. \A i \in 1..m + n : s[i] = IF i <= m THEN c[i] ELSE p[i - m]
    BY <1>1, <2>1, <2>2, ConcatProperties
  <2>4. s # <<>>
    BY <2>1, <2>2, LenProperties
  <2>5. /\ Head(s) = s[1] /\ Head(c) = c[1] /\ Tail(s) \in Seq(Fragment) /\ Tail(c) \in Seq(Fragment)
        /\ Len(Tail(s)) = (m + n) - 1 /\ Len(Tail(c)) = m - 1
        /\ \A i \in 1..(m + n) - 1 : Tail(s)[i] = s[i + 1]
        /\ \A i \in 1..m - 1 : Tail(c)[i] = c[i + 1]
    BY <1>1, <2>1, <2>2, <2>4, HeadTailProperties
  <2>6. PICK t : t = Tail(c) /\ t \in Seq(Fragment) /\ Len(t) = m - 1
    BY <2>5
  <2>7. /\ t \o p \in Seq(Fragment) /\ Len(t \o p) = (m - 1) + n
        /\ \A i \in 1..(m - 1) + n : (t \o p)[i] = IF i <= m - 1 THEN t[i] ELSE p[i - (m - 1)]
    BY <1>1, <2>1, <2>6, ConcatProperties
  <2>8. ASSUME NEW i \in 1..(m + n) - 1 PROVE Tail(s)[i] = (t \o p)[i]
    <3>1. i \in 1..(m - 1) + n /\ i + 1 \in 1..m + n /\ Tail(s)[i] = s[i + 1] /\ i \in Nat
      BY <2>1, <2>5
    <3>2. CASE i <= m - 1
      <4>1. i + 1 <= m /\ i \in 1..m - 1
        BY <2>1, <3>2
      <4> QED BY <2>3, <2>5, <2>6, <2>7, <3>1, <3>2, <4>1
    <3>3. CASE ~(i <= m - 1)
      <4>1. ~(i + 1 <= m) /\ (i + 1) - m = i - (m - 1)
        BY <2>1, <3>3
      <4> QED BY <2>3, <2>7, <3>1, <3>3, <4>1
    <3> QED BY <3>2, <3>3
  <2>9. Tail(s) = t \o p
    <3>1. Len(Tail(s)) = Len(t \o p) /\ Len(Tail(s)) = (m + n) - 1
      BY <2>1, <2>5, <2>7
    <3> QED BY <2>5, <2>7, <2>8, <3>1, SeqEqual
  <2>10. Head(s) = Head(c)
    BY <2>1, <2>3, <2>5
  <2> QED BY <2>2, <2>4, <2>6, <2>9, <2>10
<1> QED BY <1>1

\* Whatever is taken off the end or the middle leaves a shorter way.
LEMMA LessAhead ==
  \A s : s \in Seq(Fragment) /\ s # <<>> => ToSet(Tail(s)) \subseteq ToSet(s) /\ Pairs(Tail(s)) \subseteq Pairs(s)
BY FirstFragment

LEMMA PartAhead ==
  \A s, t : s \in Seq(Fragment) /\ t \in Seq(Fragment) =>
      /\ ToSet(s) \subseteq ToSet(s \o t) /\ Pairs(s) \subseteq Pairs(s \o t)
      /\ ToSet(t) \subseteq ToSet(s \o t) /\ Pairs(t) \subseteq Pairs(s \o t)
BY FragmentLists

LEMMA FragmentsAssociate ==
  \A r, s, t : r \in Seq(Fragment) /\ s \in Seq(Fragment) /\ t \in Seq(Fragment) => (r \o s) \o t = r \o (s \o t)
BY ConcatAssociative

LEMMA EventsAssociate ==
  \A r, s, t : r \in Seq(Event) /\ s \in Seq(Event) /\ t \in Seq(Event) => (r \o s) \o t = r \o (s \o t)
BY ConcatAssociative

LEMMA NoFragments == \A s : s \in Seq(Fragment) => s \o <<>> = s /\ <<>> \o s = s
BY ConcatEmptySeq

LEMMA NoEvents == \A s : s \in Seq(Event) => s \o <<>> = s /\ <<>> \o s = s
BY ConcatEmptySeq

\* A request adds events that the player has not been given before.
LEMMA AcceptedOnce ==
  ASSUME Shapes, SRoom, SOrder, NEW r \in Request, verdict[r] # "done", NEW u \in User
  PROVE  NoRepeats(accepted[u] \o Remote[r][u])
<1>1. PICK a, b : a = accepted[u] /\ b = Remote[r][u] /\ a \in Seq(Event) /\ b \in Seq(Event)
  BY SomeRemote DEF Shapes
<1>2. ToSet(a \o b) = ToSet(a) \union ToSet(b) /\ Pairs(a \o b) = Pairs(a) \union Pairs(b) \union (ToSet(a) \X ToSet(b))
  BY <1>1, EventLists
<1>3. ToSet(a) \cap ToSet(b) = {}
  BY <1>1, CarriedIsNew DEF SRoom
<1>4. NoRepeats(a)
  BY <1>1 DEF SOrder, Follows
<1>5. \A x : <<x, x>> \notin Pairs(b)
  <2>1. SUFFICES ASSUME NEW x, <<x, x>> \in Pairs(b) PROVE FALSE
    OBVIOUS
  <2>2. PICK i, j : i \in DOMAIN b /\ j \in DOMAIN b /\ i < j /\ x = b[i] /\ x = b[j]
    BY <2>1, PairsAre
  <2>3. i = j
    <3>1. \A k \in DOMAIN Remote[r][u], l \in DOMAIN Remote[r][u] :
              Remote[r][u][k] = Remote[r][u][l] => r = r /\ u = u /\ k = l
      BY RelayAssumption
    <3> QED BY <1>1, <2>2, <3>1
  <2>4. i \in Int /\ j \in Int
    BY <1>1, <2>2, LenProperties
  <2> QED BY <2>2, <2>3, <2>4
<1>6. ASSUME NEW x, <<x, x>> \in Pairs(a \o b) PROVE FALSE
  <2>1. <<x, x>> \in Pairs(a) \/ <<x, x>> \in Pairs(b) \/ (x \in ToSet(a) /\ x \in ToSet(b))
    BY <1>2, <1>6
  <2>2. <<x, x>> \in Pairs(a) => x \in ToSet(a)
    BY PairsArePairs
  <2> QED BY <1>3, <1>4, <1>5, <2>1, <2>2 DEF NoRepeats
<1> QED BY <1>1, <1>6 DEF NoRepeats

LEMMA WayPublish ==
  ASSUME Shapes, SRoom, SOrder, SKeeping, NEW r \in Request, Publish(r), NEW u \in User PROVE Way(u)'
<1>1. verdict[r] # "done"
  <2>1. r # None
    BY RelayAssumption
  <2> QED BY <2>1 DEF Publish, SRoom, Reserving, Unanswered
<1>2. PICK es : es = Remote[r][u] /\ es \in Seq(Event) /\ ChunksOf(es) \in Seq(Fragment)
  BY SomeRemote, FragmentsOfList
<1>3. PICK acc, arr, ahead : /\ acc = accepted[u] /\ arr = Arrived(u) /\ ahead = Ahead(u)
                             /\ acc \in Seq(Event) /\ arr \in Seq(Event) /\ ahead \in Seq(Fragment)
  BY Lists
<1>4. /\ accepted'[u] = acc \o es /\ Arrived(u)' = arr /\ Ahead(u)' = ahead \o ChunksOf(es)
      /\ UNCHANGED <<partial, conn, excused>>
  <2>1. channel[u] \o (pending[u] \o ChunksOf(es)) = (channel[u] \o pending[u]) \o ChunksOf(es)
    <3>1. PICK c, p, n : c = channel[u] /\ p = pending[u] /\ n = ChunksOf(es)
      OBVIOUS
    <3>2. c \in Seq(Fragment) /\ p \in Seq(Fragment) /\ n \in Seq(Fragment)
      BY <1>2, <3>1, Lists
    <3>3. (c \o p) \o n = c \o (p \o n)
      BY <3>2, ConcatAssociative
    <3> QED BY <3>1, <3>3
  <2>2. accepted'[u] = acc \o es /\ pending'[u] = pending[u] \o ChunksOf(es)
    BY <1>2, <1>3 DEF Publish
  <2>3. UNCHANGED clientVars /\ UNCHANGED excused
    BY DEF Publish
  <2> QED BY <1>3, <2>1, <2>2, <2>3 DEF Arrived, Ahead, clientVars
<1>5. Follows(acc, arr, ahead) /\ (~excused[u] => conn[u] # "gone" /\ Keeps(acc, arr, partial[u], ahead))
  BY <1>3 DEF SOrder, SKeeping
<1>6. NoRepeats(acc \o es)
  BY <1>1, <1>2, <1>3, AcceptedOnce
<1>7. Follows(acc \o es, arr, ahead \o ChunksOf(es))
  BY <1>2, <1>3, <1>5, <1>6, FollowsAccepting
<1>8. ~excused[u] => conn[u] # "gone" /\ Keeps(acc \o es, arr, partial[u], ahead \o ChunksOf(es))
  BY <1>2, <1>3, <1>5, KeepsAccepting
<1> QED BY <1>4, <1>7, <1>8 DEF Way

LEMMA WayFrame ==
  ASSUME Shapes, SOrder, SKeeping, Frame, NEW u \in User PROVE Way(u)'
<1>1. PICK s, t : /\ s = Selected(u) /\ t = Unselected(u) /\ s \in Seq(Fragment) /\ t \in Seq(Fragment)
                  /\ s \o t = pending[u]
  BY Handing
<1>2. PICK c, arr : c = channel[u] /\ c \in Seq(Fragment) /\ arr = Arrived(u)
  BY Lists
<1>3. (c \o s) \o t = c \o (s \o t) /\ c \o s \in Seq(Fragment)
  <2>1. (c \o s) \o t = c \o (s \o t)
    <3>1. c \in Seq(Fragment) /\ s \in Seq(Fragment) /\ t \in Seq(Fragment)
      BY <1>1, <1>2
    <3> QED BY <3>1, ConcatAssociative
  <2> QED BY <1>1, <1>2, <2>1, FragmentLists
<1>4. Ahead(u) = (c \o s) \o t
  BY <1>1, <1>2, <1>3 DEF Ahead
<1>5. /\ channel'[u] = c \o s /\ pending'[u] = IF conn[u] = "gone" THEN <<>> ELSE t
      /\ UNCHANGED <<accepted, partial, conn, excused, handled, batch, inbox>>
  BY <1>1, <1>2 DEF Frame
<1>6. Arrived(u)' = arr
  BY <1>2, <1>5 DEF Arrived
<1>7. Way(u)
  BY DEF SOrder, SKeeping, Way
<1>8. CASE conn[u] # "gone"
  <2>1. Ahead(u)' = Ahead(u)
    BY <1>4, <1>5, <1>8 DEF Ahead
  <2> QED BY <1>2, <1>5, <1>6, <1>7, <2>1 DEF Way
<1>9. CASE conn[u] = "gone"
  <2>1. Ahead(u)' = c \o s
    BY <1>3, <1>5, <1>9, NoFragments DEF Ahead
  <2>2. excused[u]
    BY <1>7, <1>9 DEF Way
  <2>3. Follows(accepted[u], arr, c \o s)
    <3>1. ToSet(c \o s) \subseteq ToSet(Ahead(u)) /\ Pairs(c \o s) \subseteq Pairs(Ahead(u))
      BY <1>1, <1>3, <1>4, PartAhead
    <3> QED BY <1>2, <1>7, <3>1, FollowsLess DEF Way
  <2> QED BY <1>5, <1>6, <2>1, <2>2, <2>3 DEF Way
<1> QED BY <1>8, <1>9

LEMMA WayClear ==
  ASSUME Shapes, SOrder, Clear, NEW u \in User PROVE Way(u)'
<1>1. pending'[u] = <<>> /\ excused'[u] = TRUE /\ UNCHANGED <<accepted, channel, handled, batch, inbox>>
  BY DEF Clear, clientVars
<1>2. PICK c : c = channel[u] /\ c \in Seq(Fragment) /\ pending[u] \in Seq(Fragment)
  BY Lists
<1>3. Ahead(u)' = c /\ Arrived(u)' = Arrived(u)
  BY <1>1, <1>2, NoFragments DEF Ahead, Arrived
<1>4. ToSet(c) \subseteq ToSet(Ahead(u)) /\ Pairs(c) \subseteq Pairs(Ahead(u))
  BY <1>2, PartAhead DEF Ahead
<1>5. Follows(accepted[u], Arrived(u), c)
  BY <1>4, FollowsLess DEF SOrder
<1> QED BY <1>1, <1>3, <1>5 DEF Way

LEMMA WayDeliver ==
  ASSUME Shapes, SOrder, SKeeping, NEW u \in User, Deliver(u) PROVE Way(u)'
<1>1. PICK f, c, p, q : f = Head(channel[u]) /\ c = channel[u] /\ p = pending[u] /\ q = partial[u]
  OBVIOUS
<1>2. /\ c # <<>> /\ c \in Seq(Fragment) /\ p \in Seq(Fragment) /\ Tail(c) \in Seq(Fragment)
      /\ f \in Fragment /\ q \in Fragment \union {None}
  BY <1>1, Lists, FirstFragment DEF Deliver
<1>3. PICK acc, arr, ahead, rest :
          /\ acc = accepted[u] /\ arr = Arrived(u) /\ ahead = Ahead(u) /\ rest = Tail(ahead)
          /\ acc \in Seq(Event) /\ arr \in Seq(Event) /\ ahead \in Seq(Fragment)
  BY Lists
<1>4. ahead = c \o p /\ ahead # <<>> /\ f = Head(ahead) /\ rest = Tail(c) \o p
  BY <1>1, <1>2, <1>3, NextInChannel DEF Ahead
<1>5. channel'[u] = Tail(c) /\ UNCHANGED <<accepted, pending, conn, handled, batch>>
  BY <1>1 DEF Deliver, serverVars, Shapes
<1>6. Ahead(u)' = rest
  BY <1>1, <1>4, <1>5 DEF Ahead
<1>7. Follows(acc, arr, ahead) /\ (~excused[u] => conn[u] # "gone" /\ Keeps(acc, arr, q, ahead))
  BY <1>1, <1>3 DEF SOrder, SKeeping
<1>8. Follows(acc, arr, rest)
  BY <1>3, <1>4, <1>7, LessAhead, FollowsLess
<1>9. inbox'[u] = inbox[u] => Arrived(u)' = arr
  BY <1>3, <1>5 DEF Arrived
<1>10. CASE excused'[u] = TRUE /\ UNCHANGED <<partial, inbox>>
  BY <1>3, <1>5, <1>6, <1>8, <1>9, <1>10 DEF Way
<1>11. CASE f.index > 0 /\ ~Continues(u, f) /\ UNCHANGED <<partial, inbox, excused>>
  <2>1. ASSUME ~excused[u] PROVE FALSE
    <3>1. ComesNext(acc, arr, q, ahead, f, rest)
      BY <1>2, <1>3, <1>4, <1>7, <2>1, NextIsExpected
    <3>2. q # None /\ f.event = q.event /\ f.index = q.index
      BY <1>11, <3>1 DEF ComesNext
    <3> QED BY <1>1, <1>11, <3>2 DEF Continues
  <2> QED BY <1>3, <1>5, <1>6, <1>8, <1>9, <1>11, <2>1 DEF Way
<1>12. CASE /\ f.index + 1 # Parts[f.event]
            /\ partial' = [partial EXCEPT ![u] = [event |-> f.event, index |-> f.index + 1]]
            /\ UNCHANGED <<inbox, excused>>
  <2>1. partial'[u] = [event |-> f.event, index |-> f.index + 1]
    BY <1>12 DEF Shapes
  <2>2. ~excused[u] => conn[u] # "gone" /\ Keeps(acc, arr, [event |-> f.event, index |-> f.index + 1], rest)
    BY <1>2, <1>3, <1>4, <1>7, <1>12, KeepsJoining
  <2> QED BY <1>3, <1>5, <1>6, <1>8, <1>9, <1>12, <2>1, <2>2 DEF Way
<1>13. CASE /\ f.index + 1 = Parts[f.event]
            /\ inbox' = [inbox EXCEPT ![u] = Append(@, f.event)]
            /\ partial' = [partial EXCEPT ![u] = None]
            /\ UNCHANGED excused
  <2>1. PICK e : e = f.event /\ e \in Event
    BY <1>2, FragmentFields
  <2>2. inbox'[u] = Append(inbox[u], e) /\ partial'[u] = None
    <3>1. inbox \in [User -> Seq(Event)] /\ partial \in [User -> Fragment \union {None}]
      BY DEF Shapes
    <3> QED BY <1>13, <2>1, <3>1
  <2>3. Arrived(u)' = Append(arr, e)
    <3>1. PICK d, i : /\ d = handled[u] \o batch[u] /\ i = inbox[u] /\ d \in Seq(Event) /\ i \in Seq(Event)
                      /\ arr = d \o i /\ Arrived(u)' = d \o Append(i, e)
      BY <1>3, <1>5, <2>2, Lists DEF Arrived
    <3>2. <<e>> \in Seq(Event)
      BY <2>1
    <3>3. Append(i, e) = i \o <<e>> /\ Append(d \o i, e) = (d \o i) \o <<e>>
      <4>1. PICK s : s = d \o i /\ s \in Seq(Event)
        BY <1>3, <3>1
      <4>2. Append(i, e) = i \o <<e>>
        BY <2>1, <3>1, AppendIsConcat
      <4>3. Append(s, e) = s \o <<e>>
        BY <2>1, <4>1, AppendIsConcat
      <4> QED BY <4>1, <4>2, <4>3
    <3>4. d \o (i \o <<e>>) = (d \o i) \o <<e>>
      <4>1. d \in Seq(Event) /\ i \in Seq(Event) /\ <<e>> \in Seq(Event)
        BY <3>1, <3>2
      <4> QED BY <4>1, EventsAssociate
    <3> QED BY <3>1, <3>3, <3>4
  <2>4. Follows(acc, Append(arr, e), rest)
    BY <1>3, <1>4, <1>7, <1>13, <2>1, FollowsArrival
  <2>5. ~excused[u] => conn[u] # "gone" /\ Keeps(acc, Append(arr, e), None, rest)
    BY <1>2, <1>3, <1>4, <1>7, <1>13, <2>1, KeepsArrival
  <2> QED BY <1>3, <1>5, <1>6, <1>13, <2>2, <2>3, <2>4, <2>5 DEF Way
<1>14. excused'[u] = TRUE \/ excused' = excused
  BY DEF Deliver, Shapes
<1> QED BY <1>1, <1>10, <1>11, <1>12, <1>13, <1>14 DEF Deliver, Shapes

LEMMA WayTakeBatch ==
  ASSUME Shapes, SOrder, SKeeping, NEW u \in User, TakeBatch(u) PROVE Way(u)'
<1>1. PICK n : n = Min({BatchSize, Len(inbox[u])})
  OBVIOUS
<1>2. PICK a, b, h : /\ a = SubSeq(inbox[u], 1, n) /\ b = SubSeq(inbox[u], n + 1, Len(inbox[u])) /\ h = handled[u]
                     /\ a \in Seq(Event) /\ b \in Seq(Event) /\ a \o b = inbox[u]
  BY <1>1, Batching DEF TakeBatch
<1>3. h \in Seq(Event) /\ batch[u] = <<>>
  BY <1>2, Lists DEF TakeBatch
<1>4. Arrived(u) = h \o (a \o b)
  BY <1>2, <1>3, NoEvents DEF Arrived
<1>5. batch'[u] = a /\ inbox'[u] = b
  BY <1>1, <1>2 DEF TakeBatch, Shapes
<1>6. UNCHANGED <<accepted, pending, handled, channel, partial, conn, excused>>
  BY DEF TakeBatch, serverVars
<1>7. Arrived(u)' = (h \o a) \o b
  BY <1>2, <1>5, <1>6 DEF Arrived
<1>8. (h \o a) \o b = h \o (a \o b)
  <2>1. h \in Seq(Event) /\ a \in Seq(Event) /\ b \in Seq(Event)
    BY <1>2, <1>3
  <2> QED BY <2>1, EventsAssociate
<1>9. Arrived(u)' = Arrived(u) /\ Ahead(u)' = Ahead(u)
  BY <1>4, <1>6, <1>7, <1>8 DEF Ahead
<1>10. Way(u)
  BY DEF SOrder, SKeeping, Way
<1> QED BY <1>6, <1>9, <1>10 DEF Way

\* A transaction takes only rejected events away from what arrived.
LEMMA WithoutRejected ==
  \A h, b, i : h \in Seq(Event) /\ b \in Seq(Event) /\ i \in Seq(Event) =>
      /\ ToSet(h \o Applicable(b) \o i) \subseteq ToSet(h \o b \o i)
      /\ ToSet(h \o b \o i) \ Rejected \subseteq ToSet(h \o Applicable(b) \o i)
      /\ Pairs(h \o Applicable(b) \o i) \subseteq Pairs(h \o b \o i)
<1>1. ASSUME NEW h, NEW b, NEW i, h \in Seq(Event), b \in Seq(Event), i \in Seq(Event)
      PROVE  /\ ToSet(h \o Applicable(b) \o i) \subseteq ToSet(h \o b \o i)
             /\ ToSet(h \o b \o i) \ Rejected \subseteq ToSet(h \o Applicable(b) \o i)
             /\ Pairs(h \o Applicable(b) \o i) \subseteq Pairs(h \o b \o i)
  <2>1. PICK a : a = Applicable(b) /\ a \in Seq(Event) /\ ToSet(a) = ToSet(b) \ Rejected /\ Pairs(a) \subseteq Pairs(b)
    BY <1>1, ApplicableOfList
  <2>2. PICK s : /\ s = h \o b /\ s \in Seq(Event) /\ ToSet(s) = ToSet(h) \union ToSet(b)
                 /\ Pairs(s) = Pairs(h) \union Pairs(b) \union (ToSet(h) \X ToSet(b))
    BY <1>1, EventLists
  <2>3. PICK t : /\ t = h \o a /\ t \in Seq(Event) /\ ToSet(t) = ToSet(h) \union ToSet(a)
                 /\ Pairs(t) = Pairs(h) \union Pairs(a) \union (ToSet(h) \X ToSet(a))
    BY <1>1, <2>1, EventLists
  <2>4. ToSet(s \o i) = ToSet(s) \union ToSet(i) /\ Pairs(s \o i) = Pairs(s) \union Pairs(i) \union (ToSet(s) \X ToSet(i))
    BY <1>1, <2>2, EventLists
  <2>5. ToSet(t \o i) = ToSet(t) \union ToSet(i) /\ Pairs(t \o i) = Pairs(t) \union Pairs(i) \union (ToSet(t) \X ToSet(i))
    BY <1>1, <2>3, EventLists
  <2>6. ToSet(t) \subseteq ToSet(s) /\ ToSet(s) \ Rejected \subseteq ToSet(t) /\ Pairs(t) \subseteq Pairs(s)
    BY <2>1, <2>2, <2>3
  <2>7. ToSet(t \o i) \subseteq ToSet(s \o i) /\ ToSet(s \o i) \ Rejected \subseteq ToSet(t \o i) /\ Pairs(t \o i) \subseteq Pairs(s \o i)
    BY <2>4, <2>5, <2>6
  <2> QED BY <2>1, <2>2, <2>3, <2>7
<1> QED BY <1>1

LEMMA WayTransaction ==
  ASSUME Shapes, SOrder, SKeeping, NEW u \in User, CommitBatch(u) \/ CommitFails(u) PROVE Way(u)'
<1>1. PICK h, b, i, a : h = handled[u] /\ b = batch[u] /\ i = inbox[u] /\ a = Applicable(b)
  OBVIOUS
<1>2. h \in Seq(Event) /\ b \in Seq(Event) /\ i \in Seq(Event) /\ a \in Seq(Event)
  BY <1>1, Lists, ApplicableOfList
<1>3. UNCHANGED <<accepted, pending, channel, partial, conn, excused>> /\ inbox'[u] = i
  BY <1>1 DEF CommitBatch, CommitFails, InboxAfterFailure, serverVars, Shapes
<1>4. Arrived(u)' = h \o a \o i
  <2>1. CASE CommitBatch(u)
    <3>1. handled'[u] = h \o a /\ batch'[u] = <<>>
      BY <1>1, <2>1 DEF CommitBatch, Shapes
    <3>2. (h \o a) \o <<>> = h \o a
      BY <1>2, EventLists, NoEvents
    <3> QED BY <1>3, <3>1, <3>2 DEF Arrived
  <2>2. CASE CommitFails(u)
    <3>1. handled'[u] = h /\ batch'[u] = a
      BY <1>1, <2>2 DEF CommitFails, Shapes
    <3> QED BY <1>3, <3>1 DEF Arrived
  <2> QED BY <2>1, <2>2
<1>5. Arrived(u) = h \o b \o i
  BY <1>1 DEF Arrived
<1>6. PICK arr, arr2 : arr = Arrived(u) /\ arr2 = Arrived(u)'
  OBVIOUS
<1>7. ToSet(arr2) \subseteq ToSet(arr) /\ ToSet(arr) \ Rejected \subseteq ToSet(arr2) /\ Pairs(arr2) \subseteq Pairs(arr)
  BY <1>1, <1>2, <1>4, <1>5, <1>6, WithoutRejected
<1>8. Follows(accepted[u], arr, Ahead(u)) /\ (~excused[u] => conn[u] # "gone" /\ Keeps(accepted[u], arr, partial[u], Ahead(u)))
  BY <1>6 DEF SOrder, SKeeping
<1>9. Follows(accepted[u], arr2, Ahead(u))
  BY <1>7, <1>8, FollowsLess
<1>10. ~excused[u] => conn[u] # "gone" /\ Keeps(accepted[u], arr2, partial[u], Ahead(u))
  BY <1>7, <1>8, KeepsBatch
<1>11. Ahead(u)' = Ahead(u)
  BY <1>3 DEF Ahead
<1> QED BY <1>3, <1>6, <1>9, <1>10, <1>11 DEF Way

\* A player who leaves or whose client ends loses the middle of the way.
LEMMA WayLost ==
  ASSUME Shapes, SOrder, NEW u \in User, Disconnect(u) \/ Restart(u) PROVE Way(u)'
<1>1. channel'[u] = <<>> /\ excused'[u] = TRUE /\ UNCHANGED <<accepted, pending, handled>>
  BY DEF Disconnect, Restart, serverVars, Shapes
<1>2. PICK h, b, i, c, p : /\ h = handled[u] /\ b = batch[u] /\ i = inbox[u] /\ c = channel[u] /\ p = pending[u]
                           /\ h \in Seq(Event) /\ b \in Seq(Event) /\ i \in Seq(Event) /\ h \o b \in Seq(Event)
                           /\ c \in Seq(Fragment) /\ p \in Seq(Fragment)
  BY Lists
<1>3. Ahead(u)' = p
  BY <1>1, <1>2, NoFragments DEF Ahead
<1>4. ToSet(p) \subseteq ToSet(Ahead(u)) /\ Pairs(p) \subseteq Pairs(Ahead(u))
  BY <1>2, PartAhead DEF Ahead
<1>5. Arrived(u)' = Arrived(u) \/ Arrived(u)' = h
  <2>1. CASE Disconnect(u)
    BY <2>1 DEF Disconnect, serverVars, Arrived
  <2>2. CASE Restart(u)
    <3>1. handled'[u] = h /\ batch'[u] = <<>> /\ inbox'[u] = <<>>
      BY <1>2, <2>2 DEF Restart, serverVars, Shapes
    <3> QED BY <1>2, <3>1, NoEvents DEF Arrived
  <2> QED BY <2>1, <2>2
<1>6. ToSet(h) \subseteq ToSet(Arrived(u)) /\ Pairs(h) \subseteq Pairs(Arrived(u))
  <2>1. PICK s : s = h \o b /\ s \in Seq(Event) /\ ToSet(h) \subseteq ToSet(s) /\ Pairs(h) \subseteq Pairs(s)
    <3>1. ToSet(h \o b) = ToSet(h) \union ToSet(b) /\ Pairs(h \o b) = Pairs(h) \union Pairs(b) \union (ToSet(h) \X ToSet(b))
      BY <1>2, EventLists, Zenon
    <3> QED BY <1>2, <3>1
  <2>2. ToSet(s) \subseteq ToSet(s \o i) /\ Pairs(s) \subseteq Pairs(s \o i)
    <3>1. s \in Seq(Event) /\ i \in Seq(Event)
      BY <1>2, <2>1
    <3>2. ToSet(s \o i) = ToSet(s) \union ToSet(i) /\ Pairs(s \o i) = Pairs(s) \union Pairs(i) \union (ToSet(s) \X ToSet(i))
      BY <3>1, EventLists
    <3> QED BY <3>2
  <2> QED BY <1>2, <2>1, <2>2 DEF Arrived
<1>7. PICK arr : arr = Arrived(u)' /\ ToSet(arr) \subseteq ToSet(Arrived(u)) /\ Pairs(arr) \subseteq Pairs(Arrived(u))
  BY <1>5, <1>6
<1>8. Follows(accepted[u], arr, p)
  BY <1>4, <1>7, FollowsLess DEF SOrder
<1> QED BY <1>1, <1>3, <1>7, <1>8 DEF Way

LEMMA WayNext ==
  ASSUME Shapes, SRoom, SOrder, SKeeping, [Next]_vars PROVE SOrder' /\ SKeeping'
<1>1. SUFFICES ASSUME NEW v \in User PROVE Way(v)'
  BY DEF Way, SOrder, SKeeping
<1>2. Untouched(v) => Way(v)'
  <2>1. Way(v)
    BY DEF Way, SOrder, SKeeping
  <2> QED BY <2>1, WayUntouched
<1>3. ASSUME NEW r \in Request, ServerStep(r) PROVE Way(v)'
  <2>1. CASE Publish(r)
    BY <2>1, WayPublish
  <2>2. CASE Refuse(r) \/ TurnAway(r) \/ Reserve(r) \/ StoreLocal(r) \/ StoreFails(r)
    <3>1. Untouched(v)
      BY <2>2 DEF Refuse, TurnAway, Reserve, StoreLocal, StoreFails, clientVars, Untouched
    <3> QED BY <1>2, <3>1
  <2> QED BY <1>3, <2>1, <2>2 DEF ServerStep
<1>4. CASE Frame
  BY <1>4, WayFrame
<1>5. CASE StopAccepting
  <2>1. Untouched(v)
    BY <1>5 DEF StopAccepting, clientVars, Untouched
  <2> QED BY <1>2, <2>1
<1>6. CASE Clear
  BY <1>6, WayClear
<1>7. ASSUME NEW u \in User, ClientStep(u) PROVE Way(v)'
  <2>1. CASE u = v
    BY <1>7, <2>1, WayDeliver, WayTakeBatch, WayTransaction DEF ClientStep
  <2>2. CASE u # v
    <3>1. Untouched(v)
      <4>1. CASE Deliver(u)
        BY <2>2, <4>1 DEF Deliver, serverVars, Untouched, Shapes
      <4>2. CASE TakeBatch(u)
        BY <2>2, <4>2 DEF TakeBatch, serverVars, Untouched, Shapes
      <4>3. CASE CommitBatch(u)
        BY <2>2, <4>3 DEF CommitBatch, serverVars, Untouched, Shapes
      <4>4. CASE CommitFails(u)
        BY <2>2, <4>4 DEF CommitFails, InboxAfterFailure, serverVars, Untouched, Shapes
      <4> QED BY <1>7, <4>1, <4>2, <4>3, <4>4 DEF ClientStep
    <3> QED BY <1>2, <3>1
  <2> QED BY <2>1, <2>2
<1>8. ASSUME NEW u \in User, Disconnect(u) \/ Restart(u) PROVE Way(v)'
  <2>1. CASE u = v
    BY <1>8, <2>1, WayLost
  <2>2. CASE u # v
    <3>1. Untouched(v)
      BY <1>8, <2>2 DEF Disconnect, Restart, serverVars, Untouched, Shapes
    <3> QED BY <1>2, <3>1
  <2> QED BY <2>1, <2>2
<1>9. ASSUME NEW u \in User, Reconnect(u) \/ ChangeMap(u) \/ Activate(u) PROVE Way(v)'
  <2>1. Untouched(v)
    BY <1>9 DEF Reconnect, ChangeMap, Activate, serverVars, Untouched, Shapes
  <2> QED BY <1>2, <2>1
<1>10. CASE UNCHANGED vars
  <2>1. Untouched(v)
    BY <1>10 DEF vars, serverVars, clientVars, Untouched
  <2> QED BY <1>2, <2>1
<1> QED BY <1>3, <1>4, <1>5, <1>6, <1>7, <1>8, <1>9, <1>10 DEF Next

-----------------------------------------------------------------------------
(* The theorems *)

LEMMA InitInv == Init => IInv
<1> SUFFICES ASSUME Init PROVE IInv
  OBVIOUS
<1>2. <<>> \in Seq(Event) /\ <<>> \in Seq(Fragment)
  BY EmptySeq
<1>3. TypeOK
  <2>1. MaxDisturbances \in Nat
    BY RelayAssumption
  <2>2. /\ pending \in [User -> Seq(Fragment)] /\ channel \in [User -> Seq(Fragment)]
        /\ inbox \in [User -> Seq(Event)] /\ batch \in [User -> Seq(Event)]
        /\ handled \in [User -> Seq(Event)] /\ accepted \in [User -> Seq(Event)]
    BY <1>2 DEF Init
  <2>3. /\ verdict \in [Request -> {"new", "retry", "refused", "done"}]
        /\ conn \in [User -> {"gone", "loading", "active"}]
        /\ partial \in [User -> Fragment \union {None}] /\ excused \in [User -> BOOLEAN]
    BY DEF Init
  <2>4. {pendingBytes, reserved, reservedBytes} \subseteq Nat /\ disturbances \in 0..MaxDisturbances
    BY <2>1 DEF Init
  <2>5. /\ accepting \in BOOLEAN /\ closed \in BOOLEAN /\ stored \in BOOLEAN
        /\ busy \in Request \union {None} /\ locally \in SUBSET Request
    BY DEF Init
  <2> QED BY <2>2, <2>3, <2>4, <2>5 DEF TypeOK
<1>4. Queued = {}
  BY EmptyQueue DEF Init
<1>5. SRoom
  <2>1. Reserving /\ Closing
    BY DEF Init, Reserving, Closing
  <2>2. Counting
    BY <1>4, NothingWeighs, RelayAssumption DEF Init, Counting
  <2>3. Origin
    BY EmptyList DEF Init, Origin
  <2> QED BY <2>1, <2>2, <2>3 DEF SRoom
<1>6. ASSUME NEW u \in User PROVE Way(u)
  <2>1. accepted[u] = <<>> /\ Arrived(u) = <<>> /\ Ahead(u) = <<>>
    <3>1. (<<>> \o <<>>) \o <<>> = <<>>
      BY <1>2, NoEvents
    <3> QED BY <3>1 DEF Init, Arrived, Ahead
  <2>2. partial[u] = None /\ conn[u] = "active"
    BY DEF Init
  <2>3. PICK s : s = <<>> /\ ToSet(s) = {} /\ Pairs(s) = {}
    BY EmptyList
  <2>4. Follows(s, s, s)
    BY <2>3 DEF Follows, NoRepeats
  <2>5. Keeps(s, s, None, s)
    BY <2>3, NothingJoined DEF Keeps, Held
  <2> QED BY <2>1, <2>2, <2>3, <2>4, <2>5 DEF Way
<1>7. SOrder /\ SKeeping
  BY <1>6 DEF SOrder, SKeeping, Way
<1> QED BY <1>3, <1>5, <1>7 DEF IInv

LEMMA StepInv == IInv /\ [Next]_vars => IInv'
<1> SUFFICES ASSUME IInv, [Next]_vars PROVE IInv'
  OBVIOUS
<1>2. Shapes /\ SRoom /\ SOrder /\ SKeeping
  BY DEF IInv, TypeOK, Shapes
<1>3. Shapes'
  BY <1>2, StepShapes
<1>4. Reserving' /\ Counting' /\ Closing'
  BY <1>2, CountingNext
<1>5. Origin'
  BY <1>2, OriginNext
<1>6. SOrder' /\ SKeeping'
  BY <1>2, WayNext
<1>7. TypeOK'
  BY <1>3, <1>4, NumbersNext
<1> QED BY <1>4, <1>5, <1>6, <1>7 DEF IInv, SRoom

\* The inductive invariant holds in every reachable state of the relay.
LEMMA Invariant == Spec => []IInv
BY InitInv, StepInv, PTL DEF Spec

\* Every variable of the relay keeps its type: the counters never go below zero
\* in hq_relay_queue.hpp's subtractions.
THEOREM TypeCorrect == Spec => []TypeOK
<1>1. IInv => TypeOK
  BY DEF IInv
<1> QED BY <1>1, Invariant, PTL

\* The capacity checks of server_queue never wrap and its byte count is that of
\* the queued events, for any requests, sizes and capacities.
THEOREM RoomIsAccountedAlways == Spec => []RoomIsAccounted
<1>1. IInv => RoomIsAccounted
  BY EmptyQueue DEF IInv, SRoom, Reserving, Counting, Closing, RoomIsAccounted
<1> QED BY <1>1, Invariant, PTL

\* A request the game sends again has left nothing behind: push_batch reserves,
\* stores and queues it whole or not at all.
THEOREM AllOrNothingAlways == Spec => []AllOrNothing
<1>1. IInv => AllOrNothing
  <2>1. SUFFICES ASSUME IInv, NEW r \in Request, Unanswered(r), busy # r
                 PROVE  r \notin locally /\ \A u \in User : ToSet(Remote[r][u]) \cap ToSet(accepted[u]) = {}
    BY DEF AllOrNothing
  <2>2. verdict[r] # "done"
    BY <2>1 DEF Unanswered
  <2>3. r \notin locally
    BY <2>1, <2>2 DEF IInv, SRoom, Origin
  <2>4. \A u \in User : \A v \in User : ToSet(accepted[u]) \cap ToSet(Remote[r][v]) = {}
    <3>1. Shapes /\ Origin /\ SOrder
      BY <2>1 DEF IInv, TypeOK, Shapes, SRoom
    <3> QED BY <2>2, <3>1, CarriedIsNew
  <2> QED BY <2>3, <2>4
<1> QED BY <1>1, Invariant, PTL

\* Through disconnects, restarts, full queues, map changes and failed
\* transactions, only accepted events reach a client, in order and once.
THEOREM InOrderOnceAlways == Spec => []InOrderOnce
<1>1. IInv => InOrderOnce
  <2>1. SUFFICES ASSUME IInv, NEW u \in User
                 PROVE  /\ ToSet(Arrived(u)) \subseteq ToSet(accepted[u])
                        /\ Pairs(Arrived(u)) \subseteq Pairs(accepted[u])
                        /\ \A e \in Event : <<e, e>> \notin Pairs(Arrived(u))
    BY DEF InOrderOnce
  <2>2. PICK acc, arr : acc = accepted[u] /\ arr = Arrived(u) /\ acc \in Seq(Event)
    BY <2>1 DEF IInv, TypeOK
  <2>3. NoRepeats(acc) /\ ToSet(arr) \subseteq ToSet(acc) /\ Pairs(arr) \subseteq Pairs(acc)
    BY <2>1, <2>2 DEF IInv, SOrder, Follows
  <2>4. \A x : <<x, x>> \notin Pairs(acc)
    BY <2>2, <2>3, StrictOrder
  <2> QED BY <2>2, <2>3, <2>4
<1> QED BY <1>1, Invariant, PTL

\* The fragments a player's client has or will get, in one list.
IsKnown(acc, arr, p, ahead, known) ==
    /\ known \in Seq(Fragment)
    /\ ToSet(known) = FragmentsOf(arr) \union Held(p, ahead)
    /\ ToSet(known) \subseteq FragmentsOf(acc)
    /\ Pairs(known) \subseteq FragmentOrder(acc)

LEMMA KnownInOrder ==
  ASSUME NEW acc \in Seq(Event), NEW arr \in Seq(Event), NEW p \in Fragment \union {None},
         NEW ahead \in Seq(Fragment), Follows(acc, arr, ahead), Keeps(acc, arr, p, ahead),
         NEW known, known = (ChunksOf(arr) \o Begun(p)) \o ahead
  PROVE  IsKnown(acc, arr, p, ahead, known)
<1>1. PICK a : a = ChunksOf(arr) /\ a \in Seq(Fragment) /\ ToSet(a) = FragmentsOf(arr) /\ Pairs(a) \subseteq FragmentOrder(arr)
  BY FragmentsOfList
<1>2. /\ ToSet(arr) \subseteq ToSet(acc) /\ Pairs(arr) \subseteq Pairs(acc)
      /\ ToSet(ahead) \subseteq FragmentsOf(acc) /\ Pairs(ahead) \subseteq FragmentOrder(acc)
      /\ \A e \in ToSet(arr) : \A f \in ToSet(ahead) : <<e, f.event>> \in Pairs(acc)
  BY DEF Follows
<1>3. FragmentOrder(arr) \subseteq FragmentOrder(acc) /\ FragmentsOf(arr) \subseteq FragmentsOf(acc)
  BY <1>2, OrderGrows
<1>4. p # None => Joins(acc, arr, p, ahead)
  BY DEF Keeps
<1>5. p # None => p \in Fragment /\ p.event \in Event /\ p.index \in Nat /\ Parts[p.event] \in Nat /\ p.index < Parts[p.event]
  BY <1>4, FragmentFields, SomeParts DEF Joins
<1>6. PICK j : /\ j = Begun(p) /\ j \in Seq(Fragment)
               /\ \A f : f \in ToSet(j) => p # None /\ f \in Fragment /\ f.event = p.event /\ f.index < p.index
               /\ \A f, g : <<f, g>> \in Pairs(j) => f \in ToSet(j) /\ g \in ToSet(j) /\ f.event = g.event /\ f.index < g.index
  <2>1. CASE p = None
    <3>1. Begun(p) = <<>> /\ <<>> \in Seq(Fragment)
      BY <2>1, NothingJoined, EmptySeq
    <3> QED BY <3>1, EmptyList
  <2>2. CASE p # None
    <3>1. /\ Begun(p) \in Seq(Fragment)
          /\ \A f : f \in ToSet(Begun(p)) <=> f \in Fragment /\ f.event = p.event /\ f.index < p.index
          /\ \A f, g : <<f, g>> \in Pairs(Begun(p)) => f.event = g.event /\ f.index < g.index
      BY <1>5, <2>2, BegunIs
    <3>2. \A f, g : <<f, g>> \in Pairs(Begun(p)) => f \in ToSet(Begun(p)) /\ g \in ToSet(Begun(p))
      BY PairsArePairs
    <3> QED BY <2>2, <3>1, <3>2
  <2> QED BY <2>1, <2>2
<1>7. PICK b : /\ b = a \o j /\ b \in Seq(Fragment) /\ ToSet(b) = ToSet(a) \union ToSet(j)
               /\ Pairs(b) = Pairs(a) \union Pairs(j) \union (ToSet(a) \X ToSet(j))
  <2>1. a \in Seq(Fragment) /\ j \in Seq(Fragment)
    BY <1>1, <1>6
  <2>2. /\ a \o j \in Seq(Fragment) /\ ToSet(a \o j) = ToSet(a) \union ToSet(j)
        /\ Pairs(a \o j) = Pairs(a) \union Pairs(j) \union (ToSet(a) \X ToSet(j))
    BY <2>1, FragmentLists
  <2> QED BY <2>2
<1>8. PICK k : /\ k = b \o ahead /\ k \in Seq(Fragment) /\ ToSet(k) = ToSet(b) \union ToSet(ahead)
               /\ Pairs(k) = Pairs(b) \union Pairs(ahead) \union (ToSet(b) \X ToSet(ahead))
  <2>1. b \in Seq(Fragment)
    BY <1>7
  <2>2. /\ b \o ahead \in Seq(Fragment) /\ ToSet(b \o ahead) = ToSet(b) \union ToSet(ahead)
        /\ Pairs(b \o ahead) = Pairs(b) \union Pairs(ahead) \union (ToSet(b) \X ToSet(ahead))
    BY <2>1, FragmentLists
  <2> QED BY <2>2
<1>9. ToSet(k) = FragmentsOf(arr) \union Held(p, ahead)
  BY <1>1, <1>6, <1>7, <1>8 DEF Held
<1>10. ToSet(j) \subseteq FragmentsOf(acc)
  <2>1. SUFFICES ASSUME NEW f \in ToSet(j) PROVE f \in FragmentsOf(acc)
    OBVIOUS
  <2>2. p # None /\ f \in Fragment /\ f.event = p.event /\ f.index < p.index
    BY <1>6
  <2>3. p.event \in ToSet(acc) /\ p.index < Parts[p.event] /\ f.index \in Nat /\ p.index \in Nat /\ Parts[p.event] \in Nat
    BY <1>4, <1>5, <2>2, FragmentFields DEF Joins
  <2>4. f.index < Parts[f.event]
    BY <2>2, <2>3
  <2> QED BY <2>2, <2>3, <2>4 DEF FragmentsOf
<1>11. ToSet(k) \subseteq FragmentsOf(acc)
  BY <1>1, <1>2, <1>3, <1>7, <1>8, <1>10
<1>12. ASSUME NEW f, NEW g, <<f, g>> \in Pairs(k) PROVE <<f, g>> \in FragmentOrder(acc)
  <2>1. f \in Fragment /\ g \in Fragment
    <3>1. f \in ToSet(k) /\ g \in ToSet(k)
      BY <1>12, PairsArePairs
    <3> QED BY <1>11, <3>1 DEF FragmentsOf
  <2>2. CASE <<f, g>> \in Pairs(a) \/ <<f, g>> \in Pairs(ahead)
    BY <1>1, <1>2, <1>3, <2>2
  <2>3. CASE <<f, g>> \in Pairs(j)
    BY <1>6, <2>1, <2>3, FragmentsInOrder
  <2>4. CASE f \in ToSet(a) /\ g \in ToSet(j)
    <3>1. f.event \in ToSet(arr) /\ p # None /\ g.event = p.event
      BY <1>1, <1>6, <2>4 DEF FragmentsOf
    <3>2. <<f.event, p.event>> \in Pairs(acc)
      BY <1>4, <3>1 DEF Joins
    <3> QED BY <2>1, <3>1, <3>2, FragmentsInOrder
  <2>5. CASE f \in ToSet(a) /\ g \in ToSet(ahead)
    <3>1. f.event \in ToSet(arr)
      BY <1>1, <2>5 DEF FragmentsOf
    <3> QED BY <1>2, <2>1, <2>5, <3>1, FragmentsInOrder
  <2>6. CASE f \in ToSet(j) /\ g \in ToSet(ahead)
    <3>1. p # None /\ f.event = p.event /\ f.index < p.index
      BY <1>6, <2>6
    <3>2. <<p.event, g.event>> \in Pairs(acc) \/ (g.event = p.event /\ g.index >= p.index)
      BY <1>4, <2>6, <3>1 DEF Joins
    <3>3. f.index \in Nat /\ g.index \in Nat /\ p.index \in Nat
      BY <1>5, <2>1, <3>1, FragmentFields
    <3>4. <<f.event, g.event>> \in Pairs(acc) \/ (f.event = g.event /\ f.index < g.index)
      <4>1. CASE <<p.event, g.event>> \in Pairs(acc)
        BY <3>1, <4>1
      <4>2. CASE g.event = p.event /\ g.index >= p.index
        BY <3>1, <3>3, <4>2
      <4> QED BY <3>2, <4>1, <4>2
    <3> QED BY <2>1, <3>4, FragmentsInOrder
  <2> QED BY <1>7, <1>8, <1>12, <2>2, <2>3, <2>4, <2>5, <2>6
<1>13. Pairs(k) \subseteq FragmentOrder(acc)
  <2>1. SUFFICES ASSUME NEW x, x \in Pairs(k) PROVE x \in FragmentOrder(acc)
    OBVIOUS
  <2>2. x = <<x[1], x[2]>>
    BY <2>1, PairsArePairs
  <2>3. PICK f, g : f = x[1] /\ g = x[2]
    OBVIOUS
  <2> QED BY <1>12, <2>1, <2>2, <2>3
<1> QED BY <1>1, <1>6, <1>7, <1>8, <1>9, <1>11, <1>13 DEF IsKnown

\* While nothing excuses a loss, the fragments of the accepted events the economy
\* wants are all somewhere between the server's queue and the client's economy,
\* each once and in the order of acceptance, whatever the interleaving of server
\* frames, deliveries, batches, failed transactions and map changes.
THEOREM NothingLostWithoutCauseAlways == Spec => []NothingLostWithoutCause
<1>1. ASSUME IInv, NEW u \in User, ~excused[u]
      PROVE  LET sent == ChunksOf(accepted[u])
                 known == ChunksOf(Arrived(u)) \o Joined(u) \o channel[u] \o pending[u]
             IN  /\ \A f \in ToSet(sent) : f.event \notin Rejected => f \in ToSet(known)
                 /\ ToSet(known) \subseteq ToSet(sent)
                 /\ Pairs(known) \subseteq Pairs(sent)
                 /\ \A f \in ToSet(known) : <<f, f>> \notin Pairs(known)
  <2>1. Shapes
    BY <1>1 DEF IInv, TypeOK, Shapes
  <2>2. PICK acc, arr, p, c, q, ahead :
            /\ acc = accepted[u] /\ arr = Arrived(u) /\ p = partial[u] /\ c = channel[u] /\ q = pending[u]
            /\ ahead = c \o q /\ acc \in Seq(Event) /\ arr \in Seq(Event) /\ p \in Fragment \union {None}
            /\ c \in Seq(Fragment) /\ q \in Seq(Fragment) /\ ahead \in Seq(Fragment)
    BY <2>1, Lists DEF Ahead
  <2>3. Follows(acc, arr, ahead) /\ Keeps(acc, arr, p, ahead)
    BY <1>1, <2>2 DEF IInv, SOrder, SKeeping, Ahead
  <2>4. PICK k : /\ k = (ChunksOf(arr) \o Begun(p)) \o ahead /\ k \in Seq(Fragment)
                 /\ ToSet(k) = FragmentsOf(arr) \union Held(p, ahead)
                 /\ ToSet(k) \subseteq FragmentsOf(acc) /\ Pairs(k) \subseteq FragmentOrder(acc)
    <3>1. PICK k : k = (ChunksOf(arr) \o Begun(p)) \o ahead
      OBVIOUS
    <3>2. acc \in Seq(Event) /\ arr \in Seq(Event) /\ p \in Fragment \union {None} /\ ahead \in Seq(Fragment)
      BY <2>2
    <3>3. IsKnown(acc, arr, p, ahead, k)
      BY <2>3, <3>1, <3>2, KnownInOrder
    <3> QED BY <3>1, <3>3 DEF IsKnown
  <2>5. ChunksOf(Arrived(u)) \o Joined(u) \o channel[u] \o pending[u] = k
    <3>1. Joined(u) = Begun(p)
      BY <2>2 DEF Joined, Begun
    <3>2. PICK b : b = ChunksOf(arr) \o Begun(p) /\ b \in Seq(Fragment)
      <4>1. Begun(p) \in Seq(Fragment)
        <5>1. CASE p = None
          BY <5>1, NothingJoined, EmptySeq
        <5>2. CASE p # None
          <6>1. p \in Fragment /\ p.index < Parts[p.event]
            BY <2>2, <2>3, <5>2 DEF Keeps, Joins
          <6>2. p.index \in Nat /\ Parts[p.event] \in Nat
            BY <6>1, FragmentFields, SomeParts
          <6>3. p.index <= Parts[p.event]
            BY <6>1, <6>2
          <6> QED BY <6>1, <6>3, BegunIs
        <5> QED BY <5>1, <5>2
      <4>2. ChunksOf(arr) \in Seq(Fragment)
        BY <2>2, FragmentsOfList
      <4> QED BY <4>1, <4>2, FragmentLists
    <3>3. (b \o c) \o q = b \o (c \o q)
      <4>1. b \in Seq(Fragment) /\ c \in Seq(Fragment) /\ q \in Seq(Fragment)
        BY <2>2, <3>2
      <4> QED BY <4>1, FragmentsAssociate
    <3> QED BY <2>2, <2>4, <3>1, <3>2, <3>3
  <2>6. PICK s : s = ChunksOf(acc) /\ s \in Seq(Fragment) /\ ToSet(s) = FragmentsOf(acc)
    BY <2>2, FragmentsOfList
  <2>7. NoRepeats(acc)
    BY <2>3 DEF Follows
  <2>8. ASSUME NEW f \in ToSet(s), f.event \notin Rejected PROVE f \in ToSet(k)
    <3>1. f \in Fragment /\ f.event \in ToSet(acc) /\ f.index < Parts[f.event] /\ f.event \in Event
      BY <2>6, <2>8, FragmentFields DEF FragmentsOf
    <3>2. f.event \in ToSet(arr) \/ AllFragments(f.event) \subseteq Held(p, ahead)
      BY <2>3, <2>8, <3>1 DEF Keeps
    <3>3. f \in AllFragments(f.event)
      BY <3>1, OfAnEvent
    <3> QED BY <2>4, <3>1, <3>2, <3>3 DEF FragmentsOf
  <2>9. \A f : <<f, f>> \notin Pairs(k)
    BY <2>2, <2>4, <2>7, StrictFragmentOrder
  <2>10. Pairs(k) \subseteq Pairs(s)
    <3>1. SUFFICES ASSUME NEW x, x \in Pairs(k) PROVE x \in Pairs(s)
      OBVIOUS
    <3>2. PICK f, g : f = x[1] /\ g = x[2] /\ x = <<f, g>> /\ f \in ToSet(k) /\ g \in ToSet(k)
      BY <3>1, PairsArePairs
    <3>3. f \in FragmentsOf(acc) /\ g \in FragmentsOf(acc) /\ <<f, g>> \in FragmentOrder(acc)
      BY <2>4, <3>1, <3>2
    <3>4. <<f, g>> \in Pairs(ChunksOf(acc))
      BY <2>2, <2>7, <3>3, OrderOfFragments
    <3> QED BY <2>6, <3>2, <3>4
  <2>11. ToSet(k) \subseteq ToSet(s)
    BY <2>4, <2>6
  <2> QED BY <2>2, <2>5, <2>6, <2>8, <2>9, <2>10, <2>11
<1>2. IInv => NothingLostWithoutCause
  BY <1>1 DEF NothingLostWithoutCause
<1> QED BY <1>2, Invariant, PTL
=============================================================================
