--------------------------- MODULE ContractsProofs ---------------------------
(***************************************************************************)
(* Proofs about Contracts for any contracts, prices, time limits and       *)
(* purchases, any number of places and any resolution of the clock.        *)
(***************************************************************************)
EXTENDS Contracts, FiniteSetTheorems, TLAPS

-----------------------------------------------------------------------------
(* The inductive invariant *)

Typed ==
    /\ now \in 0..MaxTime /\ playing \in BOOLEAN
    /\ entry \in [Contract -> Entry]
    /\ token \in [Contract -> 0..1]
    /\ wallet \in 0..Credits
    /\ bought \in [Tx -> Contract \union {None}]
    /\ timer \in [Contract -> Timer \union {None}]
    /\ due \in BOOLEAN /\ sampled \in BOOLEAN
    /\ matchTime \in 0..now
    /\ activations \in [Contract -> Nat]
    /\ started \in [Contract -> Nat]

\* What an entry has counted stays within its contract.
EntriesFit ==
    \A c \in Contract :
        /\ entry[c].progress <= Target[c] /\ entry[c].usage <= UsageTarget[c]
        /\ entry[c].status = "inProgress" => entry[c].progress < Target[c]
        /\ started[c] <= matchTime

\* Generations are given in order, and a timer has one its entry has had.
Numbered ==
    /\ IsFiniteSet(Units(activations)) /\ Cardinality(Units(activations)) <= MaxActivations
    /\ \A c \in Contract :
        /\ entry[c].generation <= Cardinality(Units(activations))
        /\ timer[c] # None => timer[c].generation <= entry[c].generation

\* The two halves of TokensAreConserved.
TokensCounted ==
    \A c \in Contract : token[c] + activations[c] = Cardinality({t \in Tx : bought[t] = c})
MoneyCounted == IsFiniteSet(Units(Paid)) /\ wallet + Cardinality(Units(Paid)) = Credits

\* A token that is there belongs to a contract that neither runs nor has
\* ended on this day.
TokensWait ==
    \A c \in Contract :
        /\ entry[c].day <= DayOf(now)
        /\ token[c] > 0 => /\ ~Active(c)
                           /\ entry[c].status \in {"finished", "expired"} => entry[c].day < DayOf(now)

\* Boards that offer every contract on every day, as that of Zombies does.
AllOnBoard == \A d \in Day : OnBoard[d] = Contract
Held == {c \in Contract : Active(c) \/ token[c] > 0}
PlacesSuffice == AllOnBoard => Cardinality(Held) <= MaxActive

\* Match time since the last sample of a timer.
Running(c) == IF playing /\ timer[c].last # None THEN now - timer[c].last ELSE 0
Recent ==
    \A c \in Contract : timer[c] # None =>
        /\ timer[c].last # None => timer[c].last <= now
        /\ sampled /\ ~playing => timer[c].last = None

\* ChargedOnlyPlayTime, with the time that the next sample will find.
Clocked ==
    \A c \in Contract : entry[c].status = "inProgress" =>
        /\ entry[c].usage * SecondTicks <= matchTime - started[c]
        /\ timer[c] # None /\ Matches(timer[c], entry[c]) =>
              entry[c].usage * SecondTicks + timer[c].pending + Running(c) <= matchTime - started[c]

IInv == /\ Typed /\ EntriesFit /\ Numbered /\ TokensCounted /\ MoneyCounted
        /\ TokensWait /\ PlacesSuffice /\ Recent /\ Clocked

-----------------------------------------------------------------------------
(* Sums and divisions *)

\* A count for each member of S, and the count with n more of one x.
Counting(f, S) == f \in [S -> Nat]
Raised(f, x, n) == [f EXCEPT ![x] = f[x] + n]

\* More units of one x are as many more in the sum.
LEMMA MoreUnits ==
  ASSUME NEW S, NEW f, Counting(f, S), NEW x \in S, NEW n \in Nat, IsFiniteSet(Units(f)),
         NEW g, g = Raised(f, x, n)
  PROVE  IsFiniteSet(Units(g)) /\ Cardinality(Units(g)) = Cardinality(Units(f)) + n
<1>0. f \in [S -> Nat] /\ g = [f EXCEPT ![x] = f[x] + n]
  BY DEF Counting, Raised
<1> USE <1>0
<1>1. PICK A : A = {x} \X (f[x] + 1..f[x] + n)
  OBVIOUS
<1>2. IsFiniteSet(A) /\ Cardinality(A) = n
  <2>1. PICK k : k = f[x] /\ k \in Nat
    OBVIOUS
  <2>2. IsFiniteSet(k + 1..k + n) /\ Cardinality(k + 1..k + n) = n
    <3>1. PICK lo, hi : lo \in Int /\ hi \in Int /\ lo = k + 1 /\ hi = k + n
      BY <2>1
    <3>2. IsFiniteSet(lo..hi) /\ Cardinality(lo..hi) = IF lo > hi THEN 0 ELSE hi - lo + 1
      BY <3>1, FS_Interval
    <3> QED BY <2>1, <3>1, <3>2
  <2>3. IsFiniteSet({x}) /\ Cardinality({x}) = 1
    BY FS_Singleton
  <2>4. PICK U, V : /\ U = {x} /\ V = k + 1..k + n /\ IsFiniteSet(U) /\ IsFiniteSet(V)
                    /\ Cardinality(U) = 1 /\ Cardinality(V) = n
    BY <2>2, <2>3
  <2>5. IsFiniteSet(U \X V) /\ Cardinality(U \X V) = 1 * n
    <3>1. IsFiniteSet(U \X V) /\ Cardinality(U \X V) = Cardinality(U) * Cardinality(V)
      BY <2>4, FS_Product, Zenon
    <3> QED BY <2>4, <3>1
  <2> QED BY <1>1, <2>1, <2>4, <2>5
<1>3. Units(g) = Units(f) \union A
  <2>1. DOMAIN g = S /\ g[x] = f[x] + n /\ \A y \in S : y # x => g[y] = f[y]
    OBVIOUS
  <2>2. 1..f[x] + n = 1..f[x] \union (f[x] + 1..f[x] + n)
    OBVIOUS
  <2>3. {x} \X (1..g[x]) = ({x} \X (1..f[x])) \union A
    BY <1>1, <2>1, <2>2
  <2> QED BY <2>1, <2>3 DEF Units
<1>4. Units(f) \cap A = {}
  <2>1. ASSUME NEW u \in Units(f), u \in A PROVE FALSE
    <3>1. PICK y \in S : u \in {y} \X (1..f[y])
      BY DEF Units
    <3>2. u[1] = y /\ u[2] \in 1..f[y] /\ u[1] = x /\ u[2] \in f[x] + 1..f[x] + n
      BY <1>1, <2>1, <3>1
    <3> QED BY <3>2
  <2> QED BY <2>1
<1>5. PICK F, G, I : /\ F = Units(f) /\ G = Units(g) /\ I = F \cap A
                     /\ IsFiniteSet(F) /\ G = F \union A /\ I = {}
  BY <1>3, <1>4
<1> HIDE <1>0
<1>6. Cardinality(F) \in Nat /\ Cardinality(I) = 0
  BY <1>5, FS_CardinalityType, FS_EmptySet
<1>7. IsFiniteSet(G) /\ Cardinality(G) = Cardinality(F) + Cardinality(A) - Cardinality(I)
  BY <1>2, <1>5, FS_Union
<1> QED BY <1>2, <1>5, <1>6, <1>7

LEMMA NoUnits ==
  ASSUME NEW S, NEW f, f = [x \in S |-> 0]
  PROVE  IsFiniteSet(Units(f)) /\ Cardinality(Units(f)) = 0
<1>1. Units(f) = {}
  <2>1. \A x \in S : {x} \X (1..f[x]) = {}
    OBVIOUS
  <2> QED BY <2>1 DEF Units
<1> QED BY <1>1, FS_EmptySet

LEMMA WholeSeconds ==
  ASSUME NEW p \in Nat
  PROVE  Seconds(p) \in Nat /\ Seconds(p) * SecondTicks \in Nat /\ Seconds(p) * SecondTicks <= p
<1>1. SecondTicks \in Nat \ {0}
  BY ContractsAssumption
<1>2. p \div SecondTicks \in Int /\ p % SecondTicks \in 0..SecondTicks - 1
      /\ p = SecondTicks * (p \div SecondTicks) + (p % SecondTicks)
  BY <1>1
<1> QED BY <1>1, <1>2 DEF Seconds

LEMMA DaysInOrder ==
  ASSUME NEW p \in Nat, NEW q \in Nat, p <= q
  PROVE  DayOf(p) \in Nat /\ DayOf(p) <= DayOf(q)
<1>1. PICK D \in Nat \ {0} : D = DayTicks
  BY ContractsAssumption
<1>2. p \div D \in Int /\ p % D \in 0..D - 1 /\ p = D * (p \div D) + (p % D)
  OBVIOUS
<1>3. q \div D \in Int /\ q % D \in 0..D - 1 /\ q = D * (q \div D) + (q % D)
  OBVIOUS
<1>4. ASSUME NEW a \in Int, NEW b \in Int, NEW m \in 0..D - 1, NEW n \in 0..D - 1, b + 1 <= a
      PROVE  D * b + n < D * a + m
  <2>1. D * (b + 1) <= D * a
    BY <1>4
  <2> QED BY <1>4, <2>1
<1> QED BY <1>1, <1>2, <1>3, <1>4 DEF DayOf

LEMMA ADay == ASSUME NEW t \in 0..MaxTime PROVE DayOf(t) \in Day
<1>1. MaxTime \in Nat
  BY ContractsAssumption
<1> QED BY <1>1, DaysInOrder DEF Day, DayOf

-----------------------------------------------------------------------------
(* Initially *)

LEMMA InitInv == Init => IInv
<1> SUFFICES ASSUME Init PROVE IInv
  OBVIOUS
<1> USE DEF Init
<1>1. DayOf(0) \in Day /\ DayOf(0) = 0
  <2>1. MaxTime \in Nat /\ DayTicks \in Nat \ {0}
    BY ContractsAssumption
  <2>2. 0 \div DayTicks = 0
    BY <2>1
  <2> QED BY <2>1, <2>2, ADay DEF DayOf
<1>2. Typed
  <2>1. [status |-> "absent", day |-> 0, progress |-> 0, usage |-> 0, since |-> 0, generation |-> 0] \in Entry
    BY <1>1 DEF Entry, Status
  <2>2. entry \in [Contract -> Entry]
    BY <2>1
  <2>3. MaxTime \in Nat /\ Credits \in Nat
    BY ContractsAssumption
  <2>4. now \in 0..MaxTime /\ matchTime \in 0..now /\ wallet \in 0..Credits
    BY <2>3
  <2>5. /\ token \in [Contract -> 0..1] /\ timer \in [Contract -> Timer \union {None}]
        /\ activations \in [Contract -> Nat] /\ started \in [Contract -> Nat]
        /\ bought \in [Tx -> Contract \union {None}]
    OBVIOUS
  <2>6. playing \in BOOLEAN /\ due \in BOOLEAN /\ sampled \in BOOLEAN
    OBVIOUS
  <2> QED BY <2>2, <2>4, <2>5, <2>6 DEF Typed
<1>3. EntriesFit
  BY ContractsAssumption DEF EntriesFit
<1>4. Numbered
  <2>1. IsFiniteSet(Units(activations)) /\ Cardinality(Units(activations)) = 0
    BY NoUnits
  <2> QED BY <2>1, ContractsAssumption DEF Numbered
<1>5. TokensCounted
  <2>1. ASSUME NEW c \in Contract PROVE {t \in Tx : bought[t] = c} = {}
    BY ContractsAssumption
  <2> QED BY <2>1, FS_EmptySet DEF TokensCounted
<1>6. MoneyCounted
  <2>1. Paid = [t \in Tx |-> 0]
    BY DEF Paid
  <2>2. IsFiniteSet(Units(Paid)) /\ Cardinality(Units(Paid)) = 0
    BY <2>1, NoUnits
  <2> QED BY <2>2, ContractsAssumption DEF MoneyCounted
<1>7. TokensWait
  BY <1>1 DEF TokensWait
<1>8. PlacesSuffice
  <2>1. Held = {}
    BY DEF Held, Active
  <2> QED BY <2>1, FS_EmptySet, ContractsAssumption DEF PlacesSuffice
<1>9. Recent /\ Clocked
  BY DEF Recent, Clocked
<1> QED BY <1>2, <1>3, <1>4, <1>5, <1>6, <1>7, <1>8, <1>9 DEF IInv

-----------------------------------------------------------------------------
(* The requests *)

LEMMA PurchaseKeeps ==
  ASSUME IInv, NEW tx \in Tx, NEW c \in Contract, Purchase(tx, c)
  PROVE  IInv'
<1> USE DEF Purchase
<1>1. PICK p \in Nat : p = Price[c] /\ wallet' = wallet - p /\ wallet >= p
  BY ContractsAssumption
<1>2. bought' = [bought EXCEPT ![tx] = c] /\ bought[tx] = None /\ c # None
  BY ContractsAssumption DEF IsReplay
<1>3. Typed'
  BY <1>1, <1>2, ContractsAssumption DEF IInv, Typed, clockVars
<1>4. EntriesFit' /\ Numbered' /\ Recent'
  BY DEF IInv, EntriesFit, Numbered, Recent, clockVars
<1>5. Clocked'
  BY DEF IInv, Clocked, Running, Matches, MatchesByTime, clockVars
<1>6. TokensCounted'
  <2> SUFFICES ASSUME NEW d \in Contract
               PROVE  token'[d] + activations'[d] = Cardinality({t \in Tx : bought'[t] = d})
    BY DEF TokensCounted
  <2>1. PICK S, T : S = {t \in Tx : bought[t] = d} /\ T = {t \in Tx : bought'[t] = d}
    OBVIOUS
  <2>2. IsFiniteSet(S)
    BY <2>1, ContractsAssumption, FS_Subset
  <2>3. token[d] \in 0..1 /\ activations[d] \in Nat /\ token[d] + activations[d] = Cardinality(S)
    BY <2>1 DEF IInv, Typed, TokensCounted
  <2>4. CASE d = c
    <3>1. T = S \union {tx} /\ tx \notin S
      BY <1>2, <2>1, <2>4 DEF IInv, Typed
    <3>2. Cardinality(T) = Cardinality(S) + 1
      BY <2>2, <3>1, FS_AddElement
    <3>3. token'[d] = 1 /\ token[d] = 0
      BY <2>4 DEF IInv, Typed
    <3> QED BY <2>1, <2>3, <3>2, <3>3
  <2>5. CASE d # c
    <3>1. T = S
      BY <1>2, <2>1, <2>5, ContractsAssumption DEF IInv, Typed
    <3> QED BY <2>1, <2>3, <2>5, <3>1 DEF IInv, Typed
  <2> QED BY <2>4, <2>5
<1>7. MoneyCounted'
  <2>1. PICK f, g : f = Paid /\ g = Paid'
    OBVIOUS
  <2>2. f \in [Tx -> Nat] /\ f[tx] = 0 /\ g = [f EXCEPT ![tx] = f[tx] + p]
    <3>1. bought \in [Tx -> Contract \union {None}] /\ Price \in [Contract -> Nat]
      BY ContractsAssumption DEF IInv, Typed
    <3>2. f = [t \in Tx |-> IF bought[t] = None THEN 0 ELSE Price[bought[t]]]
      BY <2>1 DEF Paid
    <3>3. g = [t \in Tx |-> IF bought'[t] = None THEN 0 ELSE Price[bought'[t]]]
      BY <2>1 DEF Paid
    <3>4. f \in [Tx -> Nat] /\ f[tx] = 0
      BY <1>2, <3>1, <3>2
    <3>5. \A t \in Tx : g[t] = IF t = tx THEN p ELSE f[t]
      BY <1>1, <1>2, <3>1, <3>2, <3>3
    <3>6. g = [t \in Tx |-> IF t = tx THEN p ELSE f[t]]
      BY <3>3, <3>5
    <3>7. f[tx] + p = p
      BY <3>4
    <3> QED BY <3>4, <3>6, <3>7
  <2>3. IsFiniteSet(Units(f)) /\ Cardinality(Units(f)) \in Nat /\ wallet + Cardinality(Units(f)) = Credits
    BY <2>1, FS_CardinalityType DEF IInv, MoneyCounted
  <2>4. IsFiniteSet(Units(g)) /\ Cardinality(Units(g)) = Cardinality(Units(f)) + p
    <3>1. Counting(f, Tx) /\ g = Raised(f, tx, p)
      BY <2>2 DEF Counting, Raised
    <3> QED BY <2>3, <3>1, MoreUnits
  <2>5. Units(Paid)' = Units(g)
    BY <2>1 DEF Units
  <2> QED BY <1>1, <2>3, <2>4, <2>5 DEF MoneyCounted, IInv, Typed
<1>8. ~Active(c) /\ (entry[c].status \in {"finished", "expired"} => entry[c].day < DayOf(now))
  <2>1. entry[c].day <= DayOf(now) /\ entry[c].day \in Nat
    BY DEF IInv, TokensWait, Typed, Entry, Day
  <2>2. DayOf(now) \in Nat
    BY DaysInOrder DEF IInv, Typed
  <2> QED BY <2>1, <2>2 DEF Eligible, EndedThatDay
<1>9. TokensWait'
  BY <1>8 DEF IInv, TokensWait, Active, DayOf, Typed
<1>10. PlacesSuffice'
  <2> SUFFICES ASSUME AllOnBoard PROVE Cardinality(Held') <= MaxActive
    BY DEF PlacesSuffice
  <2>1. PICK U : U = PlacesTaken(c, DayOf(now))
    OBVIOUS
  <2>2. U \subseteq Contract /\ IsFiniteSet(U) /\ Cardinality(U) \in Nat /\ Cardinality(U) < MaxActive
    <3>1. U \subseteq Contract
      <4>1. DayOf(now) \in Day
        BY ADay DEF IInv, Typed
      <4> QED BY <2>1, <4>1, ContractsAssumption DEF PlacesTaken, ActiveContracts
    <3>2. IsFiniteSet(U)
      BY <3>1, ContractsAssumption, FS_Subset
    <3> QED BY <2>1, <3>1, <3>2, FS_CardinalityType DEF Eligible
  <2>3. Held' \subseteq U \union {c}
    <3>1. OnBoard[DayOf(now)] = Contract
      BY ADay DEF AllOnBoard, IInv, Typed
    <3> QED BY <2>1, <3>1 DEF Held, PlacesTaken, ActiveContracts, Active, IInv, Typed
  <2>4. IsFiniteSet(U \union {c}) /\ Cardinality(U \union {c}) <= Cardinality(U) + 1
    <3>1. /\ IsFiniteSet(U \union {c})
          /\ Cardinality(U \union {c}) = IF c \in U THEN Cardinality(U) ELSE Cardinality(U) + 1
      <4>1. IsFiniteSet(U)
        BY <2>2
      <4> QED BY <4>1, FS_AddElement
    <3> QED BY <2>2, <3>1
  <2>5. Cardinality(Held') <= Cardinality(U \union {c}) /\ IsFiniteSet(Held')
    BY <2>3, <2>4, FS_Subset
  <2>6. Cardinality(Held') \in Nat /\ Cardinality(U \union {c}) \in Nat
    BY <2>4, <2>5, FS_CardinalityType
  <2> QED BY <2>2, <2>4, <2>5, <2>6, ContractsAssumption
<1> QED BY <1>3, <1>4, <1>5, <1>6, <1>7, <1>9, <1>10 DEF IInv

LEMMA ActivateKeeps ==
  ASSUME IInv, NEW c \in Contract, NEW at \in {now, now - 1} \cap Nat, Activate(c, at)
  PROVE  IInv'
<1> USE DEF Activate
<1>1. PICK g \in Nat : /\ g = Generation /\ g = Cardinality(Units(activations)) + 1
                       /\ g <= MaxActivations
  BY FS_CardinalityType DEF IInv, Numbered, Generation
<1>2. PICK e \in Entry : /\ e = [status |-> "inProgress", day |-> DayOf(at), progress |-> 0,
                                 usage |-> 0, since |-> Seconds(at), generation |-> g]
                         /\ e.day <= DayOf(now)
  <2>1. at \in 0..MaxTime /\ at <= now /\ now \in Nat
    BY ContractsAssumption DEF IInv, Typed
  <2>2. DayOf(at) \in Day /\ DayOf(at) <= DayOf(now) /\ Seconds(at) \in Nat
    BY <2>1, ADay, DaysInOrder, WholeSeconds
  <2>3. PICK day \in Day, since \in Nat : day = DayOf(at) /\ since = Seconds(at) /\ day <= DayOf(now)
    BY <2>2
  <2>4. [status |-> "inProgress", day |-> day, progress |-> 0, usage |-> 0, since |-> since,
         generation |-> g] \in Entry
    BY DEF Entry, Status
  <2> QED BY <2>3, <2>4
<1>3. entry' = [entry EXCEPT ![c] = e]
  BY <1>1, <1>2
<1>4. token[c] = 1 /\ token' = [token EXCEPT ![c] = 0]
  <2>1. token[c] = 1
    BY DEF IInv, Typed
  <2> QED BY <2>1 DEF TokenSpent
<1>5. Typed'
  BY <1>3, <1>4 DEF IInv, Typed, clockVars
<1>6. EntriesFit'
  <2>1. entry'[c] = e /\ started'[c] = matchTime /\ matchTime' = matchTime /\ matchTime \in Nat
    BY <1>3 DEF IInv, Typed
  <2>2. Target[c] \in Nat \ {0} /\ UsageTarget[c] \in Nat \ {0}
    BY ContractsAssumption
  <2>3. ASSUME NEW d \in Contract, d # c PROVE entry'[d] = entry[d] /\ started'[d] = started[d]
    BY <1>3, <2>3 DEF IInv, Typed
  <2> QED BY <1>2, <2>1, <2>2, <2>3 DEF IInv, EntriesFit
<1>7. IsFiniteSet(Units(activations)') /\ Cardinality(Units(activations)') = g
  <2>1. PICK f, h : f = activations /\ h = activations' /\ f \in [Contract -> Nat]
    BY DEF IInv, Typed
  <2>2. h = [f EXCEPT ![c] = f[c] + 1] /\ IsFiniteSet(Units(f))
    BY <2>1 DEF IInv, Numbered
  <2>3. IsFiniteSet(Units(h)) /\ Cardinality(Units(h)) = Cardinality(Units(f)) + 1
    <3>1. PICK n \in Nat : n = 1 /\ h = [f EXCEPT ![c] = f[c] + n]
      BY <2>2
    <3>2. /\ f \in [Contract -> Nat] /\ n \in Nat /\ IsFiniteSet(Units(f))
          /\ h = [f EXCEPT ![c] = f[c] + n]
      BY <2>1, <2>2, <3>1
    <3>3. IsFiniteSet(Units(h)) /\ Cardinality(Units(h)) = Cardinality(Units(f)) + n
      <4>1. Counting(f, Contract) /\ h = Raised(f, c, n)
        BY <3>2 DEF Counting, Raised
      <4>2. n \in Nat /\ IsFiniteSet(Units(f))
        BY <3>2
      <4> QED BY <4>1, <4>2, MoreUnits
    <3> QED BY <3>1, <3>3
  <2>4. Units(activations)' = Units(h)
    BY <2>1 DEF Units
  <2> QED BY <1>1, <2>1, <2>3, <2>4
<1>8. Numbered'
  <2>1. PICK k \in Nat : k = Cardinality(Units(activations)) /\ g = k + 1
    BY <1>1, FS_CardinalityType DEF IInv, Numbered
  <2>2. ASSUME NEW d \in Contract
        PROVE  /\ entry'[d].generation <= g
               /\ timer'[d] # None => timer'[d].generation <= entry'[d].generation
    <3>1. entry[d].generation \in Nat /\ entry[d].generation <= k
          /\ (timer[d] # None => timer[d].generation \in Nat /\ timer[d].generation <= entry[d].generation)
      BY <2>1 DEF IInv, Numbered, Typed, Entry, Timer
    <3>2. timer' = timer /\ entry'[d] = IF d = c THEN e ELSE entry[d]
      BY <1>3 DEF IInv, Typed, clockVars
    <3> QED BY <1>2, <2>1, <3>1, <3>2
  <2> QED BY <1>1, <1>7, <2>2 DEF Numbered
<1>9. TokensCounted' /\ MoneyCounted'
  <2>1. Units(Paid)' = Units(Paid)
    BY DEF Units, Paid
  <2> QED BY <1>4, <2>1 DEF IInv, Typed, TokensCounted, MoneyCounted
<1>10. TokensWait'
  <2>1. DayOf(now)' = DayOf(now)
    BY DEF DayOf
  <2>2. ASSUME NEW d \in Contract, d # c PROVE entry'[d] = entry[d] /\ token'[d] = token[d]
    BY <1>3, <1>4, <2>2 DEF IInv, Typed
  <2>3. entry'[c] = e /\ token'[c] = 0
    BY <1>3, <1>4 DEF IInv, Typed
  <2> QED BY <1>2, <2>1, <2>2, <2>3 DEF IInv, TokensWait, Active
<1>11. PlacesSuffice'
  <2>1. Held' \subseteq Held
    BY <1>3, <1>4 DEF Held, Active, IInv, Typed
  <2>2. IsFiniteSet(Held)
    BY ContractsAssumption, FS_Subset DEF Held
  <2>3. PICK H, K : H = Held /\ K = Held'
    OBVIOUS
  <2>4. IsFiniteSet(K) /\ Cardinality(K) <= Cardinality(H) /\ Cardinality(H) \in Nat /\ Cardinality(K) \in Nat
    BY <2>1, <2>2, <2>3, FS_Subset, FS_CardinalityType
  <2> QED BY <2>3, <2>4, ContractsAssumption DEF IInv, PlacesSuffice, AllOnBoard
<1>12. Recent'
  BY DEF IInv, Recent, clockVars
<1>13. Clocked'
  <2>1. ASSUME NEW d \in Contract, d # c
        PROVE  /\ entry'[d] = entry[d] /\ timer'[d] = timer[d] /\ started'[d] = started[d]
               /\ Running(d)' = Running(d) /\ matchTime' = matchTime
    BY <1>3, <2>1 DEF IInv, Typed, clockVars, Running
  <2>2. entry'[c] = e /\ started'[c] = matchTime /\ timer' = timer /\ matchTime' = matchTime
    BY <1>3 DEF IInv, Typed, clockVars
  <2>3. timer[c] # None => timer[c].generation < g
    <3>1. PICK k \in Nat : k = Cardinality(Units(activations)) /\ g = k + 1
      BY <1>1, FS_CardinalityType DEF IInv, Numbered
    <3> QED BY <3>1 DEF IInv, Numbered, Typed, Entry, Timer
  <2>4. timer'[c] # None => ~Matches(timer'[c], entry'[c])
    BY <1>2, <2>2, <2>3 DEF Matches, IInv, Typed, Timer
  <2>5. entry'[c].usage * SecondTicks <= matchTime' - started'[c]
    BY <1>2, <2>2, ContractsAssumption DEF IInv, Typed
  <2> QED BY <2>1, <2>4, <2>5 DEF IInv, Clocked, Matches, MatchesByTime
<1> QED BY <1>5, <1>6, <1>8, <1>9, <1>10, <1>11, <1>12, <1>13 DEF IInv

\* An active contract changes: an event counts, it is claimed or abandoned.
LEMMA ActiveChanges ==
  ASSUME IInv, NEW c \in Contract, NEW e \in Entry, Active(c), entry' = [entry EXCEPT ![c] = e],
         e.progress <= Target[c], e.usage <= UsageTarget[c], e.day <= DayOf(now),
         e.generation = entry[c].generation,
         e.status = "inProgress" => /\ entry[c].status = "inProgress" /\ e.progress < Target[c]
                                    /\ e.usage = entry[c].usage /\ e.since = entry[c].since,
         UNCHANGED <<now, playing, token, wallet, bought, clockVars, matchTime, activations, started>>
  PROVE  IInv'
<1>1. ASSUME NEW d \in Contract PROVE entry'[d] = IF d = c THEN e ELSE entry[d]
  BY DEF IInv, Typed
<1>2. token[c] = 0
  BY DEF IInv, Typed, TokensWait
<1>3. Typed' /\ EntriesFit'
  BY <1>1 DEF IInv, Typed, EntriesFit, clockVars
<1>4. Numbered' /\ TokensCounted' /\ MoneyCounted'
  <2>1. Units(activations)' = Units(activations) /\ Units(Paid)' = Units(Paid)
    BY DEF Units, Paid
  <2> QED BY <1>1, <2>1 DEF IInv, Numbered, TokensCounted, MoneyCounted, clockVars
<1>5. TokensWait'
  <2>1. DayOf(now)' = DayOf(now)
    BY DEF DayOf
  <2> QED BY <1>1, <1>2, <2>1 DEF IInv, TokensWait, Active
<1>6. PlacesSuffice'
  <2>1. Held' \subseteq Held
    BY <1>1 DEF Held, Active
  <2>2. IsFiniteSet(Held)
    BY ContractsAssumption, FS_Subset DEF Held
  <2>3. PICK H, K : H = Held /\ K = Held'
    OBVIOUS
  <2>4. IsFiniteSet(K) /\ Cardinality(K) <= Cardinality(H) /\ Cardinality(H) \in Nat /\ Cardinality(K) \in Nat
    BY <2>1, <2>2, <2>3, FS_Subset, FS_CardinalityType
  <2> QED BY <2>3, <2>4, ContractsAssumption DEF IInv, PlacesSuffice, AllOnBoard
<1>7. Recent'
  BY DEF IInv, Recent, clockVars
<1>8. Clocked'
  <2>1. ASSUME NEW d \in Contract
        PROVE  timer'[d] = timer[d] /\ started'[d] = started[d] /\ Running(d)' = Running(d) /\ matchTime' = matchTime
    BY DEF clockVars, Running
  <2> QED BY <1>1, <2>1 DEF IInv, Clocked, Matches, MatchesByTime
<1> QED BY <1>3, <1>4, <1>5, <1>6, <1>7, <1>8 DEF IInv

LEMMA RequestKeeps ==
  ASSUME IInv, NEW c \in Contract, Score(c) \/ Claim(c)
               \/ \E at \in {now, now - 1} \cap Nat : Deactivate(c, at)
  PROVE  IInv'
<1>1. entry[c] \in Entry /\ entry[c].day <= DayOf(now) /\ Target[c] \in Nat \ {0}
  BY ContractsAssumption DEF IInv, Typed, TokensWait
<1>2. CASE Score(c)
  <2>0. PICK n \in Nat, st \in Status : /\ n = entry[c].progress + 1
                                        /\ st = IF n >= Target[c] THEN "claimable" ELSE "inProgress"
    BY <1>1 DEF Entry, Status
  <2>1. PICK e : e = [entry[c] EXCEPT !.progress = n, !.status = st]
    OBVIOUS
  <2>2. /\ e \in Entry /\ e.usage = entry[c].usage /\ e.day = entry[c].day /\ e.since = entry[c].since
        /\ e.generation = entry[c].generation /\ e.progress = n /\ e.status = st
    BY <1>1, <2>1 DEF Entry
  <2>3. entry' = [entry EXCEPT ![c] = e] /\ entry[c].status = "inProgress"
    BY <1>2, <2>0, <2>1 DEF Score, IInv, Typed
  <2>4. entry[c].progress < Target[c] /\ entry[c].progress \in Nat /\ e.usage <= UsageTarget[c]
    BY <1>1, <2>2, <2>3 DEF IInv, EntriesFit, Entry
  <2>5. Active(c)
    BY <2>3 DEF Active
  <2>6. e.progress <= Target[c] /\ (e.status = "inProgress" => e.progress < Target[c])
    BY <1>1, <2>0, <2>2, <2>4
  <2>7. UNCHANGED <<now, playing, token, wallet, bought, clockVars, matchTime, activations, started>>
    BY <1>2 DEF Score
  <2> QED BY <1>1, <2>2, <2>3, <2>4, <2>5, <2>6, <2>7, ActiveChanges
<1>3. CASE Claim(c)
  <2>1. PICK e : e = [entry[c] EXCEPT !.status = "finished"]
    OBVIOUS
  <2>2. /\ e \in Entry /\ e.usage = entry[c].usage /\ e.day = entry[c].day
        /\ e.generation = entry[c].generation /\ e.progress = entry[c].progress /\ e.status = "finished"
    BY <1>1, <2>1 DEF Entry, Status
  <2>3. entry' = [entry EXCEPT ![c] = e] /\ Active(c)
    BY <1>3, <2>1 DEF Claim, IInv, Typed, Active
  <2>4. e.progress <= Target[c] /\ e.usage <= UsageTarget[c]
    BY <2>2 DEF IInv, EntriesFit
  <2>5. UNCHANGED <<now, playing, token, wallet, bought, clockVars, matchTime, activations, started>>
    BY <1>3 DEF Claim
  <2> QED BY <1>1, <2>2, <2>3, <2>4, <2>5, ActiveChanges
<1>4. CASE \E at \in {now, now - 1} \cap Nat : Deactivate(c, at)
  <2>1. PICK at \in {now, now - 1} \cap Nat : Deactivate(c, at)
    BY <1>4
  <2>2. DayOf(at) \in Day /\ DayOf(at) <= DayOf(now)
    <3>1. at \in 0..MaxTime /\ at <= now /\ now \in Nat
      BY ContractsAssumption DEF IInv, Typed
    <3> QED BY <3>1, ADay, DaysInOrder
  <2>3. PICK e : e = [entry[c] EXCEPT !.status = "available", !.day = DayOf(at),
                        !.progress = 0, !.usage = 0, !.since = 0]
    OBVIOUS
  <2>4. /\ e \in Entry /\ e.usage = 0 /\ e.day = DayOf(at) /\ e.progress = 0
        /\ e.generation = entry[c].generation /\ e.status = "available"
    BY <1>1, <2>2, <2>3 DEF Entry, Status
  <2>5. entry' = [entry EXCEPT ![c] = e] /\ Active(c)
    <3>1. /\ Active(c) /\ entry \in [Contract -> Entry]
          /\ entry' = [entry EXCEPT ![c].status = "available", ![c].day = DayOf(at),
                           ![c].progress = 0, ![c].usage = 0, ![c].since = 0]
      BY <2>1 DEF Deactivate, IInv, Typed
    <3> QED BY <2>3, <3>1
  <2>6. e.progress <= Target[c] /\ e.usage <= UsageTarget[c]
    BY <2>4, ContractsAssumption
  <2>7. UNCHANGED <<now, playing, token, wallet, bought, clockVars, matchTime, activations, started>>
    BY <2>1 DEF Deactivate
  <2> QED BY <2>2, <2>4, <2>5, <2>6, <2>7, ActiveChanges
<1> QED BY <1>2, <1>3, <1>4

-----------------------------------------------------------------------------
(* The clock and the game *)

\* A timer that is sampled again gains the match time since its last sample.
LEMMA Resampled ==
  ASSUME IInv, NEW c \in Contract, timer[c] # None,
         (Sample /\ Matches(timer[c], entry[c])) \/ SampleFails
  PROVE  /\ timer'[c] \in Timer /\ timer'[c].generation = timer[c].generation
         /\ timer'[c].since = timer[c].since
         /\ timer'[c].last = IF playing THEN now ELSE None
         /\ timer'[c].pending = timer[c].pending + Running(c)
<1>0. /\ timer'[c] = SampledTimer(timer[c])
      /\ now \in Nat /\ timer \in [Contract -> Timer \union {None}]
  BY ContractsAssumption DEF Sample, SampleFails, IInv, Typed
<1>1. PICK t \in Timer : t = timer[c] /\ timer'[c] = SampledTimer(t)
  BY <1>0
<1>2. t.pending \in Nat /\ (playing /\ t.last # None => t.last \in Nat /\ t.last <= now)
  BY <1>1 DEF IInv, Recent, Timer
<1>3. PICK pending \in Nat : /\ pending = IF playing /\ t.last # None THEN t.pending + now - t.last
                                          ELSE t.pending
                             /\ pending = t.pending + Running(c)
  BY <1>0, <1>1, <1>2 DEF Running
<1>4. PICK last \in Nat \union {None} : last = IF playing THEN now ELSE None
  BY <1>0
<1>5. timer'[c] = [t EXCEPT !.pending = pending, !.last = last]
  BY <1>1, <1>3, <1>4 DEF SampledTimer
<1> QED BY <1>1, <1>3, <1>4, <1>5 DEF Timer

LEMMA SampleKeeps == ASSUME IInv, Sample PROVE IInv'
<1> USE DEF Sample
<1>1. ASSUME NEW c \in Contract
      PROVE  timer'[c] = IF timer[c] # None /\ Matches(timer[c], entry[c]) THEN SampledTimer(timer[c])
                         ELSE IF entry[c].status = "inProgress" THEN NewTimer(entry[c]) ELSE None
  OBVIOUS
<1>2. now \in Nat /\ entry \in [Contract -> Entry] /\ timer \in [Contract -> Timer \union {None}]
  BY ContractsAssumption DEF IInv, Typed
<1>3. ASSUME NEW c \in Contract, timer[c] # None, Matches(timer[c], entry[c])
      PROVE  /\ timer'[c] \in Timer /\ timer'[c].generation = timer[c].generation
             /\ timer'[c].since = timer[c].since
             /\ timer'[c].last = IF playing THEN now ELSE None
             /\ timer'[c].pending = timer[c].pending + Running(c)
  BY <1>3, Resampled
<1>4. ASSUME NEW c \in Contract, ~(timer[c] # None /\ Matches(timer[c], entry[c])),
             entry[c].status = "inProgress"
      PROVE  /\ timer'[c] \in Timer /\ timer'[c].generation = entry[c].generation
             /\ timer'[c].pending = 0 /\ timer'[c].last = IF playing THEN now ELSE None
  <2>1. timer'[c] = [since |-> entry[c].since, generation |-> entry[c].generation, pending |-> 0,
                     last |-> IF playing THEN now ELSE None]
    BY <1>1, <1>4 DEF NewTimer
  <2> QED BY <1>2, <2>1 DEF Timer, Entry
<1>5. ASSUME NEW c \in Contract, ~(timer[c] # None /\ Matches(timer[c], entry[c])),
             entry[c].status # "inProgress"
      PROVE  timer'[c] = None
  BY <1>1, <1>5
<1>6. Typed'
  <2>1. timer' \in [Contract -> Timer \union {None}]
    BY <1>3, <1>4, <1>5
  <2>2. due' \in BOOLEAN
    BY DEF DueNow
  <2> QED BY <2>1, <2>2 DEF IInv, Typed, storeVars
<1>7. EntriesFit'
  BY DEF IInv, EntriesFit, storeVars
<1>8. Numbered' /\ TokensCounted' /\ MoneyCounted'
  <2>1. Units(activations)' = Units(activations) /\ Units(Paid)' = Units(Paid)
    BY DEF Units, Paid, storeVars
  <2>2. \A c \in Contract : timer'[c] # None => timer'[c].generation <= entry[c].generation
    BY <1>2, <1>3, <1>4, <1>5 DEF IInv, Numbered, Entry
  <2> QED BY <2>1, <2>2 DEF IInv, Numbered, TokensCounted, MoneyCounted, storeVars
<1>9. TokensWait' /\ PlacesSuffice'
  <2>1. Held' = Held /\ DayOf(now)' = DayOf(now)
    BY DEF Held, Active, DayOf, storeVars
  <2> QED BY <2>1 DEF IInv, TokensWait, PlacesSuffice, AllOnBoard, Active, storeVars
<1>10. Recent'
  BY <1>2, <1>3, <1>4, <1>5 DEF Recent
<1>11. Clocked'
  <2> SUFFICES ASSUME NEW c \in Contract, entry[c].status = "inProgress"
               PROVE  /\ entry[c].usage * SecondTicks <= matchTime - started[c]
                      /\ timer'[c] # None /\ Matches(timer'[c], entry[c]) =>
                            entry[c].usage * SecondTicks + timer'[c].pending + Running(c)'
                               <= matchTime - started[c]
    BY DEF Clocked, storeVars
  <2>1. PICK u \in Nat : u = entry[c].usage * SecondTicks
    BY <1>2, ContractsAssumption DEF Entry
  <2>2. u <= matchTime - started[c] /\ matchTime \in Nat /\ started[c] \in Nat
    BY <2>1 DEF IInv, Clocked, Typed
  <2>3. CASE timer[c] # None /\ Matches(timer[c], entry[c])
    <3>1. Running(c)' = 0
      BY <1>2, <1>3, <2>3 DEF Running
    <3>2. u + timer[c].pending + Running(c) <= matchTime - started[c]
      BY <2>1, <2>3 DEF IInv, Clocked
    <3>3. timer[c].pending \in Nat /\ Running(c) \in Nat
      BY <1>2, <2>3 DEF IInv, Recent, Running, Timer
    <3> QED BY <1>3, <2>1, <2>2, <2>3, <3>1, <3>2, <3>3
  <2>4. CASE ~(timer[c] # None /\ Matches(timer[c], entry[c]))
    <3>1. Running(c)' = 0 /\ timer'[c].pending = 0
      BY <1>2, <1>4, <2>4 DEF Running
    <3> QED BY <2>1, <2>2, <3>1
  <2> QED BY <2>3, <2>4
<1> QED BY <1>6, <1>7, <1>8, <1>9, <1>10, <1>11 DEF IInv

\* Every timer is sampled when the store cannot be read, those of other activations too.
LEMMA SampleFailsKeeps == ASSUME IInv, SampleFails PROVE IInv'
<1> USE DEF SampleFails
<1>1. now \in Nat /\ entry \in [Contract -> Entry] /\ timer \in [Contract -> Timer \union {None}]
  BY ContractsAssumption DEF IInv, Typed
<1>2. ASSUME NEW c \in Contract, timer[c] # None
      PROVE  /\ timer'[c] \in Timer /\ timer'[c].generation = timer[c].generation
             /\ timer'[c].since = timer[c].since
             /\ timer'[c].last = IF playing THEN now ELSE None
             /\ timer'[c].pending = timer[c].pending + Running(c)
  BY <1>2, Resampled
<1>3. \A c \in Contract : timer[c] = None => timer'[c] = None
  OBVIOUS
<1>4. Typed'
  <2>1. timer' \in [Contract -> Timer \union {None}]
    BY <1>2, <1>3
  <2> QED BY <2>1 DEF IInv, Typed, storeVars
<1>5. EntriesFit'
  BY DEF IInv, EntriesFit, storeVars
<1>6. Numbered' /\ TokensCounted' /\ MoneyCounted'
  <2>1. Units(activations)' = Units(activations) /\ Units(Paid)' = Units(Paid)
    BY DEF Units, Paid, storeVars
  <2>2. \A c \in Contract : timer'[c] # None => timer'[c].generation <= entry[c].generation
    BY <1>2, <1>3 DEF IInv, Numbered
  <2> QED BY <2>1, <2>2 DEF IInv, Numbered, TokensCounted, MoneyCounted, storeVars
<1>7. TokensWait' /\ PlacesSuffice'
  <2>1. Held' = Held /\ DayOf(now)' = DayOf(now)
    BY DEF Held, Active, DayOf, storeVars
  <2> QED BY <2>1 DEF IInv, TokensWait, PlacesSuffice, AllOnBoard, Active, storeVars
<1>8. Recent'
  BY <1>1, <1>2, <1>3 DEF Recent
<1>9. Clocked'
  <2> SUFFICES ASSUME NEW c \in Contract, entry[c].status = "inProgress"
               PROVE  /\ entry[c].usage * SecondTicks <= matchTime - started[c]
                      /\ timer'[c] # None /\ Matches(timer'[c], entry[c]) =>
                            entry[c].usage * SecondTicks + timer'[c].pending + Running(c)'
                               <= matchTime - started[c]
    BY DEF Clocked, storeVars
  <2>1. entry[c].usage * SecondTicks <= matchTime - started[c]
    BY DEF IInv, Clocked
  <2>2. ASSUME timer'[c] # None, Matches(timer'[c], entry[c])
        PROVE  entry[c].usage * SecondTicks + timer'[c].pending + Running(c)' <= matchTime - started[c]
    <3>1. timer[c] # None /\ Matches(timer[c], entry[c])
      BY <1>2, <1>3, <2>2 DEF Matches, MatchesByTime
    <3>2. PICK p \in Nat, r \in Nat : p = timer[c].pending /\ r = Running(c)
      BY <1>1, <3>1 DEF IInv, Recent, Running, Timer
    <3>3. Running(c)' = 0
      BY <1>1, <1>2, <3>1 DEF Running
    <3>4. PICK u \in Nat : u = entry[c].usage * SecondTicks
      BY <1>1, ContractsAssumption DEF Entry
    <3>5. u + p + r <= matchTime - started[c]
      BY <3>1, <3>2, <3>4 DEF IInv, Clocked
    <3>6. timer'[c].pending = p + r
      BY <1>2, <3>1, <3>2
    <3> QED BY <3>2, <3>3, <3>4, <3>5, <3>6
  <2> QED BY <2>1, <2>2
<1> QED BY <1>4, <1>5, <1>6, <1>7, <1>8, <1>9 DEF IInv

\* What a contract is charged was pending.
LEMMA ChargeIsPending ==
  ASSUME NEW u \in Nat, NEW p \in Nat, NEW r \in Nat, NEW m \in Int, u * SecondTicks + p + r <= m
  PROVE  /\ (u + Seconds(p)) * SecondTicks + FractionKept(p) + r <= m /\ FractionKept(p) \in Nat
         /\ (u + Seconds(p)) * SecondTicks <= m
<1>1. PICK s \in Nat : s = Seconds(p)
  BY WholeSeconds
<1>2. PICK k \in Nat : k = s * SecondTicks /\ k <= p
  BY <1>1, WholeSeconds
<1>3. PICK v \in Nat : v = u * SecondTicks
  BY ContractsAssumption
<1>4. (u + s) * SecondTicks = v + k
  BY <1>2, <1>3, ContractsAssumption
<1> QED BY <1>1, <1>2, <1>3, <1>4 DEF FractionKept

\* A charged activation keeps what it is, and what it still runs on is what it owed.
LEMMA ChargedEntry ==
  ASSUME IInv, Charge, NEW c \in Contract, timer[c] # None, Matches(timer[c], entry[c])
  PROVE  /\ entry'[c] \in Entry /\ entry'[c].progress = entry[c].progress
         /\ entry'[c].since = entry[c].since /\ entry'[c].generation = entry[c].generation
         /\ entry'[c].day = entry[c].day /\ entry'[c].status \in {"inProgress", "expired"}
         /\ entry'[c].usage <= UsageTarget[c]
         /\ entry'[c].status = "inProgress" =>
               entry'[c].usage = entry[c].usage + Seconds(timer[c].pending)
<1>0. /\ entry'[c] = Charged(entry[c], Owed(c), UsageTarget[c])
      /\ entry \in [Contract -> Entry] /\ timer \in [Contract -> Timer \union {None}]
  BY DEF Charge, IInv, Typed
<1>1. PICK e \in Entry : e = entry[c] /\ e.status = "inProgress" /\ e.usage <= UsageTarget[c]
  BY <1>0 DEF Matches, MatchesByTime, IInv, EntriesFit
<1>2. PICK s \in Nat : s = Owed(c) /\ s = Seconds(timer[c].pending)
  <2>1. PICK p \in Nat : p = timer[c].pending
    BY <1>0 DEF Timer
  <2> QED BY <2>1, WholeSeconds DEF Owed
<1>3. PICK limit \in Nat : limit = UsageTarget[c]
  BY ContractsAssumption
<1>4. entry'[c] = Charged(e, s, limit)
  BY <1>0, <1>1, <1>2, <1>3
<1>5. CASE s = 0
  <2>1. entry'[c] = e /\ e.usage \in Nat /\ e.usage + s = e.usage
    <3>1. entry'[c] = e
      BY <1>4, <1>5 DEF Charged
    <3>2. e.usage \in Nat
      BY DEF Entry
    <3> QED BY <1>5, <3>1, <3>2
  <2> QED BY <1>1, <1>2, <2>1
<1>6. CASE s # 0 /\ e.usage + s >= limit
  <2>1. entry'[c] = [e EXCEPT !.usage = limit, !.status = "expired"]
    BY <1>4, <1>6 DEF Charged
  <2>2. PICK x : x = [e EXCEPT !.usage = limit, !.status = "expired"]
    OBVIOUS
  <2>3. /\ x \in Entry /\ x.progress = e.progress /\ x.since = e.since /\ x.day = e.day
        /\ x.generation = e.generation /\ x.status = "expired" /\ x.usage = limit
    BY <2>2 DEF Entry, Status
  <2>4. entry'[c] = x
    BY <2>1, <2>2
  <2>5. limit <= limit
    OBVIOUS
  <2> QED BY <1>1, <1>3, <2>3, <2>4, <2>5
<1>7. CASE s # 0 /\ ~(e.usage + s >= limit)
  <2>1. PICK u \in Nat : u = e.usage + s /\ u <= limit
    BY <1>2, <1>3, <1>7 DEF Entry
  <2>2. entry'[c] = [e EXCEPT !.usage = u]
    BY <1>4, <1>7, <2>1 DEF Charged
  <2> QED BY <1>1, <1>2, <1>3, <2>1, <2>2 DEF Entry
<1> QED BY <1>5, <1>6, <1>7

LEMMA ChargeKeeps == ASSUME IInv, Charge PROVE IInv'
<1> USE DEF Charge
<1>1. ASSUME NEW c \in Contract
      PROVE  /\ entry'[c] = IF timer[c] # None /\ Matches(timer[c], entry[c])
                            THEN Charged(entry[c], Owed(c), UsageTarget[c]) ELSE entry[c]
             /\ timer'[c] = IF timer[c] = None THEN None
                            ELSE [timer[c] EXCEPT !.pending = FractionKept(@)]
  OBVIOUS
<1>2. entry \in [Contract -> Entry] /\ timer \in [Contract -> Timer \union {None}]
  BY DEF IInv, Typed
<1>3. ASSUME NEW c \in Contract, timer[c] # None
      PROVE  /\ timer'[c] \in Timer /\ timer'[c].pending = FractionKept(timer[c].pending)
             /\ timer'[c].since = timer[c].since /\ timer'[c].generation = timer[c].generation
             /\ timer'[c].last = timer[c].last
  <2>1. PICK t \in Timer : t = timer[c]
    BY <1>2, <1>3
  <2>2. PICK f \in Nat : f = FractionKept(t.pending)
    <3>1. PICK p \in Nat : p = t.pending
      BY <2>1 DEF Timer
    <3> QED BY <3>1, WholeSeconds DEF FractionKept
  <2>3. timer'[c] = [t EXCEPT !.pending = f]
    BY <1>1, <1>3, <2>1, <2>2
  <2> QED BY <2>1, <2>2, <2>3 DEF Timer
<1>4. ASSUME NEW c \in Contract, timer[c] # None, Matches(timer[c], entry[c])
      PROVE  /\ entry'[c] \in Entry /\ entry'[c].progress = entry[c].progress
             /\ entry'[c].since = entry[c].since /\ entry'[c].generation = entry[c].generation
             /\ entry'[c].day = entry[c].day /\ entry'[c].status \in {"inProgress", "expired"}
             /\ entry'[c].usage <= UsageTarget[c]
             /\ entry'[c].status = "inProgress" =>
                   entry'[c].usage = entry[c].usage + Seconds(timer[c].pending)
  BY <1>4, ChargedEntry
<1>5. ASSUME NEW c \in Contract, ~(timer[c] # None /\ Matches(timer[c], entry[c]))
      PROVE  entry'[c] = entry[c]
  BY <1>1, <1>5
<1>6. Typed'
  <2>1. timer' \in [Contract -> Timer \union {None}]
    BY <1>1, <1>3
  <2>2. entry' \in [Contract -> Entry]
    BY <1>2, <1>4, <1>5
  <2> QED BY <2>1, <2>2 DEF IInv, Typed
<1>7. EntriesFit'
  <2>1. ASSUME NEW c \in Contract
        PROVE  entry'[c].progress = entry[c].progress /\ entry'[c].usage <= UsageTarget[c]
               /\ (entry'[c].status = "inProgress" => entry[c].status = "inProgress")
    BY <1>4, <1>5 DEF IInv, EntriesFit, Matches, MatchesByTime
  <2> QED BY <2>1 DEF IInv, EntriesFit
<1>8. Numbered' /\ TokensCounted' /\ MoneyCounted'
  <2>1. Units(activations)' = Units(activations) /\ Units(Paid)' = Units(Paid)
    BY DEF Units, Paid
  <2>2. ASSUME NEW c \in Contract
        PROVE  /\ entry'[c].generation = entry[c].generation
               /\ timer'[c] # None => timer[c] # None /\ timer'[c].generation = timer[c].generation
    BY <1>1, <1>3, <1>4, <1>5
  <2> QED BY <2>1, <2>2 DEF IInv, Numbered, TokensCounted, MoneyCounted
<1>9. ASSUME NEW c \in Contract PROVE entry'[c].day = entry[c].day /\ (Active(c)' => Active(c))
  BY <1>4, <1>5 DEF Active, Matches, MatchesByTime
<1>10. TokensWait'
  <2>1. DayOf(now)' = DayOf(now)
    BY DEF DayOf
  <2>2. ASSUME NEW c \in Contract, token[c] > 0 PROVE entry'[c] = entry[c]
    <3>1. ~Active(c)
      BY <2>2 DEF IInv, TokensWait
    <3> QED BY <1>5, <3>1 DEF Active, Matches, MatchesByTime
  <2> QED BY <1>9, <2>1, <2>2 DEF IInv, TokensWait, Active
<1>11. PlacesSuffice'
  <2>1. Held' \subseteq Held
    BY <1>9 DEF Held
  <2>2. IsFiniteSet(Held)
    BY ContractsAssumption, FS_Subset DEF Held
  <2>3. PICK H, K : H = Held /\ K = Held'
    OBVIOUS
  <2>4. IsFiniteSet(K) /\ Cardinality(K) <= Cardinality(H) /\ Cardinality(H) \in Nat /\ Cardinality(K) \in Nat
    BY <2>1, <2>2, <2>3, FS_Subset, FS_CardinalityType
  <2> QED BY <2>3, <2>4, ContractsAssumption DEF IInv, PlacesSuffice, AllOnBoard
<1>12. Recent'
  BY <1>1, <1>3 DEF IInv, Recent
<1>13. Clocked'
  <2> SUFFICES ASSUME NEW c \in Contract, entry'[c].status = "inProgress"
               PROVE  /\ entry'[c].usage * SecondTicks <= matchTime - started[c]
                      /\ timer'[c] # None /\ Matches(timer'[c], entry'[c]) =>
                            entry'[c].usage * SecondTicks + timer'[c].pending + Running(c)'
                               <= matchTime - started[c]
    BY DEF Clocked
  <2>1. CASE timer[c] # None /\ Matches(timer[c], entry[c])
    <3>1. PICK u \in Nat, p \in Nat, r \in Nat, m \in Int :
             /\ u = entry[c].usage /\ p = timer[c].pending /\ r = Running(c) /\ m = matchTime - started[c]
      <4>1. entry[c].usage \in Nat /\ timer[c].pending \in Nat
        BY <1>2, <2>1 DEF Entry, Timer
      <4>2. Running(c) \in Nat
        <5>1. now \in Nat
          BY ContractsAssumption DEF IInv, Typed
        <5> QED BY <1>2, <2>1, <5>1 DEF IInv, Recent, Running, Timer
      <4>3. matchTime - started[c] \in Int
        BY DEF IInv, Typed
      <4> QED BY <4>1, <4>2, <4>3
    <3>2. u * SecondTicks + p + r <= m
      BY <2>1, <3>1 DEF IInv, Clocked, Matches, MatchesByTime
    <3>3. entry'[c].usage = u + Seconds(p) /\ timer'[c].pending = FractionKept(p) /\ Running(c)' = r
      <4>1. entry'[c].usage = entry[c].usage + Seconds(timer[c].pending)
        BY <1>4, <2>1
      <4>2. timer'[c].pending = FractionKept(timer[c].pending) /\ timer'[c].last = timer[c].last
        BY <1>3, <2>1
      <4>3. Running(c)' = Running(c)
        BY <4>2 DEF Running
      <4> QED BY <3>1, <4>1, <4>2, <4>3
    <3> QED BY <3>1, <3>2, <3>3, ChargeIsPending
  <2>2. CASE ~(timer[c] # None /\ Matches(timer[c], entry[c]))
    <3>1. entry'[c] = entry[c] /\ (timer'[c] # None => timer[c] # None /\ ~Matches(timer'[c], entry'[c]))
      BY <1>1, <1>3, <1>5, <2>2 DEF Matches, MatchesByTime
    <3> QED BY <3>1 DEF IInv, Clocked
  <2> QED BY <2>1, <2>2
<1> QED BY <1>6, <1>7, <1>8, <1>10, <1>11, <1>12, <1>13 DEF IInv

LEMMA GameKeeps ==
  ASSUME IInv, ChargeFails \/ Pass \/ StartMatch \/ EndMatch \/ Restart \/ UNCHANGED vars
  PROVE  IInv'
<1>1. now \in Nat /\ matchTime \in Nat /\ MaxTime \in Nat
  BY ContractsAssumption DEF IInv, Typed
<1>2. UNCHANGED <<entry, token, wallet, bought, activations, started>>
  BY DEF ChargeFails, Pass, StartMatch, EndMatch, Restart, vars, storeVars
<1>3. /\ now' \in 0..MaxTime /\ now' \in {now, now + 1}
      /\ \/ now' = now /\ matchTime' = matchTime
         \/ now' = now + 1 /\ matchTime' = matchTime + 1 /\ playing /\ playing' = playing
         \/ now' = now + 1 /\ matchTime' = matchTime /\ ~playing /\ playing' = playing
  BY <1>1 DEF IInv, Typed, ChargeFails, Pass, StartMatch, EndMatch, Restart, vars, clockVars
<1>4. /\ \A c \in Contract : timer'[c] # None => timer'[c] = timer[c] /\ timer[c] # None
      /\ timer' \in [Contract -> Timer \union {None}]
  BY DEF IInv, Typed, ChargeFails, Pass, StartMatch, EndMatch, Restart, vars, clockVars
<1>5. Typed'
  <2>1. playing' \in BOOLEAN /\ due' \in BOOLEAN /\ sampled' \in BOOLEAN
    BY DEF IInv, Typed, ChargeFails, Pass, StartMatch, EndMatch, Restart, vars, clockVars
  <2>2. matchTime' \in 0..now'
    <3>1. matchTime \in 0..now
      BY DEF IInv, Typed
    <3> QED BY <1>1, <1>3, <3>1
  <2> QED BY <1>2, <1>3, <1>4, <2>1, <2>2 DEF IInv, Typed
<1>6. EntriesFit'
  <2>1. matchTime' >= matchTime
    BY <1>1, <1>3
  <2> QED BY <1>1, <1>2, <1>3, <2>1 DEF IInv, EntriesFit, Typed
<1>7. Numbered' /\ TokensCounted' /\ MoneyCounted'
  <2>1. Units(activations)' = Units(activations) /\ Units(Paid)' = Units(Paid)
    BY <1>2 DEF Units, Paid
  <2> QED BY <1>2, <1>4, <2>1 DEF IInv, Numbered, TokensCounted, MoneyCounted
<1>8. TokensWait'
  <2>1. DayOf(now) \in Nat /\ DayOf(now') \in Nat /\ DayOf(now) <= DayOf(now')
    BY <1>1, <1>3, DaysInOrder
  <2>2. \A c \in Contract : entry[c].day \in Nat
    BY DEF IInv, Typed, Entry, Day
  <2> QED BY <1>2, <2>1, <2>2 DEF IInv, TokensWait, Active, DayOf
<1>9. PlacesSuffice'
  BY <1>2 DEF IInv, PlacesSuffice, AllOnBoard, Held, Active
<1>10. Recent'
  <2>1. sampled' /\ ~playing' => (sampled /\ ~playing) \/ \A c \in Contract : timer'[c] = None
    BY DEF ChargeFails, Pass, StartMatch, EndMatch, Restart, vars, clockVars
  <2>2. ASSUME NEW c \in Contract, timer[c] # None, timer[c].last # None PROVE timer[c].last <= now'
    BY <1>1, <1>3, <2>2 DEF IInv, Typed, Recent, Timer
  <2> QED BY <1>4, <2>1, <2>2 DEF IInv, Recent
<1>11. Clocked'
  <2> SUFFICES ASSUME NEW c \in Contract, entry[c].status = "inProgress"
               PROVE  /\ entry[c].usage * SecondTicks <= matchTime' - started[c]
                      /\ timer'[c] # None /\ Matches(timer'[c], entry[c]) =>
                            entry[c].usage * SecondTicks + timer'[c].pending + Running(c)'
                               <= matchTime' - started[c]
    BY <1>2 DEF Clocked
  <2>1. PICK u \in Nat : u = entry[c].usage * SecondTicks
    BY ContractsAssumption DEF IInv, Typed, Entry
  <2>2. started[c] \in Nat /\ u <= matchTime - started[c]
    BY <2>1 DEF IInv, Clocked, Typed
  <2>3. ASSUME timer'[c] # None, Matches(timer'[c], entry[c])
        PROVE  u + timer'[c].pending + Running(c)' <= matchTime' - started[c]
    <3>1. PICK t \in Timer : t = timer[c] /\ t = timer'[c] /\ timer[c] # None
      BY <1>4, <2>3
    <3>2. t.pending \in Nat /\ u + t.pending + Running(c) <= matchTime - started[c]
      BY <2>1, <2>3, <3>1 DEF IInv, Clocked, Timer
    <3>3. CASE t.last = None
      <4>1. Running(c) = 0 /\ Running(c)' = 0
        BY <3>1, <3>3 DEF Running
      <4> QED BY <1>1, <1>3, <2>2, <3>1, <3>2, <4>1
    <3>4. CASE t.last # None
      <4>1. t.last \in Nat /\ t.last <= now
        BY <3>1, <3>4 DEF IInv, Recent, Timer
      <4>2. Running(c) = (IF playing THEN now - t.last ELSE 0) /\ Running(c)' = IF playing' THEN now' - t.last ELSE 0
        BY <3>1, <3>4 DEF Running
      <4>3. ~playing => ~playing'
        <5>1. ~playing => ~StartMatch
          BY <3>1, <3>4 DEF IInv, Recent, StartMatch
        <5> QED BY <5>1 DEF ChargeFails, Pass, EndMatch, Restart, vars
      <4>4. CASE playing
        <5>1. PICK a \in Nat : a = now - t.last /\ Running(c) = a
          BY <1>1, <4>1, <4>2, <4>4
        <5>2. u + t.pending + a <= matchTime - started[c]
          BY <3>2, <5>1
        <5>3. CASE now' = now /\ matchTime' = matchTime
          <6>1. Running(c)' = a \/ Running(c)' = 0
            BY <4>2, <5>1, <5>3
          <6> QED BY <1>1, <2>2, <3>1, <3>2, <5>2, <5>3, <6>1
        <5>4. CASE now' = now + 1 /\ matchTime' = matchTime + 1 /\ playing'
          <6>1. Running(c)' = a + 1
            BY <1>1, <4>1, <4>2, <5>1, <5>4
          <6> QED BY <1>1, <2>2, <3>1, <3>2, <5>2, <5>4, <6>1
        <5> QED BY <1>3, <4>4, <5>3, <5>4
      <4>5. CASE ~playing
        BY <1>1, <1>3, <2>2, <3>1, <3>2, <4>1, <4>2, <4>3, <4>5
      <4> QED BY <4>4, <4>5
    <3> QED BY <3>3, <3>4
  <2>4. u <= matchTime' - started[c]
    BY <1>1, <1>3, <2>2
  <2> QED BY <2>1, <2>3, <2>4
<1> QED BY <1>5, <1>6, <1>7, <1>8, <1>9, <1>10, <1>11 DEF IInv

LEMMA StepInv == ASSUME IInv, [Next]_vars PROVE IInv'
<1>1. ASSUME NEW c \in Contract, NEW tx \in Tx, Purchase(tx, c) PROVE IInv'
  BY <1>1, PurchaseKeeps
<1>2. ASSUME NEW c \in Contract, NEW at \in {now, now - 1} \cap Nat, Activate(c, at) PROVE IInv'
  BY <1>2, ActivateKeeps
<1>3. ASSUME NEW c \in Contract, NEW at \in {now, now - 1} \cap Nat, Deactivate(c, at) PROVE IInv'
  BY <1>3, RequestKeeps
<1>4. ASSUME NEW c \in Contract, Score(c) \/ Claim(c) PROVE IInv'
  BY <1>4, RequestKeeps
<1>5. Sample \/ SampleFails \/ Charge => IInv'
  BY SampleKeeps, SampleFailsKeeps, ChargeKeeps
<1>6. ChargeFails \/ Pass \/ StartMatch \/ EndMatch \/ Restart \/ UNCHANGED vars => IInv'
  BY GameKeeps
<1> QED BY <1>1, <1>2, <1>3, <1>4, <1>5, <1>6 DEF Next

LEMMA Invariant == Spec => []IInv
BY InitInv, StepInv, PTL DEF Spec

-----------------------------------------------------------------------------
(* The properties *)

LEMMA Conserved == IInv => TokensAreConserved
BY DEF IInv, TokensCounted, MoneyCounted, TokensAreConserved

LEMMA Usable == ASSUME IInv, AllOnBoard PROVE TokensAreUsable
<1> SUFFICES ASSUME NEW c \in Contract, token[c] > 0 PROVE Eligible(c, DayOf(now))
  BY DEF TokensAreUsable
<1>1. DayOf(now) \in Day /\ OnBoard[DayOf(now)] = Contract
  BY ADay DEF AllOnBoard, IInv, Typed
<1>2. DayOf(now) \in Nat
  BY <1>1 DEF Day
<1>3. ~Active(c) /\ ~EndedThatDay(c, DayOf(now))
  BY <1>2 DEF IInv, TokensWait, EndedThatDay, Typed, Entry, Day
<1>4. PICK H, K : H = Held /\ K = PlacesTaken(c, DayOf(now))
  OBVIOUS
<1>5. K = H \ {c} /\ c \in H
  BY <1>1, <1>3, <1>4 DEF Held, PlacesTaken, ActiveContracts, Active
<1>6. IsFiniteSet(H) /\ Cardinality(H) \in Nat /\ Cardinality(H) <= MaxActive
  BY <1>4, ContractsAssumption, FS_Subset, FS_CardinalityType DEF Held, IInv, PlacesSuffice
<1>7. Cardinality(K) = Cardinality(H) - 1
  BY <1>5, <1>6, FS_RemoveElement
<1> QED BY <1>1, <1>3, <1>4, <1>6, <1>7, ContractsAssumption DEF Eligible

LEMMA OnlyPlayTime == IInv => ChargedOnlyPlayTime
<1> SUFFICES ASSUME IInv, NEW c \in Contract, entry[c].status = "inProgress",
                    NEW p, p = IF timer[c] # None /\ Matches(timer[c], entry[c])
                               THEN timer[c].pending ELSE 0
             PROVE  entry[c].usage * SecondTicks + p <= matchTime - started[c]
  BY DEF ChargedOnlyPlayTime
<1>1. PICK u \in Nat : u = entry[c].usage * SecondTicks
  BY ContractsAssumption DEF IInv, Typed, Entry
<1>2. matchTime - started[c] \in Int /\ u <= matchTime - started[c]
  BY <1>1 DEF IInv, Clocked, Typed
<1>3. CASE timer[c] # None /\ Matches(timer[c], entry[c])
  <2>1. p \in Nat /\ Running(c) \in Nat
    <3>1. now \in Nat
      BY ContractsAssumption DEF IInv, Typed
    <3> QED BY <1>3, <3>1 DEF IInv, Typed, Recent, Running, Timer
  <2>2. u + p + Running(c) <= matchTime - started[c]
    BY <1>1, <1>3 DEF IInv, Clocked
  <2> QED BY <1>1, <1>2, <2>1, <2>2
<1> QED BY <1>1, <1>2, <1>3

\* achievement_engine.cpp: the transactions and the clock keep the types of the player's data, for
\* any contracts and any limits.
THEOREM TypeCorrect == Spec => []TypeOK
<1>1. IInv => TypeOK
  <2> SUFFICES ASSUME IInv PROVE TypeOK
    OBVIOUS
  <2>1. \A c \in Contract : entry[c].progress <= Target[c] /\ entry[c].usage <= UsageTarget[c]
    BY DEF IInv, EntriesFit
  <2>2. matchTime \in 0..MaxTime /\ started \in [Contract -> 0..MaxTime]
    <3>1. ASSUME NEW c \in Contract PROVE started[c] \in 0..MaxTime
      BY ContractsAssumption DEF IInv, Typed, EntriesFit
    <3> QED BY <3>1, ContractsAssumption DEF IInv, Typed
  <2>3. activations \in [Contract -> 0..MaxActivations]
    <3>1. ASSUME NEW c \in Contract PROVE activations[c] \in 0..MaxActivations
      <4>1. PICK n \in Nat : n = activations[c]
        BY DEF IInv, Typed
      <4>2. PICK U : U = Units(activations) /\ IsFiniteSet(U) /\ Cardinality(U) \in Nat /\ Cardinality(U) <= MaxActivations
        BY FS_CardinalityType DEF IInv, Numbered
      <4>3. PICK A : A = {c} \X (1..n) /\ A \subseteq U
        <5>1. {c} \X (1..activations[c]) \subseteq Units(activations)
          BY DEF Units, IInv, Typed
        <5> QED BY <4>1, <4>2, <5>1
      <4>4. Cardinality(A) = n
        <5>1. PICK S, T : S = {c} /\ T = 1..n
          OBVIOUS
        <5>2. IsFiniteSet(S) /\ Cardinality(S) = 1
          BY <5>1, FS_Singleton
        <5>3. IsFiniteSet(1..n) /\ Cardinality(1..n) = IF 1 > n THEN 0 ELSE n - 1 + 1
          <6>1. 1 \in Int /\ n \in Int
            OBVIOUS
          <6> QED BY <6>1, FS_Interval
        <5>4. Cardinality(S \X T) = Cardinality(S) * Cardinality(T)
          BY <5>1, <5>2, <5>3, FS_Product, Zenon
        <5> QED BY <4>3, <5>1, <5>2, <5>3, <5>4
      <4>5. n <= Cardinality(U)
        BY <4>2, <4>3, <4>4, FS_Subset
      <4> QED BY <4>1, <4>2, <4>5, ContractsAssumption
    <3> QED BY <3>1 DEF IInv, Typed
  <2> QED BY <2>1, <2>2, <2>3 DEF IInv, Typed, TypeOK
<1> QED BY <1>1, Invariant, PTL

\* hq_marketplace.cpp purchase and achievement_engine.cpp dispatch: whatever is repeated, every
\* token was paid once and spent by at most one activation, and the wallet misses their prices.
THEOREM TokensAreConservedAlways == Spec => []TokensAreConserved
BY Conserved, Invariant, PTL

\* achievement_engine.cpp contract_eligible: on a board that offers every contract every day, a token
\* that was sold can be used at once, for any number of contracts, places and prices.
THEOREM TokensAreUsableAlways == AllOnBoard => (Spec => []TokensAreUsable)
<1> SUFFICES ASSUME AllOnBoard PROVE Spec => []TokensAreUsable
  OBVIOUS
<1>1. IInv => TokensAreUsable
  BY Usable
<1> QED BY <1>1, Invariant, PTL

\* hq_contract_clock.hpp tick: whatever saves fail, however often a contract is activated again
\* between the snapshot and the charge, it is charged no more than the time played since.
THEOREM ChargedOnlyPlayTimeAlways == Spec => []ChargedOnlyPlayTime
BY OnlyPlayTime, Invariant, PTL

\* What a contract was charged and what is pending for it do not shrink while its timer lives.
LEMMA TimeKept ==
  ASSUME IInv, Next, NEW c \in Contract, timer[c] # None, timer'[c] # None,
         Matches(timer[c], entry[c]), Matches(timer'[c], entry'[c]),
         timer'[c].generation = timer[c].generation
  PROVE  entry'[c].usage * SecondTicks + timer'[c].pending >= entry[c].usage * SecondTicks + timer[c].pending
<1>1. PICK e \in Entry, t \in Timer : e = entry[c] /\ t = timer[c]
  BY DEF IInv, Typed
<1>2. PICK u \in Nat, p \in Nat : u = e.usage * SecondTicks /\ p = t.pending
  BY ContractsAssumption DEF Entry, Timer
<1>3. entry'[c].status = "inProgress" /\ entry'[c].generation = e.generation
  BY <1>1 DEF Matches, MatchesByTime
<1>4. CASE Sample \/ SampleFails
  <2>1. entry' = entry /\ timer'[c].pending = p + Running(c)
    BY <1>1, <1>2, <1>4, Resampled DEF Sample, SampleFails, storeVars
  <2>2. Running(c) \in Nat
    <3>1. now \in Nat
      BY ContractsAssumption DEF IInv, Typed
    <3> QED BY <1>1, <3>1 DEF IInv, Recent, Running, Timer
  <2> QED BY <1>1, <1>2, <2>1, <2>2
<1>5. CASE Charge
  <2>1. PICK s \in Nat, k \in Nat : s = Seconds(p) /\ k = s * SecondTicks /\ k <= p
    BY WholeSeconds
  <2>2. entry'[c].usage = e.usage + s
    BY <1>1, <1>2, <1>3, <1>5, <2>1, ChargedEntry
  <2>3. timer'[c].pending = p - k
    <3>1. timer'[c] = [t EXCEPT !.pending = FractionKept(@)]
      BY <1>1, <1>5 DEF Charge
    <3> QED BY <1>1, <1>2, <2>1, <3>1 DEF FractionKept, Timer
  <2>4. (e.usage + s) * SecondTicks = u + k
    BY <1>2, <2>1, ContractsAssumption DEF Entry
  <2> QED BY <1>1, <1>2, <2>1, <2>2, <2>3, <2>4
<1>6. ASSUME NEW d \in Contract, NEW at \in {now, now - 1} \cap Nat, Activate(d, at)
      PROVE  timer' = timer /\ entry'[c].usage = e.usage
  <2>1. timer' = timer
    BY <1>6 DEF Activate, clockVars
  <2>2. d # c
    <3>1. PICK k \in Nat : k = Cardinality(Units(activations)) /\ Generation = k + 1
      BY FS_CardinalityType DEF IInv, Numbered, Generation
    <3>2. e.generation \in Nat /\ e.generation <= k
      BY <1>1, <3>1 DEF IInv, Numbered, Entry
    <3>3. d = c => entry'[c].generation = k + 1
      BY <1>6, <3>1 DEF Activate, IInv, Typed
    <3> QED BY <1>3, <3>2, <3>3
  <2> QED BY <1>1, <1>6, <2>1, <2>2 DEF Activate, IInv, Typed
<1>7. ASSUME NEW d \in Contract, Score(d) \/ Claim(d) \/ \E at \in {now, now - 1} \cap Nat : Deactivate(d, at)
      PROVE  timer' = timer /\ entry'[c].usage = e.usage
  <2>1. timer' = timer
    BY <1>7 DEF Score, Claim, Deactivate, clockVars
  <2>2. CASE Score(d)
    <3>1. PICK v, w : entry' = [entry EXCEPT ![d].progress = v, ![d].status = w]
      BY <2>2 DEF Score
    <3>2. [e EXCEPT !.progress = v, !.status = w].usage = e.usage
      BY DEF Entry
    <3> QED BY <1>1, <2>1, <3>1, <3>2 DEF IInv, Typed
  <2>3. CASE Claim(d)
    <3>1. entry' = [entry EXCEPT ![d].status = "finished"]
      BY <2>3 DEF Claim
    <3>2. [e EXCEPT !.status = "finished"].usage = e.usage
      BY DEF Entry
    <3> QED BY <1>1, <2>1, <3>1, <3>2 DEF IInv, Typed
  <2>4. CASE \E at \in {now, now - 1} \cap Nat : Deactivate(d, at)
    <3>1. PICK at \in {now, now - 1} \cap Nat : Deactivate(d, at)
      BY <2>4
    <3>2. d = c => entry'[c].status = "available"
      BY <1>1, <3>1 DEF Deactivate, IInv, Typed, Entry
    <3> QED BY <1>1, <1>3, <2>1, <3>1, <3>2 DEF Deactivate, IInv, Typed
  <2> QED BY <1>7, <2>1, <2>2, <2>3, <2>4
<1>8. ASSUME NEW tx \in Tx, NEW d \in Contract, Purchase(tx, d)
      PROVE  timer' = timer /\ entry'[c].usage = e.usage
  BY <1>1, <1>8 DEF Purchase, clockVars
<1>9. ASSUME ChargeFails \/ Pass \/ StartMatch \/ EndMatch \/ Restart
      PROVE  timer'[c] = timer[c] /\ entry'[c].usage = e.usage
  BY <1>1, <1>9 DEF ChargeFails, Pass, StartMatch, EndMatch, Restart, storeVars, clockVars
<1>10. timer'[c] = timer[c] /\ entry'[c].usage = e.usage =>
          entry'[c].usage * SecondTicks + timer'[c].pending >= entry[c].usage * SecondTicks + timer[c].pending
  BY <1>1, <1>2
<1> QED BY <1>4, <1>5, <1>6, <1>7, <1>8, <1>9, <1>10 DEF Next

\* hq_contract_clock.hpp tick: a save that fails, or succeeds, loses none of the sampled time, the
\* fractions of a second included.
THEOREM SampledTimeKeptAlways == Spec => SampledTimeKept
<1> DEFINE Kept == \A c \in Contract :
        /\ timer[c] # None /\ timer'[c] # None
        /\ Matches(timer[c], entry[c]) /\ Matches(timer'[c], entry'[c])
        /\ timer'[c].generation = timer[c].generation
        => entry'[c].usage * SecondTicks + timer'[c].pending
             >= entry[c].usage * SecondTicks + timer[c].pending
<1>1. IInv /\ [Next]_vars => [Kept]_vars
  <2>1. ASSUME IInv, Next PROVE Kept
    BY <2>1, TimeKept
  <2> HIDE DEF Kept
  <2> QED BY <2>1
<1> QED BY <1>1, Invariant, PTL DEF Spec, SampledTimeKept

=============================================================================
