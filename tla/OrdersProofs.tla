---------------------------- MODULE OrdersProofs ----------------------------
(***************************************************************************)
(* Proofs about Orders for any catalog, limits, events, threads, claims,   *)
(* period and length of history.                                           *)
(***************************************************************************)
EXTENDS Orders, FiniteSetTheorems, SequenceTheorems, WellFoundedInduction, TLAPS

-----------------------------------------------------------------------------
(* The inductive invariants *)

Payment == [order : Order, period : Nat, round : Nat, tx : Tx]
Call == [stage : {"reconcile", "look", "ready"}, at : 0..MaxTime, offers : [Order -> Entry \union {None}]]

Typed ==
    /\ now \in 0..MaxTime
    /\ stamp \in [Event -> 0..MaxTime \union {None}]
    /\ board \in [Order -> Entry]
    /\ bonus \in [status : {"absent", "inProgress", "finished"}, day : Nat, progress : 0..BonusTarget]
    /\ claims \in [Tx -> (Order \X Nat) \union {None}]
    /\ kept \in Seq(Event)
    /\ call \in [Caller -> Call \union {Idle}]
    /\ overlapping \in BOOLEAN
    /\ boardDay \in Day
    /\ round \in [Order -> Nat]
    /\ payments \in Seq(Payment)
    /\ bonuses \in Seq(Nat)

\* An accepted order has not been paid since its activation, by anyone.
Unpaid ==
    \A o \in Order : Accepted(board[o]) =>
        /\ board[o].tx = None
        /\ \A i \in DOMAIN payments : payments[i].order = o => payments[i].round < round[o]

\* Every payment has its receipt, and the entry that was paid names it.
Receipted ==
    /\ \A i \in DOMAIN payments :
        claims[payments[i].tx] # None /\ payments[i].round <= round[payments[i].order]
    /\ \A o \in Order : board[o].tx # None =>
        \E i \in DOMAIN payments : payments[i].tx = board[o].tx /\ payments[i].order = o

\* No order, nor a copy of it, has more progress than its target.
Bounded ==
    /\ \A o \in Order : board[o].progress <= Target[o]
    /\ \A c \in Caller : call[c] # Idle =>
        \A o \in Order : call[c].offers[o] # None => call[c].offers[o].progress <= Target[o]

\* What holds however the calls overlap.
Paying == Typed /\ Bounded /\ Unpaid /\ Receipted /\ PaidOnce

-----------------------------------------------------------------------------
(* Calls that follow one another *)

Due(c) == call[c] # Idle /\ call[c].stage # "reconcile"

\* One call at a time, and time goes on.
InTurn ==
    /\ \A c, d \in Caller : call[c] # Idle /\ call[d] # Idle => c = d
    /\ boardDay <= Today
    /\ \A o \in Order : board[o].day <= boardDay
    /\ \A c \in Caller : call[c] # Idle => call[c].at <= now /\ boardDay <= DayOf(c)

\* Before its answer a call has brought the board and the bonus to its day.
Renewed ==
    /\ bonus.status = "absent" => payments = <<>> /\ bonuses = <<>>
    /\ bonus.status # "absent" => bonus.day = Period(boardDay) * PeriodDays
    /\ \A o \in Order : board[o].status = "available" => board[o].progress = 0
    /\ \A c \in Caller : Due(c) =>
        /\ bonus.status # "absent" /\ Period(DayOf(c)) = Period(boardDay)
        /\ \A o \in Order : Accepted(board[o]) \/ board[o].status = "available" =>
                board[o].day = DayOf(c)

\* The copies a call answers from are those of the board.
SeenIsThere ==
    \A c \in Caller : call[c] # Idle /\ call[c].stage = "ready" =>
        \A o \in Order : call[c].offers[o] # None =>
            \/ Accepted(board[o])
            \/ DoneThisPeriod(board[o], DayOf(c))
            \/ board[o].status = "available" /\ call[c].offers[o] = board[o]

Places == Occupied(board, boardDay) \union Offered(board)
PlacesSuffice == Cardinality(Places) <= Limit

\* What was paid lies in periods before the one its order is offered for again.
PaidBefore ==
    /\ \A i \in DOMAIN payments :
        /\ payments[i].period <= Period(board[payments[i].order].day)
        /\ board[payments[i].order].status # "finished" =>
              payments[i].period # Period(board[payments[i].order].day)
    /\ \A i, j \in DOMAIN payments : i # j =>
        <<payments[i].order, payments[i].period>> # <<payments[j].order, payments[j].period>>

InPeriod == {i \in DOMAIN payments : payments[i].period = Period(boardDay)}
BonusBefore ==
    /\ \A i \in DOMAIN bonuses :
        /\ bonuses[i] <= Period(boardDay)
        /\ bonus.status = "inProgress" => bonuses[i] # Period(boardDay)
    /\ \A i, j \in DOMAIN bonuses : i # j => bonuses[i] # bonuses[j]
    /\ bonus.status # "absent" =>
        /\ bonus.progress = IF Cardinality(InPeriod) < BonusTarget
                            THEN Cardinality(InPeriod) ELSE BonusTarget
        /\ bonus.status = "finished" <=> bonus.progress = BonusTarget
        /\ bonus.status = "finished" => \E i \in DOMAIN bonuses : bonuses[i] = Period(boardDay)

Following == InTurn /\ Renewed /\ SeenIsThere /\ PlacesSuffice /\ PaidBefore /\ BonusBefore

-----------------------------------------------------------------------------
(* Events *)

\* No event is forgotten before the last one has come.
KeepsAll == IsFiniteSet(Event) /\ Cardinality(Event) <= Keep

Counted(o) == {e \in ToSet(kept) : stamp[e] # None /\ o \in Counts[e] /\ stamp[e] >= board[o].since}
Earned ==
    /\ Len(kept) = Cardinality(ToSet(kept))
    /\ \A o \in Order : Accepted(board[o]) =>
        /\ board[o].progress <= Cardinality(Counted(o))
        /\ board[o].status = "claimable" <=> board[o].progress >= Target[o]

SFollowing == ~overlapping => Following
SEarned == ~overlapping => Earned
-----------------------------------------------------------------------------
(* Days and periods *)

LEMMA Quotients ==
  ASSUME NEW D \in Nat \ {0}, NEW p \in Nat, NEW q \in Nat, p <= q
  PROVE  p \div D \in Nat /\ q \div D \in Nat /\ p \div D <= q \div D
<1>2. p \div D \in Int /\ p % D \in 0..D - 1 /\ p = D * (p \div D) + (p % D)
  OBVIOUS
<1>3. q \div D \in Int /\ q % D \in 0..D - 1 /\ q = D * (q \div D) + (q % D)
  OBVIOUS
<1>4. ASSUME NEW a \in Int, NEW b \in Int, NEW m \in 0..D - 1, NEW n \in 0..D - 1, b + 1 <= a
      PROVE  D * b + n < D * a + m
  <2>1. D * (b + 1) <= D * a
    BY <1>4
  <2> QED BY <1>4, <2>1
<1> QED BY <1>2, <1>3, <1>4

LEMMA PeriodsInOrder ==
  ASSUME NEW p \in Nat, NEW q \in Nat, p <= q
  PROVE  Period(p) \in Nat /\ Period(q) \in Nat /\ Period(p) <= Period(q)
<1>1. PICK D \in Nat \ {0} : D = PeriodDays
  BY OrdersAssumption
<1> QED BY <1>1, Quotients DEF Period

LEMMA PeriodBegins == ASSUME NEW p \in Nat PROVE Period(p * PeriodDays) = p /\ p * PeriodDays \in Nat
<1>1. PICK D \in Nat \ {0} : D = PeriodDays
  BY OrdersAssumption
<1>2. p * D \in Nat /\ (p * D) \div D = p
  <2>1. PICK n \in Nat : n = p * D
    OBVIOUS
  <2>2. n \div D \in Int /\ n % D \in 0..D - 1 /\ n = D * (n \div D) + (n % D)
    OBVIOUS
  <2>3. ASSUME NEW a \in Int, NEW m \in 0..D - 1, p * D = D * a + m PROVE a = p
    <3>1. CASE a + 1 <= p
      <4>1. D * (a + 1) <= D * p
        BY <3>1
      <4> QED BY <2>3, <4>1
    <3>2. CASE p + 1 <= a
      <4>1. D * (p + 1) <= D * a
        BY <3>2
      <4> QED BY <2>3, <4>1
    <3> QED BY <3>1, <3>2
  <2> QED BY <2>1, <2>2, <2>3
<1> QED BY <1>1, <1>2 DEF Period

LEMMA DaysInOrder ==
  ASSUME NEW p \in 0..MaxTime, NEW q \in 0..MaxTime, p <= q
  PROVE  /\ p \div DayLength \in Day /\ q \div DayLength \in Day
         /\ p \div DayLength <= q \div DayLength
<1>1. PICK D \in Nat \ {0} : D = DayLength
  BY OrdersAssumption
<1>2. MaxTime \in Nat
  BY OrdersAssumption
<1> QED BY <1>1, <1>2, Quotients DEF Day

LEMMA DayIsNat == Day \subseteq Nat
<1>1. PICK D \in Nat \ {0} : D = DayLength
  BY OrdersAssumption
<1>2. MaxTime \div D \in Nat
  <2>1. PICK t \in Nat : t = MaxTime /\ t <= t
    BY OrdersAssumption
  <2> QED BY <2>1, Quotients
<1> QED BY <1>1, <1>2 DEF Day

-----------------------------------------------------------------------------
(* The first orders of a set *)

LEMMA LeastNatural == ASSUME NEW T \in SUBSET Nat, T # {} PROVE \E x \in T : \A y \in T : x <= y
<1>1. IsWellFoundedOn(OpToRel(<, Nat), Nat)
  BY NatLessThanWellFounded
<1>2. \A y, x \in Nat : y < x => <<y, x>> \in OpToRel(<, Nat)
  BY DEF OpToRel
<1>3. PICK R : R = OpToRel(<, Nat)
  OBVIOUS
<1>4. IsWellFoundedOn(R, Nat)
  BY <1>1, <1>3
<1>5. PICK x \in T : \A y \in T : ~(<<y, x>> \in R)
  BY <1>4, WFMin
<1>6. \A y \in T : ~(y < x)
  BY <1>2, <1>3, <1>5
<1> QED BY <1>5, <1>6

\* FirstOf takes no more than there is room for.
LEMMA FirstOfFits ==
  ASSUME NEW S \in SUBSET Order, NEW room \in Nat, NEW place \in [Order -> Int],
         \A p, q \in Order : place[p] = place[q] => p = q
  PROVE  /\ FirstOf(S, room, place) \subseteq S /\ IsFiniteSet(FirstOf(S, room, place))
         /\ Cardinality(FirstOf(S, room, place)) <= room
         /\ Cardinality(FirstOf(S, room, place)) \in Nat
<1>1. PICK F : F = FirstOf(S, room, place)
  OBVIOUS
<1>2. F \subseteq S /\ IsFiniteSet(S) /\ IsFiniteSet(F) /\ Cardinality(F) \in Nat /\ Cardinality(S) \in Nat
  BY <1>1, OrdersAssumption, FS_Subset, FS_CardinalityType DEF FirstOf
<1>3. PICK n : n = [o \in Order |-> Cardinality({p \in S : place[p] < place[o]})]
  OBVIOUS
<1>4. ASSUME NEW o \in Order
      PROVE  /\ IsFiniteSet({p \in S : place[p] < place[o]}) /\ n[o] \in Nat /\ n[o] <= Cardinality(S)
             /\ n[o] = Cardinality({p \in S : place[p] < place[o]})
  <2>1. PICK U : U = {p \in S : place[p] < place[o]} /\ U \subseteq S
    OBVIOUS
  <2> QED BY <1>2, <1>3, <2>1, FS_Subset, FS_CardinalityType
<1>5. CASE F = {}
  BY <1>1, <1>2, <1>5, FS_EmptySet
<1>6. CASE F # {}
  <2>1. PICK T : T = {Cardinality(S) - n[o] : o \in F}
    OBVIOUS
  <2>2. T \subseteq Nat /\ T # {}
    <3>1. \A o \in F : Cardinality(S) - n[o] \in Nat
      <4> SUFFICES ASSUME NEW o \in F PROVE Cardinality(S) - n[o] \in Nat
        OBVIOUS
      <4>1. o \in Order /\ n[o] \in Nat /\ n[o] <= Cardinality(S)
        BY <1>2, <1>4
      <4> QED BY <1>2, <4>1
    <3> QED BY <1>6, <2>1, <3>1
  <2>3. PICK x \in T : \A y \in T : x <= y
    BY <2>2, LeastNatural
  <2>4. PICK m \in F : x = Cardinality(S) - n[m]
    BY <2>1, <2>3
  <2>5. \A q \in F : n[q] <= n[m]
    <3> SUFFICES ASSUME NEW q \in F PROVE n[q] <= n[m]
      OBVIOUS
    <3>1. Cardinality(S) - n[m] <= Cardinality(S) - n[q]
      BY <2>1, <2>3, <2>4
    <3>2. q \in Order /\ m \in Order
      BY <1>2
    <3>3. n[q] \in Nat /\ n[m] \in Nat
      BY <1>4, <3>2
    <3> QED BY <1>2, <3>1, <3>3
  <2>6. ASSUME NEW q \in F, q # m PROVE place[q] < place[m]
    <3>1. q \in Order /\ m \in Order /\ place[q] \in Int /\ place[m] \in Int /\ place[q] # place[m]
      BY <1>2, <2>6
    <3>2. CASE place[m] < place[q]
      <4>1. PICK U, V : /\ U = {p \in S : place[p] < place[m]} /\ V = {p \in S : place[p] < place[q]}
                        /\ IsFiniteSet(U) /\ IsFiniteSet(V) /\ Cardinality(U) = n[m] /\ Cardinality(V) = n[q]
        BY <1>4, <3>1
      <4>2. U \union {m} \subseteq V /\ m \notin U
        BY <1>2, <3>1, <3>2, <4>1
      <4>3. IsFiniteSet(U \union {m}) /\ Cardinality(U \union {m}) = Cardinality(U) + 1
        BY <4>1, <4>2, FS_AddElement
      <4>4. Cardinality(U \union {m}) <= Cardinality(V)
        BY <4>1, <4>2, FS_Subset
      <4> QED BY <1>4, <2>5, <3>1, <4>1, <4>3, <4>4
    <3> QED BY <3>1, <3>2
  <2>7. PICK U : U = {p \in S : place[p] < place[m]} /\ IsFiniteSet(U) /\ Cardinality(U) = n[m] /\ n[m] \in Nat
    BY <1>2, <1>4
  <2>8. Cardinality(U) < room
    BY <1>1, <2>4, <2>7 DEF FirstOf
  <2>9. F \ {m} \subseteq U
    BY <1>2, <2>6, <2>7
  <2>10. IsFiniteSet(F \ {m}) /\ Cardinality(F \ {m}) = Cardinality(F) - 1
    BY <1>2, <2>4, FS_RemoveElement
  <2>11. Cardinality(F \ {m}) <= Cardinality(U)
    BY <2>7, <2>9, FS_Subset
  <2> QED BY <1>1, <1>2, <2>7, <2>8, <2>10, <2>11
<1> QED BY <1>5, <1>6

\* An order has one place in the catalog, and in each rotation of it.
LEMMA Places1 == /\ PoolPlace \in [Order -> 1..Len(Pool)]
                 /\ \A p, q \in Order : PoolPlace[p] = PoolPlace[q] => p = q
<1>1. ASSUME NEW o \in Order PROVE PoolPlace[o] \in DOMAIN Pool /\ Pool[PoolPlace[o]] = o
  <2>1. \E i \in DOMAIN Pool : Pool[i] = o
    BY OrdersAssumption DEF ToSet
  <2> QED BY <2>1 DEF PoolPlace
<1>2. DOMAIN Pool = 1..Len(Pool)
  BY OrdersAssumption
<1>3. \A p, q \in Order : PoolPlace[p] = PoolPlace[q] => p = q
  BY <1>1
<1> QED BY <1>1, <1>2, <1>3 DEF PoolPlace

LEMMA Places2 ==
  ASSUME NEW day \in Nat
  PROVE  /\ RotationPlace(day) \in [Order -> Int]
         /\ \A p, q \in Order : RotationPlace(day)[p] = RotationPlace(day)[q] => p = q
<1>1. PICK k \in Nat : k = Period(day) * Limit
  BY PeriodsInOrder, OrdersAssumption
<1>2. PICK n \in Nat : n = Len(Pool)
  BY OrdersAssumption, LenProperties
<1>3. ASSUME NEW o \in Order
      PROVE  /\ PoolPlace[o] \in 1..n /\ n \in Nat \ {0} /\ PoolPlace[o] - 1 - k \in Int
             /\ RotationPlace(day)[o] = (PoolPlace[o] - 1 - k) % n
  <2>1. PoolPlace[o] \in 1..n
    BY <1>2, Places1
  <2> QED BY <1>1, <1>2, <2>1 DEF RotationPlace
<1>4. ASSUME NEW p \in Order, NEW q \in Order, RotationPlace(day)[p] = RotationPlace(day)[q] PROVE p = q
  <2>1. PICK a \in Int, b \in Int : a = PoolPlace[p] - 1 - k /\ b = PoolPlace[q] - 1 - k /\ a % n = b % n
    BY <1>3, <1>4
  <2>2. n \in Nat \ {0} /\ PoolPlace[p] \in 1..n /\ PoolPlace[q] \in 1..n
    BY <1>3
  <2>3. a \div n \in Int /\ a = n * (a \div n) + (a % n) /\ a % n \in Int
    BY <2>2
  <2>4. b \div n \in Int /\ b = n * (b \div n) + (b % n)
    BY <2>2
  <2>5. ASSUME NEW u \in Int, NEW v \in Int, NEW r \in Int, a = n * u + r, b = n * v + r PROVE a = b
    <3>1. a - b < n /\ b - a < n
      BY <2>1, <2>2, <1>1
    <3>2. CASE u + 1 <= v
      <4>1. n * (u + 1) <= n * v
        BY <2>2, <3>2
      <4> QED BY <2>2, <2>5, <3>1, <4>1
    <3>3. CASE v + 1 <= u
      <4>1. n * (v + 1) <= n * u
        BY <2>2, <3>3
      <4> QED BY <2>2, <2>5, <3>1, <4>1
    <3> QED BY <2>5, <3>2, <3>3
  <2>6. a = b
    BY <2>1, <2>3, <2>4, <2>5
  <2>7. PoolPlace[p] = PoolPlace[q]
    BY <1>1, <2>1, <2>2, <2>6
  <2> QED BY <2>7, Places1
<1>5. RotationPlace(day) \in [Order -> Int]
  <2>1. \A o \in Order : (PoolPlace[o] - 1 - k) % n \in Int
    BY <1>3
  <2> QED BY <1>1, <1>2, <2>1 DEF RotationPlace
<1> QED BY <1>4, <1>5

-----------------------------------------------------------------------------
(* What reconcile_offers does to an entry *)

LEMMA OfferIsEntry == ASSUME NEW day \in Day PROVE Offer(day) \in Entry
BY DEF Offer, Entry, Status

\* The three passes over one entry.
EntryCarried(e, c, day) ==
    /\ Accepted(e) => c = [e EXCEPT !.day = day]
    /\ ~Accepted(e) => \/ c = e /\ (e.status = "available" => Current(e, day))
                       \/ e.status = "available" /\ c = [e EXCEPT !.status = "expired"]
EntryPreserved(c, d, day) ==
    /\ c.status # "available" => d = c
    /\ c.status = "available" => \/ d = [c EXCEPT !.day = day]
                                 \/ d = [c EXCEPT !.status = "expired"]
EntryFilled(d, r, day) == r = d \/ (r = Offer(day) /\ Refillable(d, day))
EntryReconciled(e, r, day) ==
    /\ Accepted(e) => r = [e EXCEPT !.day = day]
    /\ ~Accepted(e) =>
        \/ r = e /\ e.status # "available"
        \/ e.status = "available" /\ Current(e, day) /\ r = [e EXCEPT !.day = day]
        \/ e.status = "available" /\ r = [e EXCEPT !.status = "expired"]
        \/ r = Offer(day) /\ ~DoneThisPeriod(e, day)

LEMMA EntriesStay ==
  ASSUME NEW e \in Entry, NEW day \in Day
  PROVE  /\ [e EXCEPT !.day = day] \in Entry /\ [e EXCEPT !.status = "expired"] \in Entry
         /\ [e EXCEPT !.day = day].status = e.status /\ [e EXCEPT !.status = "expired"].status = "expired"
BY DEF Entry, Status

LEMMA CarryOne ==
  ASSUME NEW b \in [Order -> Entry], NEW day \in Day
  PROVE  Carry(b, day) \in [Order -> Entry] /\ \A o \in Order : EntryCarried(b[o], Carry(b, day)[o], day)
<1>1. ASSUME NEW e \in Entry
      PROVE  CarriedOrExpired(e, day) \in Entry /\ EntryCarried(e, CarriedOrExpired(e, day), day)
  BY EntriesStay DEF CarriedOrExpired, EntryCarried
<1> QED BY <1>1 DEF Carry

LEMMA PreserveOne ==
  ASSUME NEW c \in [Order -> Entry], NEW day \in Day
  PROVE  Preserve(c, day) \in [Order -> Entry] /\ \A o \in Order : EntryPreserved(c[o], Preserve(c, day)[o], day)
<1>1. PICK S : Preserve(c, day) = [p \in Order |-> IF p \in S THEN [c[p] EXCEPT !.day = day]
                                    ELSE IF p \in Offered(c) THEN [c[p] EXCEPT !.status = "expired"]
                                    ELSE c[p]]
               /\ S = FirstOf(Offered(c), Limit - Cardinality(Occupied(c, day)), PoolPlace)
  BY DEF Preserve
<1>2. \A p \in S : c[p].status = "available"
  BY <1>1 DEF FirstOf, Offered
<1>3. \A p \in Order : [c[p] EXCEPT !.day = day] \in Entry /\ [c[p] EXCEPT !.status = "expired"] \in Entry
  BY EntriesStay
<1> QED BY <1>1, <1>2, <1>3 DEF Offered, EntryPreserved

LEMMA FillOne ==
  ASSUME NEW d \in [Order -> Entry], NEW day \in Day
  PROVE  Fill(d, day) \in [Order -> Entry] /\ \A o \in Order : EntryFilled(d[o], Fill(d, day)[o], day)
<1>1. PICK S, room : /\ S = FirstOf({p \in Order : Refillable(d[p], day)}, room, RotationPlace(day))
                     /\ Fill(d, day) = [p \in Order |-> IF p \in S THEN Offer(day) ELSE d[p]]
  BY DEF Fill, Refilled
<1>2. \A p \in S : Refillable(d[p], day)
  BY <1>1 DEF FirstOf
<1> QED BY <1>1, <1>2, OfferIsEntry DEF EntryFilled

\* An accepted order is carried; any other stays, expires or is offered (again).
LEMMA ReconcileOne ==
  ASSUME NEW b \in [Order -> Entry], NEW day \in Day
  PROVE  /\ Reconciled(b, day) \in [Order -> Entry]
         /\ \A o \in Order : EntryReconciled(b[o], Reconciled(b, day)[o], day)
<1>1. PICK c : c = Carry(b, day) /\ c \in [Order -> Entry] /\ \A o \in Order : EntryCarried(b[o], c[o], day)
  BY CarryOne
<1>2. PICK d : d = Preserve(c, day) /\ d \in [Order -> Entry] /\ \A o \in Order : EntryPreserved(c[o], d[o], day)
  BY <1>1, PreserveOne
<1>3. PICK r : r = Fill(d, day) /\ r \in [Order -> Entry] /\ \A o \in Order : EntryFilled(d[o], r[o], day)
  BY <1>2, FillOne
<1>4. r = Reconciled(b, day)
  BY <1>1, <1>2, <1>3 DEF Reconciled
<1>5. ASSUME NEW e \in Entry, NEW x \in Entry, NEW y \in Entry, NEW z \in Entry,
             EntryCarried(e, x, day), EntryPreserved(x, y, day), EntryFilled(y, z, day)
      PROVE  EntryReconciled(e, z, day)
  <2>1. [e EXCEPT !.day = day].status = e.status /\ [e EXCEPT !.status = "expired"].status = "expired"
    BY EntriesStay
  <2>2. CASE Accepted(e)
    <3>1. x = [e EXCEPT !.day = day] /\ x.status = e.status
      BY <1>5, <2>1, <2>2 DEF EntryCarried
    <3>2. y = x
      BY <1>5, <2>2, <3>1 DEF EntryPreserved, Accepted
    <3>3. ~Refillable(y, day)
      BY <2>2, <3>1, <3>2 DEF Refillable, Accepted
    <3> QED BY <1>5, <2>2, <3>1, <3>2, <3>3 DEF EntryFilled, EntryReconciled
  <2>3. CASE ~Accepted(e)
    <3>1. \/ x = e /\ (e.status = "available" => Current(e, day))
          \/ e.status = "available" /\ x = [e EXCEPT !.status = "expired"]
      BY <1>5, <2>3 DEF EntryCarried
    <3>2. \/ y = e /\ e.status # "available"
          \/ e.status = "available" /\ Current(e, day) /\ y = [e EXCEPT !.day = day]
          \/ e.status = "available" /\ y = [e EXCEPT !.status = "expired"]
      BY <1>5, <2>1, <3>1 DEF EntryPreserved
    <3>3. Refillable(y, day) => ~DoneThisPeriod(e, day)
      BY <3>2 DEF Refillable, DoneThisPeriod
    <3> QED BY <1>5, <2>3, <3>2, <3>3 DEF EntryFilled, EntryReconciled
  <2> QED BY <2>2, <2>3
<1>6. \A o \in Order : EntryReconciled(b[o], r[o], day)
  BY <1>1, <1>2, <1>3, <1>5
<1> QED BY <1>3, <1>4, <1>6

-----------------------------------------------------------------------------
(* Typing *)

LEMMA AnEntry == Absent \in Entry /\ 0 \in Day
<1>1. 0 \in Day
  BY OrdersAssumption, DaysInOrder DEF Day
<1> QED BY <1>1, DayIsNat DEF Absent, Entry, Status

LEMMA DayAt == ASSUME NEW t \in 0..MaxTime PROVE t \div DayLength \in Day /\ t \div DayLength \in Nat
<1>1. t <= t
  BY OrdersAssumption
<1> QED BY <1>1, DaysInOrder, DayIsNat

LEMMA ACall ==
  ASSUME Typed, NEW c \in Caller, call[c] # Idle
  PROVE  call[c] \in Call /\ DayOf(c) \in Day /\ DayOf(c) \in Nat
<1>1. call[c] \in Call
  BY DEF Typed
<1>2. PICK t \in 0..MaxTime : t = call[c].at
  BY <1>1 DEF Call
<1> QED BY <1>1, <1>2, DayAt DEF DayOf

LEMMA ADay == ASSUME Typed PROVE Today \in Day /\ Today \in Nat
<1>1. PICK t \in 0..MaxTime : t = now
  BY DEF Typed
<1> QED BY <1>1, DayAt DEF Today

LEMMA SeenFits ==
  ASSUME Typed, NEW day PROVE Seen(board, day) \in [Order -> Entry \union {None}]
BY DEF Typed, Seen

LEMMA BonusFits ==
  ASSUME Typed, NEW day \in Day
  PROVE  BonusOn(day) \in [status : {"absent", "inProgress", "finished"}, day : Nat, progress : 0..BonusTarget]
<1>1. day \in Nat /\ Period(day) \in Nat
  BY DayIsNat, PeriodsInOrder
<1>2. PICK n \in Nat : n = Period(day) * PeriodDays
  BY <1>1, PeriodBegins
<1>3. BonusTarget \in Nat
  BY OrdersAssumption
<1> QED BY <1>2, <1>3 DEF BonusOn, Typed

LEMMA InitTyped == ASSUME Init PROVE Typed
<1>1. now \in 0..MaxTime /\ MaxTime \in Nat /\ BonusTarget \in Nat
  BY OrdersAssumption DEF Init
<1>2. Today \in Day
  BY <1>1, DaysInOrder DEF Today
<1>3. board \in [Order -> Entry]
  BY AnEntry DEF Init
<1>4. kept \in Seq(Event) /\ payments \in Seq(Payment) /\ bonuses \in Seq(Nat)
  BY EmptySeq DEF Init
<1> QED BY <1>1, <1>2, <1>3, <1>4 DEF Init, Typed

LEMMA CallChanges ==
  ASSUME Typed, NEW c \in Caller, NEW x \in Call \union {Idle}, call' = [call EXCEPT ![c] = x]
  PROVE  call' \in [Caller -> Call \union {Idle}]
BY DEF Typed

LEMMA BoardChanges ==
  ASSUME Typed, NEW o \in Order, NEW x \in Entry, board' = [board EXCEPT ![o] = x]
  PROVE  board' \in [Order -> Entry]
BY DEF Typed

LEMMA StepTyped == ASSUME Typed, [Next]_vars PROVE Typed'
<1> USE DEF vars, gameVars, dataVars, pastVars
<1>1. CASE Tick
  <2>1. PICK t, m : t = now /\ m = MaxTime /\ m \in Nat /\ t \in 0..m /\ t < m /\ now' = t + 1
    BY <1>1, OrdersAssumption DEF Tick, Typed
  <2>2. now' \in 0..MaxTime
    BY <2>1
  <2> QED BY <1>1, <2>2 DEF Tick, Typed, Next
<1>2. ASSUME NEW e \in Event, Happen(e) PROVE Typed'
  <2>1. stamp' \in [Event -> 0..MaxTime \union {None}]
    BY <1>2 DEF Happen, Typed
  <2> QED BY <1>2, <2>1 DEF Happen, Typed, Next
<1>3. ASSUME NEW e \in Event, Apply(e) PROVE Typed'
  <2>1. ASSUME NEW o \in Order PROVE Advanced(o, board[o]) \in Entry
    <3>1. board[o] \in Entry /\ Target[o] \in Nat
      BY OrdersAssumption DEF Typed
    <3>2. board[o].progress + 1 \in Nat
      BY <3>1 DEF Entry
    <3> QED BY <3>1, <3>2 DEF Advanced, Entry, Status
  <2>2. board' \in [Order -> Entry]
    BY <1>3, <2>1 DEF Apply, Typed
  <2>3. kept' \in Seq(Event)
    <3>1. PICK s \in Seq(Event) : s = Append(kept, e)
      BY AppendProperties DEF Typed
    <3>2. PICK k \in Nat \ {0} : k = Keep
      BY OrdersAssumption
    <3>3. PICK m \in Nat \ {0} : m = IF Len(s) > k THEN Len(s) - k + 1 ELSE 1
      BY <3>2, LenProperties
    <3>4. Len(s) \in Int /\ m \in Int /\ \A i \in m..Len(s) : s[i] \in Event
      BY <3>3, LenProperties
    <3>5. SubSeq(s, m, Len(s)) \in Seq(Event)
      BY <3>4, SubSeqProperties
    <3> QED BY <1>3, <3>1, <3>2, <3>3, <3>5 DEF Apply, KeepNewest
  <2> QED BY <1>3, <2>2, <2>3 DEF Apply, Typed, Next
<1>4. ASSUME NEW c \in Caller, Begin(c) PROVE Typed'
  <2>1. [stage |-> "ready", at |-> now, offers |-> Seen(board, Today)] \in Call
    BY ADay, SeenFits DEF Call, Typed
  <2>2. [stage |-> "reconcile", at |-> now, offers |-> Blank] \in Call
    BY DEF Call, Typed, Blank
  <2>3. call' \in [Caller -> Call \union {Idle}]
    BY <1>4, <2>1, <2>2 DEF Begin, Typed
  <2> QED BY <1>4, <2>3 DEF Begin, Typed, Next
<1>5. ASSUME NEW c \in Caller, Reconcile(c) PROVE Typed'
  <2>1. call[c] \in Call /\ DayOf(c) \in Day
    BY <1>5, ACall DEF Reconcile
  <2>2. [call[c] EXCEPT !.stage = "look"] \in Call
    BY <2>1 DEF Call
  <2>3. call' \in [Caller -> Call \union {Idle}]
    BY <1>5, <2>2 DEF Reconcile, Typed
  <2>4. board' \in [Order -> Entry]
    BY <1>5, <2>1, ReconcileOne DEF Reconcile, Typed
  <2>5. bonus' \in [status : {"absent", "inProgress", "finished"}, day : Nat, progress : 0..BonusTarget]
    BY <1>5, <2>1, BonusFits DEF Reconcile
  <2> QED BY <1>5, <2>1, <2>3, <2>4, <2>5 DEF Reconcile, Typed, Next
<1>6. ASSUME NEW c \in Caller, Look(c) PROVE Typed'
  <2>1. call[c] \in Call /\ Seen(board, DayOf(c)) \in [Order -> Entry \union {None}]
    BY <1>6, ACall, SeenFits DEF Look
  <2>2. [call[c] EXCEPT !.stage = "ready", !.offers = Seen(board, DayOf(c))] \in Call
    BY <2>1 DEF Call
  <2>3. call' = [call EXCEPT ![c] = [call[c] EXCEPT !.stage = "ready", !.offers = Seen(board, DayOf(c))]]
    BY <1>6 DEF Look, Typed
  <2>4. call' \in [Caller -> Call \union {Idle}]
    BY <2>2, <2>3, CallChanges
  <2> QED BY <1>6, <2>4 DEF Look, Typed, Next
<1>7. ASSUME NEW c \in Caller, Leave(c) PROVE Typed'
  <2>1. call' \in [Caller -> Call \union {Idle}]
    BY <1>7 DEF Leave, Typed
  <2> QED BY <1>7, <2>1 DEF Leave, Typed, Next
<1>8. ASSUME NEW c \in Caller, NEW o \in Order, Activate(c, o) PROVE Typed'
  <2>1. call[c] \in Call
    BY <1>8, ACall DEF Activate, Answering
  <2>2. PICK x : x = call[c].offers[o] /\ x \in Entry
    BY <1>8, <2>1 DEF Activate, Call
  <2>3. PICK t \in Nat : t = call[c].at
    <3>1. call[c].at \in 0..MaxTime
      BY <2>1 DEF Call
    <3> QED BY <3>1
  <2>4. Activated(x, t) \in Entry
    BY <2>2, <2>3 DEF Activated, Entry, Status
  <2>5. board' \in [Order -> Entry]
    BY <1>8, <2>2, <2>3, <2>4, BoardChanges DEF Activate
  <2>6. call' \in [Caller -> Call \union {Idle}]
    BY <1>8 DEF Activate, Answering, Typed
  <2>7. round' \in [Order -> Nat]
    BY <1>8 DEF Activate, Typed
  <2> QED BY <1>8, <2>5, <2>6, <2>7 DEF Activate, Typed, Next
<1>9. ASSUME NEW c \in Caller, NEW o \in Order, Deactivate(c, o) PROVE Typed'
  <2>1. Offer(DayOf(c)) \in Entry
    BY <1>9, ACall, OfferIsEntry DEF Deactivate, Answering
  <2>2. board' \in [Order -> Entry]
    BY <1>9, <2>1, BoardChanges DEF Deactivate, Deactivated
  <2>3. call' \in [Caller -> Call \union {Idle}]
    BY <1>9 DEF Deactivate, Answering, Typed
  <2> QED BY <1>9, <2>2, <2>3 DEF Deactivate, Typed, Next
<1>10. ASSUME NEW c \in Caller, NEW o \in Order, NEW tx \in Tx, Replay(c, o, tx) PROVE Typed'
  <2>1. call' \in [Caller -> Call \union {Idle}]
    BY <1>10 DEF Replay, Answering, Typed
  <2> QED BY <1>10, <2>1 DEF Replay, Typed, Next
<1>11. ASSUME NEW c \in Caller, NEW o \in Order, NEW tx \in Tx, Pay(c, o, tx) PROVE Typed'
  <2>1. board[o] \in Entry /\ board[o].day \in Nat
    BY DayIsNat DEF Typed, Entry
  <2>2. Finished(board[o], tx) \in Entry
    BY <2>1 DEF Finished, Entry, Status
  <2>3. board' \in [Order -> Entry]
    BY <1>11, <2>2, BoardChanges DEF Pay
  <2>4. call' \in [Caller -> Call \union {Idle}]
    BY <1>11 DEF Pay, Answering, Typed
  <2>5. claims' \in [Tx -> (Order \X Nat) \union {None}]
    BY <1>11, <2>1 DEF Pay, Typed
  <2>6. Period(board[o].day) \in Nat /\ Period(bonus.day) \in Nat
    <3>1. PICK p, q \in Nat : p = board[o].day /\ q = bonus.day /\ p <= p /\ q <= q
      BY <2>1 DEF Typed
    <3> QED BY <3>1, PeriodsInOrder
  <2>7. payments' \in Seq(Payment)
    <3>1. [order |-> o, period |-> Period(board[o].day), round |-> round[o], tx |-> tx] \in Payment
      BY <2>6 DEF Payment, Typed
    <3> QED BY <1>11, <3>1, AppendProperties DEF Pay, Typed
  <2>8. bonuses' \in Seq(Nat)
    BY <1>11, <2>6, AppendProperties DEF Pay, Typed
  <2>9. bonus' \in [status : {"absent", "inProgress", "finished"}, day : Nat, progress : 0..BonusTarget]
    <3>1. PICK t, x : t \in Nat /\ t = BonusTarget /\ x = bonus
      BY OrdersAssumption
    <3>2. x \in [status : {"absent", "inProgress", "finished"}, day : Nat, progress : 0..t]
      BY <3>1 DEF Typed
    <3>3. [x EXCEPT !.progress = t, !.status = "finished"]
             \in [status : {"absent", "inProgress", "finished"}, day : Nat, progress : 0..t]
      <4>1. t \in 0..t
        BY <3>1
      <4>2. PICK y : y = [x EXCEPT !.progress = t] /\ y \in [status : {"absent", "inProgress", "finished"}, day : Nat, progress : 0..t]
        <5>1. [x EXCEPT !.progress = t] \in [status : {"absent", "inProgress", "finished"}, day : Nat, progress : 0..t]
          BY <3>1, <3>2, <4>1
        <5> QED BY <5>1
      <4>3. [y EXCEPT !.status = "finished"] \in [status : {"absent", "inProgress", "finished"}, day : Nat, progress : 0..t]
        BY <4>2
      <4> QED BY <4>2, <4>3
    <3>4. x.progress + 1 < t => [x EXCEPT !.progress = x.progress + 1]
             \in [status : {"absent", "inProgress", "finished"}, day : Nat, progress : 0..t]
      BY <3>1, <3>2
    <3>5. x.progress + 1 >= t \/ x.progress + 1 < t
      BY <3>1, <3>2
    <3> QED BY <1>11, <3>1, <3>2, <3>3, <3>4, <3>5 DEF Pay, BonusAfterClaim
  <2> QED BY <1>11, <2>3, <2>4, <2>5, <2>7, <2>8, <2>9 DEF Pay, Typed, Next
<1>12. CASE UNCHANGED vars
  BY <1>12 DEF Typed
<1> QED BY <1>1, <1>2, <1>3, <1>4, <1>5, <1>6, <1>7, <1>8, <1>9, <1>10, <1>11, <1>12 DEF Next

-----------------------------------------------------------------------------
(* Payments, however calls overlap *)

LEMMA EntryFields ==
  ASSUME NEW e \in Entry, NEW day, NEW st, NEW n, NEW t
  PROVE  /\ [e EXCEPT !.day = day].status = e.status /\ [e EXCEPT !.day = day].tx = e.tx
         /\ [e EXCEPT !.day = day].day = day /\ [e EXCEPT !.day = day].progress = e.progress
         /\ [e EXCEPT !.day = day].since = e.since
         /\ [e EXCEPT !.status = st].status = st /\ [e EXCEPT !.status = st].tx = e.tx
         /\ [e EXCEPT !.status = st].day = e.day /\ [e EXCEPT !.status = st].progress = e.progress
         /\ [e EXCEPT !.status = st].since = e.since
         /\ [e EXCEPT !.progress = n, !.status = st].status = st
         /\ [e EXCEPT !.progress = n, !.status = st].tx = e.tx
         /\ [e EXCEPT !.progress = n, !.status = st].day = e.day
         /\ [e EXCEPT !.progress = n, !.status = st].progress = n
         /\ [e EXCEPT !.progress = n, !.status = st].since = e.since
         /\ [e EXCEPT !.progress = n].status = e.status /\ [e EXCEPT !.progress = n].tx = e.tx
         /\ [e EXCEPT !.progress = n].day = e.day /\ [e EXCEPT !.progress = n].progress = n
         /\ [e EXCEPT !.progress = n].since = e.since
         /\ [e EXCEPT !.status = st, !.tx = t].status = st /\ [e EXCEPT !.status = st, !.tx = t].tx = t
         /\ [e EXCEPT !.status = st, !.tx = t].day = e.day
         /\ [e EXCEPT !.status = st, !.tx = t].progress = e.progress
         /\ [e EXCEPT !.status = st, !.since = n, !.tx = t].status = st
         /\ [e EXCEPT !.status = st, !.since = n, !.tx = t].tx = t
         /\ [e EXCEPT !.status = st, !.since = n, !.tx = t].since = n
         /\ [e EXCEPT !.status = st, !.since = n, !.tx = t].day = e.day
         /\ [e EXCEPT !.status = st, !.since = n, !.tx = t].progress = e.progress
BY DEF Entry

\* A reconciled entry is accepted only if it was, and then with what it had.
LEMMA StillAccepted ==
  ASSUME NEW e \in Entry, NEW day \in Day, NEW r, EntryReconciled(e, r, day)
  PROVE  /\ Accepted(r) => Accepted(e) /\ r.status = e.status
         /\ r.tx \in {e.tx, None} /\ r.progress \in {e.progress, 0}
         /\ Accepted(e) => /\ Accepted(r) /\ r.progress = e.progress /\ r.since = e.since
                           /\ r.day = day /\ r.tx = e.tx
<1>1. /\ [e EXCEPT !.day = day].status = e.status /\ [e EXCEPT !.day = day].tx = e.tx
      /\ [e EXCEPT !.day = day].day = day /\ [e EXCEPT !.day = day].progress = e.progress
      /\ [e EXCEPT !.day = day].since = e.since
  BY EntryFields
<1>2. /\ [e EXCEPT !.status = "expired"].status = "expired" /\ [e EXCEPT !.status = "expired"].tx = e.tx
      /\ [e EXCEPT !.status = "expired"].progress = e.progress
  BY EntryFields
<1>3. Offer(day).status = "available" /\ Offer(day).tx = None /\ Offer(day).progress = 0
  BY DEF Offer
<1> QED BY <1>1, <1>2, <1>3 DEF EntryReconciled, Accepted

LEMMA AdvancedFits ==
  ASSUME Paying, NEW o \in Order, NEW e \in Event, CountsFor(o, e), NEW r, r = Advanced(o, board[o])
  PROVE  /\ Accepted(board[o]) /\ Accepted(r) /\ r.tx = board[o].tx /\ r.since = board[o].since
         /\ r.day = board[o].day
         /\ r.progress >= board[o].progress /\ r.progress <= Target[o] /\ r.progress <= board[o].progress + 1
         /\ r.status \in {"inProgress", "claimable"}
         /\ r.status = "claimable" => r.progress = Target[o]
         /\ r.status = "inProgress" => r.progress < Target[o]
<1>1. PICK b, t : /\ b = board[o] /\ t = Target[o] /\ b \in Entry /\ t \in Nat /\ b.progress <= t
                  /\ b.status = "inProgress" /\ t # 0
  BY OrdersAssumption DEF Paying, Typed, Bounded, CountsFor
<1>2. \A y : y = [b EXCEPT !.progress = t, !.status = "claimable"] =>
         y.tx = b.tx /\ y.since = b.since /\ y.progress = t /\ y.status = "claimable" /\ y.day = b.day
  BY <1>1, EntryFields
<1>3. \A y : y = [b EXCEPT !.progress = b.progress + 1] =>
         y.tx = b.tx /\ y.since = b.since /\ y.progress = b.progress + 1 /\ y.status = "inProgress" /\ y.day = b.day
  BY <1>1, EntryFields
<1>4. b.progress \in Nat
  BY <1>1 DEF Entry
<1>5. IF b.progress + 1 >= t THEN r = [b EXCEPT !.progress = t, !.status = "claimable"]
                             ELSE r = [b EXCEPT !.progress = b.progress + 1]
  BY <1>1 DEF Advanced
<1>6. CASE b.progress + 1 >= t
  BY <1>1, <1>2, <1>4, <1>5, <1>6 DEF Accepted
<1>7. CASE ~(b.progress + 1 >= t)
  BY <1>1, <1>3, <1>4, <1>5, <1>7 DEF Accepted
<1> QED BY <1>6, <1>7

LEMMA InitPaying == ASSUME Init PROVE Paying
<1>1. payments = <<>> /\ DOMAIN payments = {}
  BY DEF Init
<1>2. Typed
  BY InitTyped
<1>3. \A o \in Order : board[o].progress = 0 /\ board[o].tx = None /\ ~Accepted(board[o])
  BY DEF Init, Absent, Accepted
<1>4. Bounded
  BY <1>3, OrdersAssumption DEF Bounded, Init
<1> QED BY <1>1, <1>2, <1>3, <1>4 DEF Init, Paying, Unpaid, Receipted, PaidOnce

\* A step that pays nothing and lets no order back onto the board.
LEMMA NothingPaid ==
  ASSUME Paying, UNCHANGED <<payments, claims, round, reported>>, Typed', Bounded',
         \A o \in Order : /\ Accepted(board'[o]) => Accepted(board[o])
                          /\ board'[o].tx \in {board[o].tx, None}
  PROVE  Paying'
<1>1. Unpaid'
  BY DEF Paying, Unpaid
<1>2. Receipted'
  BY DEF Paying, Receipted
<1>3. PaidOnce'
  BY DEF Paying, PaidOnce
<1> QED BY <1>1, <1>2, <1>3 DEF Paying

LEMMA StepBounded == ASSUME Paying, [Next]_vars PROVE Bounded'
<1> USE DEF vars, gameVars, dataVars, pastVars
<1>0. Typed /\ Bounded
  BY DEF Paying
<1>1. CASE Tick
  BY <1>0, <1>1 DEF Tick, Bounded
<1>2. ASSUME NEW e \in Event, Happen(e) PROVE Bounded'
  BY <1>0, <1>2 DEF Happen, Bounded
<1>3. ASSUME NEW e \in Event, Apply(e) PROVE Bounded'
  <2>1. \A o \in Order : board'[o].progress <= Target[o]
    BY <1>0, <1>3, AdvancedFits DEF Apply, Bounded
  <2> QED BY <1>0, <1>3, <2>1 DEF Apply, Bounded
<1>4. ASSUME NEW c \in Caller, Begin(c) \/ Look(c) PROVE Bounded'
  <2>1. \A d \in Caller : call'[d] # Idle =>
          \/ call[d] # Idle /\ call'[d].offers = call[d].offers
          \/ call'[d].offers = Blank
          \/ \E day : call'[d].offers = Seen(board, day)
    <3>1. CASE Begin(c)
      <4>1. call'[c].offers \in {Seen(board, Today), Blank}
        BY <1>0, <3>1 DEF Begin, Typed
      <4>2. \A d \in Caller : d # c => call'[d] = call[d]
        BY <1>0, <3>1 DEF Begin, Typed
      <4> QED BY <4>1, <4>2
    <3>2. CASE Look(c)
      <4>1. call[c] \in Call
        BY <1>0, <3>2, ACall DEF Look
      <4>2. call'[c].offers = Seen(board, DayOf(c))
        BY <1>0, <3>2, <4>1 DEF Look, Typed, Call
      <4>3. \A d \in Caller : d # c => call'[d] = call[d]
        BY <1>0, <3>2 DEF Look, Typed
      <4> QED BY <4>2, <4>3
    <3> QED BY <1>4, <3>1, <3>2
  <2>2. \A day : \A o \in Order : Seen(board, day)[o] # None => Seen(board, day)[o] = board[o]
    BY DEF Seen
  <2>3. \A o \in Order : Blank[o] = None
    BY DEF Blank
  <2> QED BY <1>0, <1>4, <2>1, <2>2, <2>3 DEF Begin, Look, Bounded
<1>5. ASSUME NEW c \in Caller, Reconcile(c) PROVE Bounded'
  <2>1. DayOf(c) \in Day
    BY <1>0, <1>5, ACall DEF Reconcile
  <2>2. \A o \in Order : board'[o].progress \in {board[o].progress, 0} /\ Target[o] \in Nat
    <3>1. \A o \in Order : EntryReconciled(board[o], board'[o], DayOf(c)) /\ board[o] \in Entry
      BY <1>0, <1>5, <2>1, ReconcileOne DEF Reconcile, Typed
    <3> QED BY <2>1, <3>1, StillAccepted, OrdersAssumption
  <2>3. \A d \in Caller : call'[d] # Idle => call[d] # Idle /\ call'[d].offers = call[d].offers
    BY <1>0, <1>5 DEF Reconcile, Typed, Call
  <2> QED BY <1>0, <2>2, <2>3 DEF Bounded
<1>6. ASSUME NEW c \in Caller, Leave(c) PROVE Bounded'
  BY <1>0, <1>6 DEF Leave, Bounded, Typed
<1>7. ASSUME NEW c \in Caller, NEW o \in Order,
             \/ Activate(c, o) \/ Deactivate(c, o)
             \/ \E tx \in Tx : Replay(c, o, tx) \/ Pay(c, o, tx)
      PROVE  Bounded'
  <2>1. \A d \in Caller : call'[d] # Idle => call[d] # Idle /\ call'[d].offers = call[d].offers
    BY <1>0, <1>7 DEF Activate, Deactivate, Replay, Pay, Answering, Typed
  <2>2. \A p \in Order : board'[p].progress <= Target[p]
    <3>1. ASSUME NEW x \in Entry
          PROVE  \A t : Activated(x, t).progress = x.progress /\ Finished(x, t).progress = x.progress
      BY EntryFields DEF Activated, Finished
    <3>2. \A day : Offer(day).progress = 0
      BY DEF Offer
    <3>3. \A p \in Order : board[p] \in Entry /\ Target[p] \in Nat /\ board[p].progress <= Target[p]
      BY <1>0, OrdersAssumption DEF Typed, Bounded
    <3>4. CASE Activate(c, o)
      <4>1. call[c] \in Call /\ call[c] # Idle
        BY <1>0, <3>4, ACall DEF Activate, Answering
      <4>2. PICK x \in Entry : x = call[c].offers[o] /\ x.progress <= Target[o]
        BY <1>0, <3>4, <4>1 DEF Activate, Call, Bounded
      <4> QED BY <1>0, <3>1, <3>3, <3>4, <4>2 DEF Activate, Typed
    <3>5. CASE Deactivate(c, o)
      BY <1>0, <3>2, <3>3, <3>5 DEF Deactivate, Deactivated, Typed
    <3>6. ASSUME NEW tx \in Tx, Pay(c, o, tx) PROVE \A p \in Order : board'[p].progress <= Target[p]
      BY <1>0, <3>1, <3>3, <3>6 DEF Pay, Typed
    <3>7. ASSUME NEW tx \in Tx, Replay(c, o, tx) PROVE \A p \in Order : board'[p].progress <= Target[p]
      BY <3>3, <3>7 DEF Replay
    <3> QED BY <1>7, <3>4, <3>5, <3>6, <3>7
  <2> QED BY <1>0, <2>1, <2>2 DEF Bounded
<1>8. CASE UNCHANGED vars
  BY <1>0, <1>8 DEF Bounded
<1> QED BY <1>1, <1>2, <1>3, <1>4, <1>5, <1>6, <1>7, <1>8 DEF Next

LEMMA PaymentsTyped ==
  ASSUME Typed
  PROVE  /\ payments \in Seq(Payment) /\ Len(payments) \in Nat /\ DOMAIN payments = 1..Len(payments)
         /\ \A i \in DOMAIN payments : /\ payments[i].order \in Order /\ payments[i].round \in Nat
                                      /\ payments[i].tx \in Tx /\ payments[i].period \in Nat
<1>1. PICK s \in Seq(Payment) : s = payments
  BY DEF Typed
<1>2. Len(s) \in Nat /\ DOMAIN s = 1..Len(s)
  BY LenProperties
<1>3. \A i \in 1..Len(s) : s[i] \in Payment
  BY ElementOfSeq
<1> QED BY <1>1, <1>2, <1>3 DEF Payment

\* What activating and paying leave of an entry.
LEMMA ActivateDoes ==
  ASSUME Paying, NEW c \in Caller, NEW o \in Order, Activate(c, o)
  PROVE  /\ call[c] \in Call /\ call[c].offers[o] \in Entry
         /\ board'[o].status = "inProgress" /\ board'[o].tx = None /\ board'[o].since = call[c].at
         /\ board'[o].day = call[c].offers[o].day /\ board'[o].progress = call[c].offers[o].progress
         /\ \A p \in Order : p # o => board'[p] = board[p]
<1>1. call[c] \in Call /\ board \in [Order -> Entry]
  BY ACall DEF Activate, Answering, Paying, Typed
<1>2. call[c].offers[o] \in Entry
  BY <1>1 DEF Activate, Call
<1>3. board'[o] = Activated(call[c].offers[o], call[c].at) /\ \A p \in Order : p # o => board'[p] = board[p]
  BY <1>1 DEF Activate
<1> QED BY <1>1, <1>2, <1>3, EntryFields DEF Activated

LEMMA PayDoes ==
  ASSUME Paying, NEW c \in Caller, NEW o \in Order, NEW tx \in Tx, Pay(c, o, tx)
  PROVE  /\ Accepted(board[o]) /\ board[o].tx = None /\ claims[tx] = None /\ board[o].day \in Nat
         /\ board'[o].status = "finished" /\ board'[o].tx = tx /\ board'[o].day = board[o].day
         /\ \A p \in Order : p # o => board'[p] = board[p]
         /\ claims'[tx] # None /\ \A t \in Tx : t # tx => claims'[t] = claims[t]
         /\ payments' \in Seq(Payment) /\ Len(payments') = Len(payments) + 1
         /\ \A i \in DOMAIN payments : payments'[i] = payments[i]
         /\ DOMAIN payments' = DOMAIN payments \union {Len(payments')}
         /\ payments'[Len(payments')] = [order |-> o, period |-> Period(board[o].day), round |-> round[o], tx |-> tx]
<1>1. /\ board \in [Order -> Entry] /\ payments \in Seq(Payment) /\ round \in [Order -> Nat]
      /\ claims \in [Tx -> (Order \X Nat) \union {None}]
  BY DEF Paying, Typed
<1>2. board[o] \in Entry /\ board[o].day \in Nat
  BY <1>1, DayIsNat DEF Entry
<1>3. board'[o] = Finished(board[o], tx) /\ \A p \in Order : p # o => board'[p] = board[p]
  BY <1>1 DEF Pay
<1>4. board'[o].status = "finished" /\ board'[o].tx = tx /\ board'[o].day = board[o].day
  BY <1>2, <1>3, EntryFields DEF Finished
<1>5. Accepted(board[o]) /\ board[o].tx = None
  BY DEF Pay, Accepted, Paying, Unpaid
<1>6. claims[tx] = None
  BY <1>5, OrdersAssumption DEF Pay, ReceiptAgrees
<1>7. claims'[tx] = <<o, board[o].day>> /\ \A t \in Tx : t # tx => claims'[t] = claims[t]
  BY <1>1 DEF Pay
<1>8. <<o, board[o].day>> # None
  BY <1>2, OrdersAssumption
<1>9. PICK n \in Nat : n = board[o].day /\ n <= n /\ Period(n) \in Nat
  BY <1>2, PeriodsInOrder
<1>10. PICK x \in Payment : x = [order |-> o, period |-> Period(board[o].day), round |-> round[o], tx |-> tx]
  <2>1. [order |-> o, period |-> Period(board[o].day), round |-> round[o], tx |-> tx] \in Payment
    BY <1>1, <1>9 DEF Payment
  <2> QED BY <2>1
<1>11. payments' = Append(payments, x)
  BY <1>10 DEF Pay
<1>12. /\ payments' \in Seq(Payment) /\ Len(payments') = Len(payments) + 1 /\ payments'[Len(payments) + 1] = x
       /\ \A i \in 1..Len(payments) : payments'[i] = payments[i]
  BY <1>1, <1>10, <1>11, AppendProperties
<1>13. DOMAIN payments = 1..Len(payments) /\ DOMAIN payments' = 1..Len(payments') /\ Len(payments) \in Nat
  BY <1>1, <1>12, LenProperties
<1> QED BY <1>2, <1>3, <1>4, <1>5, <1>6, <1>7, <1>8, <1>10, <1>12, <1>13

LEMMA StepPaying == ASSUME Paying, [Next]_vars PROVE Paying'
<1> USE DEF vars, gameVars, dataVars, pastVars
<1>0. Typed /\ Typed' /\ Bounded'
  BY StepTyped, StepBounded DEF Paying
<1>1. ASSUME UNCHANGED <<payments, claims, round, reported, board>> PROVE Paying'
  BY <1>0, <1>1, NothingPaid
<1>2. ASSUME NEW e \in Event, Apply(e) PROVE Paying'
  <2>1. \A o \in Order : board'[o] = board[o] \/ (CountsFor(o, e) /\ board'[o] = Advanced(o, board[o]))
    BY <1>2 DEF Apply
  <2>2. \A o \in Order : (Accepted(board'[o]) => Accepted(board[o])) /\ board'[o].tx \in {board[o].tx, None}
    BY <2>1, AdvancedFits
  <2> QED BY <1>0, <1>2, <2>2, NothingPaid DEF Apply
<1>3. ASSUME NEW c \in Caller, Reconcile(c) PROVE Paying'
  <2>1. DayOf(c) \in Day
    BY <1>0, <1>3, ACall DEF Reconcile
  <2>2. \A o \in Order : EntryReconciled(board[o], board'[o], DayOf(c)) /\ board[o] \in Entry
    BY <1>0, <1>3, <2>1, ReconcileOne DEF Reconcile, Typed
  <2>3. \A o \in Order : (Accepted(board'[o]) => Accepted(board[o])) /\ board'[o].tx \in {board[o].tx, None}
    BY <2>1, <2>2, StillAccepted
  <2> QED BY <1>0, <1>3, <2>3, NothingPaid DEF Reconcile
<1>4. ASSUME NEW c \in Caller, NEW o \in Order, Deactivate(c, o) PROVE Paying'
  <2>1. \A p \in Order : board'[p] = board[p] \/ board'[p] = Offer(DayOf(c))
    BY <1>0, <1>4 DEF Deactivate, Deactivated, Typed
  <2>2. \A p \in Order : (Accepted(board'[p]) => Accepted(board[p])) /\ board'[p].tx \in {board[p].tx, None}
    BY <2>1 DEF Offer, Accepted
  <2> QED BY <1>0, <1>4, <2>2, NothingPaid DEF Deactivate
<1>5. ASSUME NEW c \in Caller, NEW o \in Order, Activate(c, o) PROVE Paying'
  <2>1. board'[o].tx = None /\ \A p \in Order : p # o => board'[p] = board[p]
    BY <1>5, ActivateDoes
  <2>2. round'[o] = round[o] + 1 /\ \A p \in Order : p # o => round'[p] = round[p]
    BY <1>0, <1>5 DEF Activate, Typed
  <2>3. UNCHANGED <<payments, claims, reported>> /\ payments \in Seq(Payment) /\ round \in [Order -> Nat]
    BY <1>0, <1>5 DEF Activate, Typed
  <2>4. \A i \in DOMAIN payments : payments[i].order \in Order /\ payments[i].round \in Nat
    BY <1>0, PaymentsTyped
  <2>5. Unpaid'
    BY <2>1, <2>2, <2>3, <2>4 DEF Paying, Unpaid, Receipted
  <2>6. Receipted'
    BY <2>1, <2>2, <2>3, <2>4 DEF Paying, Receipted
  <2>7. PaidOnce'
    BY <2>3 DEF Paying, PaidOnce
  <2> QED BY <1>0, <2>5, <2>6, <2>7 DEF Paying
<1>6. ASSUME NEW c \in Caller, NEW o \in Order, NEW tx \in Tx, Replay(c, o, tx) PROVE Paying'
  <2>1. UNCHANGED <<payments, claims, round, board>>
    BY <1>6 DEF Replay
  <2>2. ASSUME Reports(o, tx) PROVE \E i \in DOMAIN payments : <<payments[i].tx, payments[i].order>> = <<tx, o>>
    <3>1. board[o].tx # None
      BY <2>2, OrdersAssumption DEF Reports
    <3> QED BY <2>2, <3>1 DEF Paying, Receipted, Reports
  <2>3. PaidOnce'
    BY <1>6, <2>1, <2>2 DEF Replay, Paying, PaidOnce
  <2> QED BY <1>0, <2>1, <2>3 DEF Paying, Unpaid, Receipted
<1>7. ASSUME NEW c \in Caller, NEW o \in Order, NEW tx \in Tx, Pay(c, o, tx) PROVE Paying'
  <2>1. PICK n, x : n = Len(payments') /\ x = [order |-> o, period |-> Period(board[o].day), round |-> round[o], tx |-> tx]
    OBVIOUS
  <2>2. /\ Accepted(board[o]) /\ claims[tx] = None /\ ~Accepted(board'[o]) /\ board'[o].tx = tx
        /\ \A p \in Order : p # o => board'[p] = board[p]
        /\ claims'[tx] # None /\ \A t \in Tx : t # tx => claims'[t] = claims[t]
        /\ \A i \in DOMAIN payments : payments'[i] = payments[i]
        /\ DOMAIN payments' = DOMAIN payments \union {n} /\ payments'[n] = x
    BY <1>7, <2>1, PayDoes DEF Accepted
  <2>3. round' = round /\ reported' = reported \union {<<tx, o>>}
    BY <1>7 DEF Pay
  <2>4. n \notin DOMAIN payments /\ round[o] \in Nat
        /\ \A i \in DOMAIN payments : payments[i].order \in Order /\ payments[i].round \in Nat /\ payments[i].tx \in Tx
    <3>1. Len(payments') = Len(payments) + 1
      BY <1>7, PayDoes
    <3>2. n \notin DOMAIN payments
      BY <1>0, <2>1, <3>1, PaymentsTyped
    <3>3. round[o] \in Nat
      BY <1>0 DEF Typed
    <3> QED BY <1>0, <3>2, <3>3, PaymentsTyped
  <2>5. x.order = o /\ x.round = round[o] /\ x.tx = tx
    BY <2>1
  <2>6. \A i \in DOMAIN payments : payments[i].tx # tx /\ (payments[i].order = o => payments[i].round < round[o])
    BY <2>2 DEF Paying, Unpaid, Receipted
  <2>7. Unpaid'
    BY <2>2, <2>3, <2>5 DEF Paying, Unpaid
  <2>8. Receipted'
    <3>1. \A i \in DOMAIN payments' : claims'[payments'[i].tx] # None /\ payments'[i].round <= round'[payments'[i].order]
      BY <2>2, <2>3, <2>4, <2>5 DEF Paying, Receipted
    <3>2. \A p \in Order : board'[p].tx # None =>
            \E i \in DOMAIN payments' : payments'[i].tx = board'[p].tx /\ payments'[i].order = p
      BY <2>2, <2>5 DEF Paying, Receipted
    <3> QED BY <3>1, <3>2 DEF Receipted
  <2>9. PaidOnce'
    <3>1. \A i, k \in DOMAIN payments' : i # k =>
            /\ payments'[i].tx # payments'[k].tx
            /\ <<payments'[i].order, payments'[i].round>> # <<payments'[k].order, payments'[k].round>>
      BY <2>2, <2>4, <2>5, <2>6 DEF Paying, PaidOnce
    <3>2. \A r \in reported' : \E i \in DOMAIN payments' : <<payments'[i].tx, payments'[i].order>> = r
      BY <2>2, <2>3, <2>5 DEF Paying, PaidOnce
    <3> QED BY <3>1, <3>2 DEF PaidOnce
  <2> QED BY <1>0, <2>7, <2>8, <2>9 DEF Paying
<1>8. CASE UNCHANGED vars
  BY <1>1, <1>8
<1>9. CASE Tick
  BY <1>1, <1>9 DEF Tick
<1>10. ASSUME NEW e \in Event, Happen(e) PROVE Paying'
  BY <1>1, <1>10 DEF Happen
<1>11. ASSUME NEW c \in Caller, Begin(c) \/ Look(c) \/ Leave(c) PROVE Paying'
  BY <1>1, <1>11 DEF Begin, Look, Leave
<1> QED BY <1>2, <1>3, <1>4, <1>5, <1>6, <1>7, <1>8, <1>9, <1>10, <1>11 DEF Next

LEMMA PayingHolds == Spec => []Paying
<1>1. Init => Paying
  BY InitPaying
<1>2. Paying /\ [Next]_vars => Paying'
  BY StepPaying
<1> QED BY <1>1, <1>2, PTL DEF Spec

LEMMA LastDay == MaxTime \div DayLength \in Nat
<1>1. PICK D \in Nat \ {0}, t \in Nat : D = DayLength /\ t = MaxTime /\ t <= t
  BY OrdersAssumption
<1> QED BY <1>1, Quotients

\* The first day of a period of the board is a day of the board.
LEMMA FirstDay == ASSUME NEW day \in Day PROVE Period(day) * PeriodDays \in Day
<1>1. PICK D \in Nat \ {0} : D = PeriodDays
  BY OrdersAssumption
<1>2. day \in Nat /\ \A n \in Nat : n <= day => n \in Day
  BY LastDay DEF Day
<1>3. day \div D \in Nat
  BY <1>2, Quotients
<1>4. day = D * (day \div D) + (day % D) /\ day % D \in 0..D - 1
  <2>1. PICK n \in Nat : n = day
    BY <1>2
  <2> QED BY <2>1
<1>5. \A q \in Nat, r \in 0..D - 1 : day = D * q + r => q * D \in Nat /\ q * D <= day
  BY <1>2
<1>6. (day \div D) * D \in Nat /\ (day \div D) * D <= day
  BY <1>3, <1>4, <1>5
<1> QED BY <1>1, <1>2, <1>6 DEF Period

LEMMA NewestFit ==
  ASSUME NEW s \in Seq(Event)
  PROVE  Len(KeepNewest(s)) <= Keep
<1>1. Keep \in Nat /\ Len(s) \in Nat
  BY OrdersAssumption, LenProperties
<1>2. CASE Len(s) > Keep
  BY <1>1, <1>2, SubSeqProperties DEF KeepNewest
<1>3. CASE Len(s) <= Keep
  BY <1>1, <1>3, SubSeqProperties DEF KeepNewest
<1> QED BY <1>1, <1>2, <1>3

\* What TypeOK says of the receipts and the bonus besides.
Dated ==
    /\ bonus.day \in Day
    /\ claims \in [Tx -> (Order \X Day) \union {None}]
    /\ Len(kept) <= Keep

\* Every variable keeps its type: what the store dates is a day of the board, no
\* progress of the bonus passes its target, and the event receipts stay within
\* their window, however calls overlap.
THEOREM TypeCorrect == Spec => []TypeOK
<1>1. Init => Dated
  <2> SUFFICES ASSUME Init PROVE Dated
    OBVIOUS
  <2>1. 0 \in Day
    BY LastDay DEF Day
  <2>2. Len(<<>>) <= Keep
    BY OrdersAssumption
  <2> QED BY <2>1, <2>2 DEF Init, Dated
<1>2. ASSUME Paying, Dated, [Next]_vars PROVE Dated'
  <2> USE DEF vars, gameVars, dataVars, pastVars
  <2>0. Typed
    BY <1>2 DEF Paying
  <2>1. ASSUME UNCHANGED <<bonus, claims, kept>> PROVE Dated'
    BY <1>2, <2>1 DEF Dated
  <2>2. ASSUME NEW e \in Event, Apply(e) PROVE Dated'
    <3>1. Append(kept, e) \in Seq(Event)
      BY <2>0 DEF Typed
    <3>2. kept' = KeepNewest(Append(kept, e))
      BY <2>2 DEF Apply
    <3>3. Len(kept') <= Keep
      BY <3>1, <3>2, NewestFit
    <3> QED BY <1>2, <2>2, <3>3 DEF Apply, Dated
  <2>3. ASSUME NEW c \in Caller, Reconcile(c) PROVE Dated'
    <3>1. DayOf(c) \in Day
      BY <2>0, <2>3, ACall DEF Reconcile
    <3>2. Period(DayOf(c)) * PeriodDays \in Day
      BY <3>1, FirstDay
    <3>3. bonus'.day \in Day
      BY <1>2, <2>3, <3>2 DEF Reconcile, BonusOn, Dated
    <3> QED BY <1>2, <2>3, <3>3 DEF Reconcile, Dated
  <2>4. ASSUME NEW c \in Caller, NEW o \in Order, NEW tx \in Tx, Pay(c, o, tx) PROVE Dated'
    <3>1. bonus'.day = bonus.day
      BY <2>0, <2>4 DEF Pay, BonusAfterClaim, Typed
    <3>2. board[o].day \in Day
      BY <2>0 DEF Typed, Entry
    <3>3. claims' \in [Tx -> (Order \X Day) \union {None}]
      BY <1>2, <2>4, <3>2 DEF Pay, Dated
    <3>4. kept' = kept
      BY <2>4 DEF Pay
    <3> QED BY <1>2, <3>1, <3>3, <3>4 DEF Dated
  <2>5. CASE UNCHANGED vars
    BY <2>1, <2>5
  <2>6. CASE Tick
    BY <2>1, <2>6 DEF Tick
  <2>7. ASSUME NEW e \in Event, Happen(e) PROVE Dated'
    BY <2>1, <2>7 DEF Happen
  <2>8. ASSUME NEW c \in Caller, Begin(c) \/ Look(c) \/ Leave(c) PROVE Dated'
    BY <2>1, <2>8 DEF Begin, Look, Leave
  <2>9. ASSUME NEW c \in Caller, NEW o \in Order, Activate(c, o) \/ Deactivate(c, o) PROVE Dated'
    BY <2>1, <2>9 DEF Activate, Deactivate
  <2>10. ASSUME NEW c \in Caller, NEW o \in Order, NEW tx \in Tx, Replay(c, o, tx) PROVE Dated'
    BY <2>1, <2>10 DEF Replay
  <2> QED BY <1>2, <2>2, <2>3, <2>4, <2>5, <2>6, <2>7, <2>8, <2>9, <2>10 DEF Next
<1>3. ASSUME Paying, Dated PROVE TypeOK
  <2>1. Typed
    BY <1>3 DEF Paying
  <2>2. /\ now \in 0..MaxTime /\ board \in [Order -> Entry] /\ kept \in Seq(Event) /\ Len(kept) <= Keep
        /\ stamp \in [Event -> 0..MaxTime \union {None}] /\ overlapping \in BOOLEAN
        /\ claims \in [Tx -> (Order \X Day) \union {None}]
    BY <1>3, <2>1 DEF Typed, Dated
  <2>3. bonus \in [status : {"absent", "inProgress", "finished"}, day : Day, progress : 0..BonusTarget]
    BY <1>3, <2>1 DEF Typed, Dated
  <2>4. \A c \in Caller : call[c] = Idle \/
            /\ call[c].stage \in {"reconcile", "look", "ready"}
            /\ call[c].at \in 0..MaxTime
            /\ call[c].offers \in [Order -> Entry \union {None}]
    BY <2>1 DEF Typed, Call
  <2> QED BY <2>2, <2>3, <2>4 DEF TypeOK
<1> QED BY <1>1, <1>2, <1>3, PayingHolds, PTL DEF Spec

\* However calls of dispatch() overlap, and whatever claims are sent again, an
\* activation is paid once, a transaction pays once, and a reply lists rewards
\* only to the transaction that was paid.
THEOREM PaidOnceAlways == Spec => []PaidOnce
<1>1. Paying => PaidOnce
  BY DEF Paying
<1> QED BY <1>1, PayingHolds, PTL

\* However calls overlap, an accepted order keeps its progress and its
\* activation until its player claims or abandons it.
THEOREM CarriedKeptAlways == Spec => CarriedKept
<1>1. ASSUME Paying, [Next]_vars, NEW o \in Order, Accepted(board[o])
      PROVE  \/ /\ Accepted(board'[o])
                /\ board'[o].progress >= board[o].progress
                /\ board'[o].since = board[o].since
             \/ Len(payments') > Len(payments) /\ Last(payments').order = o
             \/ \E c \in Caller : /\ call[c] # Idle /\ call'[c] = Idle
                                 /\ board' = [board EXCEPT ![o] = Deactivated(@, DayOf(c))]
  <2> USE DEF vars, gameVars, dataVars, pastVars
  <2>0. Typed /\ board[o] \in Entry /\ board[o].progress \in Nat
    BY <1>1 DEF Paying, Typed, Entry
  <2>1. CASE board' = board
    BY <1>1, <2>0, <2>1
  <2>2. ASSUME NEW e \in Event, Apply(e) PROVE Accepted(board'[o]) /\ board'[o].progress >= board[o].progress
                                               /\ board'[o].since = board[o].since
    <3>1. board'[o] = board[o] \/ (CountsFor(o, e) /\ board'[o] = Advanced(o, board[o]))
      BY <2>2 DEF Apply
    <3> QED BY <1>1, <2>0, <3>1, AdvancedFits
  <2>3. ASSUME NEW c \in Caller, Reconcile(c)
        PROVE  Accepted(board'[o]) /\ board'[o].progress >= board[o].progress /\ board'[o].since = board[o].since
    <3>1. DayOf(c) \in Day
      BY <2>0, <2>3, ACall DEF Reconcile
    <3>2. EntryReconciled(board[o], board'[o], DayOf(c))
      BY <2>0, <2>3, <3>1, ReconcileOne DEF Reconcile, Typed
    <3> QED BY <1>1, <2>0, <3>1, <3>2, StillAccepted
  <2>4. ASSUME NEW c \in Caller, NEW p \in Order, Deactivate(c, p), board' # board
        PROVE  \/ board'[o] = board[o]
               \/ \E d \in Caller : /\ call[d] # Idle /\ call'[d] = Idle
                                    /\ board' = [board EXCEPT ![o] = Deactivated(@, DayOf(d))]
    <3>1. call[c] # Idle /\ call'[c] = Idle /\ board' = [board EXCEPT ![p] = Deactivated(@, DayOf(c))]
      BY <2>0, <2>4 DEF Deactivate, Answering, Typed
    <3> QED BY <2>0, <3>1 DEF Typed
  <2>5. ASSUME NEW c \in Caller, NEW p \in Order, Activate(c, p) PROVE board'[o] = board[o]
    BY <1>1, <2>5, ActivateDoes DEF Activate
  <2>6. ASSUME NEW c \in Caller, NEW p \in Order, NEW tx \in Tx, Pay(c, p, tx)
        PROVE  board'[o] = board[o] \/ (Len(payments') > Len(payments) /\ Last(payments').order = o)
    <3>1. /\ p # o => board'[o] = board[o]
          /\ Len(payments') = Len(payments) + 1
          /\ payments'[Len(payments')] = [order |-> p, period |-> Period(board[p].day), round |-> round[p], tx |-> tx]
      BY <1>1, <2>6, PayDoes
    <3>2. Len(payments) \in Nat
      BY <2>0, LenProperties DEF Typed
    <3> QED BY <3>1, <3>2 DEF Last
  <2>7. CASE \E e \in Event : Apply(e)
    BY <2>2, <2>7
  <2>8. CASE \E c \in Caller : Reconcile(c)
    BY <2>3, <2>8
  <2>9. CASE \E c \in Caller : \E p \in Order : Activate(c, p) \/ Deactivate(c, p) \/ \E tx \in Tx : Pay(c, p, tx)
    BY <1>1, <2>0, <2>1, <2>4, <2>5, <2>6, <2>9
  <2>10. \/ board' = board
         \/ \E e \in Event : Apply(e)
         \/ \E c \in Caller : Reconcile(c)
         \/ \E c \in Caller : \E p \in Order : Activate(c, p) \/ Deactivate(c, p) \/ \E tx \in Tx : Pay(c, p, tx)
    BY <1>1 DEF Next, Tick, Happen, Begin, Look, Leave, Replay
  <2> QED BY <2>1, <2>7, <2>8, <2>9, <2>10
<1>2. ASSUME Paying, [Next]_vars
      PROVE  [\A o \in Order : Accepted(board[o]) =>
        \/ /\ Accepted(board'[o])
           /\ board'[o].progress >= board[o].progress
           /\ board'[o].since = board[o].since
        \/ Len(payments') > Len(payments) /\ Last(payments').order = o
        \/ \E c \in Caller : /\ call[c] # Idle /\ call'[c] = Idle
                            /\ board' = [board EXCEPT ![o] = Deactivated(@, DayOf(c))]]_vars
  BY <1>1, <1>2
<1> QED BY <1>2, PayingHolds, PTL DEF Spec, CarriedKept

-----------------------------------------------------------------------------
(* Calls that follow one another *)

\* Nothing but the calls and the clock has changed.
Same == UNCHANGED <<board, bonus, boardDay, payments, bonuses>>

LEMMA SameFollows ==
  ASSUME Following, Same,
         boardDay <= Today',
         \A c, d \in Caller : call'[c] # Idle /\ call'[d] # Idle => c = d,
         \A c \in Caller : call'[c] # Idle => call'[c].at <= now' /\ boardDay <= DayOf(c)',
         \A c \in Caller : Due(c)' =>
            /\ bonus.status # "absent" /\ Period(DayOf(c)') = Period(boardDay)
            /\ \A o \in Order : Accepted(board[o]) \/ board[o].status = "available" => board[o].day = DayOf(c)',
         \A c \in Caller : call'[c] # Idle /\ call'[c].stage = "ready" =>
            \A o \in Order : call'[c].offers[o] # None =>
                \/ Accepted(board[o])
                \/ DoneThisPeriod(board[o], DayOf(c)')
                \/ board[o].status = "available" /\ call'[c].offers[o] = board[o]
  PROVE  Following'
<1>1. InTurn'
  BY DEF Following, InTurn, Same
<1>2. Renewed'
  BY DEF Following, Renewed, Same
<1>3. SeenIsThere'
  BY DEF Following, SeenIsThere, Same
<1>4. PlacesSuffice'
  BY DEF Following, PlacesSuffice, Same, Places, Occupied, Offered
<1>5. PaidBefore'
  BY DEF Following, PaidBefore, Same
<1>6. BonusBefore'
  BY DEF Following, BonusBefore, Same, InPeriod
<1> QED BY <1>1, <1>2, <1>3, <1>4, <1>5, <1>6 DEF Following

LEMMA EndFollows ==
  ASSUME Following, Same, UNCHANGED now, Typed, NEW c \in Caller, call' = [call EXCEPT ![c] = Idle]
  PROVE  Following'
<1>1. \A d \in Caller : call'[d] = Idle \/ call'[d] = call[d]
  BY DEF Typed
<1> QED BY <1>1, SameFollows DEF Following, InTurn, Renewed, SeenIsThere, Due, DayOf, Today

LEMMA InitFollowing == ASSUME Init, ~overlapping PROVE Following
<1>1. \A o \in Order : board[o] = Absent /\ board[o].status = "absent" /\ board[o].day = 0
  BY DEF Init, Absent
<1>2. payments = <<>> /\ bonuses = <<>> /\ DOMAIN payments = {} /\ DOMAIN bonuses = {}
  BY DEF Init
<1>3. \A c \in Caller : call[c] = Idle
  BY DEF Init
<1>4. boardDay = Today /\ Today \in Nat
  BY InitTyped, ADay DEF Init
<1>5. InTurn
  BY <1>1, <1>3, <1>4 DEF InTurn
<1>6. Renewed
  BY <1>1, <1>2, <1>3 DEF Renewed, Due, Init
<1>7. SeenIsThere
  BY <1>3 DEF SeenIsThere
<1>8. PlacesSuffice
  <2>1. Places = {}
    BY <1>1 DEF Places, Occupied, Offered, Accepted, DoneThisPeriod
  <2> QED BY <2>1, FS_EmptySet, OrdersAssumption DEF PlacesSuffice
<1>9. PaidBefore
  BY <1>2 DEF PaidBefore
<1>10. BonusBefore
  BY <1>2 DEF BonusBefore, Init
<1> QED BY <1>5, <1>6, <1>7, <1>8, <1>9, <1>10 DEF Following

\* A board that needs no reconciling has today's date where it matters.
LEMMA RenewedEntry ==
  ASSUME NEW e \in Entry, NEW r \in Entry, NEW day \in Day, EntryReconciled(e, r, day),
         Accepted(r) \/ r.status = "available"
  PROVE  r.day = day /\ (r.status = "available" => r.progress = 0 \/ (e.status = "available" /\ r.progress = e.progress))
<1>1. /\ [e EXCEPT !.day = day].status = e.status /\ [e EXCEPT !.day = day].day = day
      /\ [e EXCEPT !.day = day].progress = e.progress
      /\ [e EXCEPT !.status = "expired"].status = "expired"
  BY EntryFields
<1>2. Offer(day).status = "available" /\ Offer(day).day = day /\ Offer(day).progress = 0
  BY DEF Offer
<1> QED BY <1>1, <1>2 DEF EntryReconciled, Accepted

LEMMA BonusDay ==
  ASSUME Paying, NEW day \in Nat
  PROVE  /\ BonusOn(day).status \in {"inProgress", "finished"} /\ BonusOn(day).day = Period(day) * PeriodDays
         /\ \/ BonusOn(day) = bonus /\ bonus.status # "absent" /\ bonus.day = Period(day) * PeriodDays
            \/ /\ bonus.status = "absent" \/ bonus.day # Period(day) * PeriodDays
               /\ BonusOn(day).status = "inProgress" /\ BonusOn(day).progress = 0
         /\ Period(day) \in Nat /\ Period(Period(day) * PeriodDays) = Period(day)
<1>1. Period(day) \in Nat
  BY PeriodsInOrder
<1>2. Period(Period(day) * PeriodDays) = Period(day)
  BY <1>1, PeriodBegins
<1> QED BY <1>1, <1>2 DEF BonusOn, Paying, Typed

LEMMA BeginFollows ==
  ASSUME Paying, Following, ~overlapping, NEW c \in Caller, Begin(c)
  PROVE  Following'
<1>0. /\ Typed /\ Same /\ UNCHANGED now /\ Today \in Day /\ Today \in Nat /\ boardDay \in Nat
      /\ now \in 0..MaxTime /\ MaxTime \in Nat
  BY ADay, DayIsNat, OrdersAssumption DEF Paying, Begin, gameVars, dataVars, pastVars, Same, Typed
<1>1. \A d \in Caller : call[d] = Idle
  BY DEF Begin
<1>2. \A d \in Caller : d # c => call'[d] = Idle
  BY <1>0, <1>1 DEF Begin, Typed
<1>3. call'[c] = IF UpToDate(Today)
            THEN [stage |-> "ready", at |-> now, offers |-> Seen(board, Today)]
            ELSE [stage |-> "reconcile", at |-> now, offers |-> Blank]
  BY <1>0 DEF Begin, Typed
<1>4. call'[c].at = now /\ DayOf(c)' = Today
  BY <1>3 DEF DayOf, Today
<1>5. Due(c)' => UpToDate(Today)
  BY <1>3 DEF Due
<1>6. ASSUME UpToDate(Today)
      PROVE  /\ bonus.status # "absent" /\ Period(Today) = Period(boardDay)
             /\ \A o \in Order : Accepted(board[o]) \/ board[o].status = "available" => board[o].day = Today
  <2>1. bonus.status # "absent" /\ bonus.day = Period(Today) * PeriodDays
    BY <1>0, <1>6, BonusDay DEF UpToDate
  <2>2. bonus.day = Period(boardDay) * PeriodDays
    BY <2>1 DEF Following, Renewed
  <2>3. Period(Today) = Period(boardDay)
    BY <1>0, <2>1, <2>2, BonusDay
  <2>4. \A o \in Order : EntryReconciled(board[o], board[o], Today) /\ board[o] \in Entry
    BY <1>0, <1>6, ReconcileOne DEF UpToDate, Typed
  <2> QED BY <1>0, <2>1, <2>3, <2>4, RenewedEntry
<1>7. call'[c].stage = "ready" => call'[c].offers = Seen(board, Today)
  BY <1>3
<1>8. \A o \in Order : Seen(board, Today)[o] # None =>
         \/ Accepted(board[o])
         \/ DoneThisPeriod(board[o], Today)
         \/ board[o].status = "available" /\ Seen(board, Today)[o] = board[o]
  BY DEF Seen
<1>9. boardDay <= Today
  BY DEF Following, InTurn
<1>10. Today' = Today
  BY <1>0 DEF Today
<1> QED BY <1>0, <1>2, <1>4, <1>5, <1>6, <1>7, <1>8, <1>9, <1>10, SameFollows DEF Due

LEMMA LookFollows ==
  ASSUME Paying, Following, NEW c \in Caller, Look(c)
  PROVE  Following'
<1>0. Typed /\ Same /\ UNCHANGED now /\ Today' = Today
  BY DEF Paying, Look, gameVars, dataVars, pastVars, Same, Today
<1>1. call[c] \in Call /\ call[c] # Idle /\ call[c].stage = "look"
  BY <1>0, ACall DEF Look
<1>2. \A d \in Caller : d # c => call'[d] = call[d]
  BY <1>0 DEF Look, Typed
<1>3. call'[c].at = call[c].at /\ call'[c].offers = Seen(board, DayOf(c))
  BY <1>0, <1>1 DEF Look, Typed, Call
<1>4. DayOf(c)' = DayOf(c) /\ Due(c)
  BY <1>1, <1>3 DEF DayOf, Due
<1>5. \A o \in Order : Seen(board, DayOf(c))[o] # None =>
         \/ Accepted(board[o])
         \/ DoneThisPeriod(board[o], DayOf(c))
         \/ board[o].status = "available" /\ Seen(board, DayOf(c))[o] = board[o]
  BY DEF Seen
<1>6. \A d \in Caller : d # c => call'[d] = Idle
  BY <1>1, <1>2 DEF Following, InTurn
<1> QED BY <1>0, <1>1, <1>3, <1>4, <1>5, <1>6, SameFollows DEF Following, InTurn, Renewed, Due

LEMMA TickFollows == ASSUME Paying, Following, Tick PROVE Following'
<1>0. Typed /\ Same /\ UNCHANGED call /\ now' = now + 1
  BY DEF Paying, Tick, dataVars, pastVars, Same
<1>1. Today <= Today' /\ Today \in Nat /\ Today' \in Nat /\ boardDay \in Nat
  <2>1. PICK p, q \in 0..MaxTime : p = now /\ q = now' /\ p <= q
    <3>1. PICK t, m : t = now /\ m = MaxTime /\ m \in Nat /\ t \in 0..m /\ t < m
      BY <1>0, OrdersAssumption DEF Tick, Typed
    <3>2. t + 1 \in 0..m /\ t <= t + 1
      BY <3>1
    <3> QED BY <1>0, <3>1, <3>2
  <2>2. Today = p \div DayLength /\ Today' = q \div DayLength
    BY <2>1 DEF Today
  <2> QED BY <1>0, <2>1, <2>2, DaysInOrder, DayIsNat DEF Typed
<1>2. \A c \in Caller : DayOf(c)' = DayOf(c) /\ Due(c)' = Due(c)
  BY <1>0 DEF DayOf, Due
<1>3. boardDay <= Today'
  BY <1>1 DEF Following, InTurn
<1>4. ASSUME NEW c \in Caller, call[c] # Idle PROVE call[c].at <= now'
  <2>1. call[c].at \in Nat /\ now \in Nat /\ call[c].at <= now
    <3>1. call[c] \in Call
      BY <1>0, <1>4, ACall
    <3>2. call[c].at \in 0..MaxTime /\ now \in 0..MaxTime
      BY <1>0, <3>1 DEF Call, Typed
    <3>3. call[c].at <= now
      BY <1>4 DEF Following, InTurn
    <3> QED BY <3>2, <3>3
  <2> QED BY <1>0, <2>1
<1> QED BY <1>0, <1>2, <1>3, <1>4, SameFollows DEF Following, InTurn, Renewed, SeenIsThere

LEMMA PlacesFit ==
  ASSUME Typed
  PROVE  IsFiniteSet(Places) /\ Cardinality(Places) \in Nat /\ Places \subseteq Order
BY OrdersAssumption, FS_Subset, FS_CardinalityType DEF Places, Occupied, Offered

\* A step that changes one entry, at the end of the only call.
LEMMA AnswerFollows ==
  ASSUME Paying, Following, UNCHANGED <<now, boardDay, overlapping>>, NEW c \in Caller, Due(c),
         call' = [call EXCEPT ![c] = Idle], NEW o \in Order,
         \A p \in Order : p # o => board'[p] = board[p],
         board'[o].day <= boardDay, board'[o].status = "available" => board'[o].progress = 0,
         PlacesSuffice', PaidBefore', BonusBefore', bonus'.day = bonus.day, bonus'.status # "absent"
  PROVE  Following'
<1>0. \A d \in Caller : call'[d] = Idle
  BY DEF Paying, Typed, Following, InTurn, Due
<1>1. InTurn'
  BY <1>0 DEF Following, InTurn, Today
<1>2. Renewed'
  BY <1>0 DEF Following, Renewed, Due
<1>3. SeenIsThere'
  BY <1>0 DEF SeenIsThere
<1> QED BY <1>1, <1>2, <1>3 DEF Following

LEMMA AnswersWhenDue ==
  ASSUME Paying, Following, NEW c \in Caller, Answering(c)
  PROVE  /\ Due(c) /\ call[c].stage = "ready" /\ call' = [call EXCEPT ![c] = Idle]
         /\ DayOf(c) \in Nat /\ DayOf(c) \in Day /\ boardDay \in Nat
         /\ bonus.status # "absent" /\ bonus.day = Period(boardDay) * PeriodDays
         /\ Period(DayOf(c)) = Period(boardDay)
BY ACall, DayIsNat DEF Answering, Due, Following, Renewed, Paying, Typed

LEMMA BonusUnmoved ==
  ASSUME BonusBefore, UNCHANGED <<bonus, bonuses, payments, boardDay>> PROVE BonusBefore'
BY DEF BonusBefore, InPeriod

\* An order's entry changes, and is not paid by that.
LEMMA EntryMoves ==
  ASSUME Paying, Following, UNCHANGED <<payments, boardDay>>, NEW o \in Order,
         \A p \in Order : p # o => board'[p] = board[p],
         board'[o].day = board[o].day, board[o].status # "finished", board'[o].status # "finished",
         Accepted(board[o]) \/ board[o].status = "available"
  PROVE  PlacesSuffice' /\ PaidBefore'
<1>1. Places' \subseteq Places
  BY DEF Places, Occupied, Offered, DoneThisPeriod, Current
<1>2. Cardinality(Places') <= Cardinality(Places) /\ Cardinality(Places') \in Nat
  <2>1. PICK P1, P2 : P1 = Places /\ P2 = Places' /\ P2 \subseteq P1 /\ IsFiniteSet(P1)
    BY <1>1, PlacesFit DEF Paying
  <2> QED BY <2>1, FS_Subset, FS_CardinalityType
<1>3. PlacesSuffice'
  BY <1>2, PlacesFit, OrdersAssumption DEF PlacesSuffice, Following, Paying
<1>4. PaidBefore'
  BY PaymentsTyped DEF Paying, PaidBefore, Following
<1> QED BY <1>3, <1>4

LEMMA ActivateFollows ==
  ASSUME Paying, Following, ~overlapping, NEW c \in Caller, NEW o \in Order, Activate(c, o), UNCHANGED overlapping
  PROVE  Following'
<1>0. Typed
  BY DEF Paying
<1>1. /\ Due(c) /\ call[c].stage = "ready" /\ call[c] # Idle /\ call' = [call EXCEPT ![c] = Idle]
      /\ bonus.status # "absent" /\ boardDay \in Nat
  BY AnswersWhenDue DEF Activate, Due
<1>2. UNCHANGED <<now, boardDay, bonus, bonuses, payments>>
  BY DEF Activate, gameVars
<1>3. board[o].status = "available" /\ call[c].offers[o] = board[o]
  <2>1. call[c].offers[o] # None /\ ~Accepted(board[o])
    BY DEF Activate
  <2>2. ~DoneThisPeriod(board[o], DayOf(c))
    BY DEF Activate, DoneThisPeriod
  <2> QED BY <1>1, <2>1, <2>2 DEF Following, SeenIsThere
<1>4. /\ board'[o].status = "inProgress" /\ board'[o].day = board[o].day
      /\ \A p \in Order : p # o => board'[p] = board[p]
  BY <1>3, ActivateDoes
<1>5. PlacesSuffice' /\ PaidBefore'
  BY <1>2, <1>3, <1>4, EntryMoves
<1>6. BonusBefore'
  BY <1>2, BonusUnmoved DEF Following
<1>7. board'[o].day <= boardDay
  BY <1>4 DEF Following, InTurn
<1> QED BY <1>1, <1>2, <1>4, <1>5, <1>6, <1>7, AnswerFollows

LEMMA DeactivateFollows ==
  ASSUME Paying, Following, ~overlapping, NEW c \in Caller, NEW o \in Order, Deactivate(c, o), UNCHANGED overlapping
  PROVE  Following'
<1>0. Typed
  BY DEF Paying
<1>1. /\ Due(c) /\ call[c].stage = "ready" /\ call[c] # Idle /\ call' = [call EXCEPT ![c] = Idle]
      /\ bonus.status # "absent" /\ boardDay \in Nat
  BY AnswersWhenDue DEF Deactivate, Due
<1>2. UNCHANGED <<now, boardDay, bonus, bonuses, payments>>
  BY DEF Deactivate, gameVars, pastVars
<1>3. Accepted(board[o]) /\ board[o].day = DayOf(c)
  BY <1>1 DEF Deactivate, Following, Renewed
<1>4. /\ board'[o] = Offer(DayOf(c)) /\ \A p \in Order : p # o => board'[p] = board[p]
  BY <1>0 DEF Deactivate, Deactivated, Typed
<1>5. board'[o].status = "available" /\ board'[o].day = board[o].day /\ board'[o].progress = 0
  BY <1>3, <1>4 DEF Offer
<1>6. PlacesSuffice' /\ PaidBefore'
  BY <1>2, <1>3, <1>4, <1>5, EntryMoves DEF Accepted
<1>7. BonusBefore'
  BY <1>2, BonusUnmoved DEF Following
<1>8. board'[o].day <= boardDay
  BY <1>5 DEF Following, InTurn
<1> QED BY <1>1, <1>2, <1>4, <1>5, <1>6, <1>7, <1>8, AnswerFollows

LEMMA ApplyFollows ==
  ASSUME Paying, Following, ~overlapping, NEW e \in Event, Apply(e), UNCHANGED overlapping
  PROVE  Following'
<1>0. Typed /\ UNCHANGED <<now, boardDay, bonus, bonuses, payments, call>>
  BY DEF Paying, Apply, gameVars
<1>1. ASSUME NEW o \in Order
      PROVE  /\ board'[o].day = board[o].day
             /\ \/ board'[o] = board[o]
                \/ Accepted(board[o]) /\ Accepted(board'[o])
  <2>1. board'[o] = board[o] \/ (CountsFor(o, e) /\ board'[o] = Advanced(o, board[o]))
    BY DEF Apply
  <2> QED BY <2>1, AdvancedFits
<1>2. InTurn'
  BY <1>0, <1>1 DEF Following, InTurn, Today, DayOf
<1>3. Renewed'
  BY <1>0, <1>1 DEF Following, Renewed, Due, DayOf, Accepted
<1>4. SeenIsThere'
  BY <1>0, <1>1 DEF Following, SeenIsThere, DayOf
<1>5. PlacesSuffice'
  <2>1. Places' = Places
    BY <1>0, <1>1 DEF Places, Occupied, Offered, DoneThisPeriod, Current, Accepted
  <2> QED BY <2>1 DEF PlacesSuffice, Following
<1>6. PaidBefore'
  BY <1>0, <1>1, PaymentsTyped DEF PaidBefore, Following, Accepted
<1>7. BonusBefore'
  BY <1>0, BonusUnmoved DEF Following
<1> QED BY <1>2, <1>3, <1>4, <1>5, <1>6, <1>7 DEF Following

LEMMA BonusPaid ==
  ASSUME Paying, NEW t \in Nat, t = BonusTarget, bonus.status \in {"inProgress", "finished"}
  PROVE  \/ /\ bonus.status = "inProgress" /\ bonus.progress + 1 >= t
            /\ BonusAfterClaim.status = "finished" /\ BonusAfterClaim.progress = t
            /\ BonusAfterClaim.day = bonus.day
         \/ /\ bonus.status = "inProgress" /\ bonus.progress + 1 < t
            /\ BonusAfterClaim.status = "inProgress" /\ BonusAfterClaim.progress = bonus.progress + 1
            /\ BonusAfterClaim.day = bonus.day
         \/ bonus.status = "finished" /\ BonusAfterClaim = bonus
<1>1. PICK x : x = bonus /\ x \in [status : {"absent", "inProgress", "finished"}, day : Nat, progress : 0..t]
  BY DEF Paying, Typed
<1>3. /\ [x EXCEPT !.progress = t, !.status = "finished"].status = "finished"
      /\ [x EXCEPT !.progress = t, !.status = "finished"].progress = t
      /\ [x EXCEPT !.progress = t, !.status = "finished"].day = x.day
  BY <1>1
<1>4. /\ [x EXCEPT !.progress = x.progress + 1].status = x.status
      /\ [x EXCEPT !.progress = x.progress + 1].progress = x.progress + 1
      /\ [x EXCEPT !.progress = x.progress + 1].day = x.day
  BY <1>1
<1>5. x.progress + 1 >= t \/ x.progress + 1 < t
  BY <1>1
<1> QED BY <1>1, <1>3, <1>4, <1>5 DEF BonusAfterClaim, BonusOpen

LEMMA PayFollows ==
  ASSUME Paying, Following, ~overlapping, NEW c \in Caller, NEW o \in Order, NEW tx \in Tx, Pay(c, o, tx),
         UNCHANGED overlapping
  PROVE  Following'
<1>0. Typed
  BY DEF Paying
<1>1. /\ Due(c) /\ call[c].stage = "ready" /\ call[c] # Idle /\ call' = [call EXCEPT ![c] = Idle]
      /\ bonus.status # "absent" /\ boardDay \in Nat /\ bonus.day = Period(boardDay) * PeriodDays
      /\ Period(DayOf(c)) = Period(boardDay)
  BY AnswersWhenDue DEF Pay, Due
<1>2. UNCHANGED <<now, boardDay>>
  BY DEF Pay, gameVars
<1>3. PICK d, n, pd, x : /\ d = board[o].day /\ n = Len(payments') /\ pd = Period(boardDay)
                         /\ x = [order |-> o, period |-> Period(board[o].day), round |-> round[o], tx |-> tx]
  OBVIOUS
<1>4. /\ Accepted(board[o]) /\ d \in Nat
      /\ board'[o].status = "finished" /\ board'[o].day = d
      /\ \A p \in Order : p # o => board'[p] = board[p]
      /\ \A i \in DOMAIN payments : payments'[i] = payments[i]
      /\ DOMAIN payments' = DOMAIN payments \union {n} /\ payments'[n] = x
      /\ n = Len(payments) + 1
  BY <1>3, PayDoes
<1>5. d = DayOf(c) /\ d <= boardDay /\ Period(d) = pd /\ pd \in Nat
  <2>1. d = DayOf(c) /\ d <= boardDay
    BY <1>1, <1>3, <1>4 DEF Following, Renewed, InTurn
  <2> QED BY <1>1, <1>3, <1>4, <2>1, PeriodsInOrder
<1>6. x.order = o /\ x.period = pd
  BY <1>3, <1>5
<1>7. n \notin DOMAIN payments
  BY <1>0, <1>4, PaymentsTyped
<1>8. board[o].status = "claimable"
  BY DEF Pay
<1>9. PlacesSuffice'
  <2>1. Places' \subseteq Places
    BY <1>2, <1>3, <1>4, <1>5, <1>8 DEF Places, Occupied, Offered, DoneThisPeriod, Current
  <2>2. Cardinality(Places') <= Cardinality(Places) /\ Cardinality(Places') \in Nat
    <3>1. PICK P1, P2 : P1 = Places /\ P2 = Places' /\ P2 \subseteq P1 /\ IsFiniteSet(P1)
      BY <2>1, PlacesFit DEF Paying
    <3> QED BY <3>1, FS_Subset, FS_CardinalityType
  <2> QED BY <2>2, PlacesFit, OrdersAssumption DEF PlacesSuffice, Following, Paying
<1>10. PaidBefore'
  <2>1. ASSUME NEW i \in DOMAIN payments
        PROVE  /\ payments[i].order = o => payments[i].period <= pd /\ payments[i].period # pd
               /\ payments[i].order \in Order /\ payments[i].period \in Nat
               /\ payments[i].period <= Period(board[payments[i].order].day)
               /\ board[payments[i].order].status # "finished" =>
                    payments[i].period # Period(board[payments[i].order].day)
    BY <1>0, <1>3, <1>5, <1>8, PaymentsTyped DEF PaidBefore, Following
  <2>2. \A i \in DOMAIN payments' :
         /\ payments'[i].period <= Period(board'[payments'[i].order].day)
         /\ board'[payments'[i].order].status # "finished" =>
               payments'[i].period # Period(board'[payments'[i].order].day)
    <3>1. ASSUME NEW i \in DOMAIN payments
          PROVE  /\ payments'[i].period <= Period(board'[payments'[i].order].day)
                 /\ board'[payments'[i].order].status # "finished" =>
                      payments'[i].period # Period(board'[payments'[i].order].day)
      BY <1>3, <1>4, <1>5, <2>1
    <3>2. /\ payments'[n].period <= Period(board'[payments'[n].order].day)
          /\ board'[payments'[n].order].status = "finished"
      BY <1>4, <1>5, <1>6
    <3> QED BY <1>4, <3>1, <3>2
  <2>3. \A i, k \in DOMAIN payments' : i # k =>
          <<payments'[i].order, payments'[i].period>> # <<payments'[k].order, payments'[k].period>>
    BY <1>4, <1>6, <2>1 DEF PaidBefore, Following
  <2> QED BY <2>2, <2>3 DEF PaidBefore
<1>11. PICK t \in Nat : t = BonusTarget /\ t >= 1
  BY OrdersAssumption
<1>12. bonus.progress \in 0..t /\ bonus.status \in {"inProgress", "finished"} /\ bonuses \in Seq(Nat)
  <2>1. bonus \in [status : {"absent", "inProgress", "finished"}, day : Nat, progress : 0..t]
    BY <1>0, <1>11 DEF Typed
  <2> QED BY <1>0, <1>1, <2>1 DEF Typed
<1>13. Period(bonus.day) = pd
  BY <1>1, <1>3, <1>5, PeriodBegins
<1>14. \/ /\ bonus.status = "inProgress" /\ bonus.progress + 1 >= t
          /\ bonus'.status = "finished" /\ bonus'.progress = t /\ bonus'.day = bonus.day
          /\ bonuses' = Append(bonuses, pd)
       \/ /\ bonus.status = "inProgress" /\ bonus.progress + 1 < t
          /\ bonus'.status = "inProgress" /\ bonus'.progress = bonus.progress + 1 /\ bonus'.day = bonus.day
          /\ bonuses' = bonuses
       \/ bonus.status = "finished" /\ bonus' = bonus /\ bonuses' = bonuses
  BY <1>0, <1>11, <1>12, <1>13, BonusPaid DEF Pay, BonusOpen
<1>15. PICK S, m : /\ S = InPeriod /\ m = Cardinality(S) /\ IsFiniteSet(S) /\ m \in Nat
                   /\ InPeriod' = S \union {n} /\ Cardinality(InPeriod') = m + 1
  <2>1. PICK S : S = InPeriod /\ S \subseteq 1..Len(payments)
    BY <1>0, PaymentsTyped DEF InPeriod
  <2>2. PICK k \in Nat : k = Len(payments)
    BY <1>0, PaymentsTyped
  <2>3. IsFiniteSet(S) /\ Cardinality(S) \in Nat
    <3>1. PICK I : I = 1..k /\ IsFiniteSet(I)
      BY FS_Interval
    <3> QED BY <2>1, <2>2, <3>1, FS_Subset, FS_CardinalityType
  <2>4. InPeriod' = S \union {n} /\ n \notin S
    BY <1>2, <1>3, <1>4, <1>6, <1>7, <2>1 DEF InPeriod
  <2> QED BY <2>1, <2>3, <2>4, FS_AddElement
<1>16. /\ bonus.progress = IF m < t THEN m ELSE t
       /\ bonus.status = "finished" <=> bonus.progress = t
       /\ bonus.status = "finished" => \E i \in DOMAIN bonuses : bonuses[i] = pd
       /\ \A i \in DOMAIN bonuses : bonuses[i] <= pd /\ (bonus.status = "inProgress" => bonuses[i] # pd)
       /\ \A i, k \in DOMAIN bonuses : i # k => bonuses[i] # bonuses[k]
  BY <1>1, <1>3, <1>11, <1>15 DEF BonusBefore, Following
<1>17. BonusBefore'
  <2>1. /\ bonus'.progress = IF m + 1 < t THEN m + 1 ELSE t
        /\ bonus'.status = "finished" <=> bonus'.progress = t
        /\ bonus'.day = bonus.day
    BY <1>11, <1>12, <1>14, <1>15, <1>16
  <2>2. /\ bonus'.status = "finished" => \E i \in DOMAIN bonuses' : bonuses'[i] = pd
        /\ \A i \in DOMAIN bonuses' : bonuses'[i] <= pd /\ (bonus'.status = "inProgress" => bonuses'[i] # pd)
        /\ \A i, k \in DOMAIN bonuses' : i # k => bonuses'[i] # bonuses'[k]
    <3>1. CASE bonuses' = bonuses
      BY <1>14, <1>16, <3>1
    <3>2. CASE bonuses' = Append(bonuses, pd) /\ bonus.status = "inProgress" /\ bonus'.status = "finished"
      <4>1. /\ bonuses' \in Seq(Nat) /\ Len(bonuses') = Len(bonuses) + 1 /\ bonuses'[Len(bonuses) + 1] = pd
            /\ \A i \in 1..Len(bonuses) : bonuses'[i] = bonuses[i]
        BY <1>5, <1>12, <3>2, AppendProperties
      <4>2. DOMAIN bonuses = 1..Len(bonuses) /\ DOMAIN bonuses' = 1..Len(bonuses') /\ Len(bonuses) \in Nat
        BY <1>12, <4>1, LenProperties
      <4> QED BY <1>5, <1>16, <3>2, <4>1, <4>2
    <3> QED BY <1>14, <3>1, <3>2
  <2> QED BY <1>2, <1>3, <1>11, <1>15, <2>1, <2>2 DEF BonusBefore
<1>18. bonus'.day = bonus.day /\ bonus'.status # "absent"
  BY <1>12, <1>14
<1>19. board'[o].day <= boardDay /\ board'[o].status # "available"
  BY <1>4, <1>5
<1> QED BY <1>1, <1>2, <1>4, <1>9, <1>10, <1>17, <1>18, <1>19, AnswerFollows

-----------------------------------------------------------------------------
(* Renewing the board *)

\* The passes that keep and fill places take no more than there are.
LEMMA PlacesAfter ==
  ASSUME NEW c \in [Order -> Entry], NEW day \in Day,
         Cardinality(Occupied(c, day)) <= Limit,
         NEW r, r = Fill(Preserve(c, day), day)
  PROVE  Cardinality(Occupied(r, day) \union Offered(r)) <= Limit
<1>1. PICK lim \in Nat : lim = Limit
  BY OrdersAssumption
<1>2. PICK O : O = Occupied(c, day) /\ IsFiniteSet(O) /\ Cardinality(O) \in Nat /\ Cardinality(O) <= lim
  <2>1. Occupied(c, day) \subseteq Order
    BY DEF Occupied
  <2> QED BY <1>1, <2>1, OrdersAssumption, FS_Subset, FS_CardinalityType
<1>3. PICK d : d = Preserve(c, day) /\ d \in [Order -> Entry] /\ \A o \in Order : EntryPreserved(c[o], d[o], day)
  BY PreserveOne
<1>4. PICK room1 \in Nat : room1 = lim - Cardinality(O)
  BY <1>1, <1>2
<1>5. PICK S : /\ S = FirstOf(Offered(c), room1, PoolPlace) /\ S \subseteq Offered(c)
               /\ IsFiniteSet(S) /\ Cardinality(S) \in Nat /\ Cardinality(S) <= room1
  <2>1. PICK pl : pl = PoolPlace
    OBVIOUS
  <2>2. pl \in [Order -> Int] /\ \A p, q \in Order : pl[p] = pl[q] => p = q
    <3>1. PICK n \in Nat : n = Len(Pool)
      BY OrdersAssumption, LenProperties
    <3>2. pl \in [Order -> 1..n]
      BY <2>1, <3>1, Places1
    <3>3. pl \in [Order -> Int]
      BY <3>2
    <3> QED BY <2>1, <3>3, Places1
  <2>3. PICK T : T = Offered(c) /\ T \in SUBSET Order
    BY DEF Offered
  <2>4. /\ FirstOf(T, room1, pl) \subseteq T /\ IsFiniteSet(FirstOf(T, room1, pl))
        /\ Cardinality(FirstOf(T, room1, pl)) <= room1 /\ Cardinality(FirstOf(T, room1, pl)) \in Nat
    BY <2>2, <2>3, FirstOfFits
  <2> QED BY <2>1, <2>3, <2>4
<1>6. d = [p \in Order |-> IF p \in S THEN [c[p] EXCEPT !.day = day]
                           ELSE IF p \in Offered(c) THEN [c[p] EXCEPT !.status = "expired"]
                           ELSE c[p]]
  BY <1>1, <1>2, <1>3, <1>4, <1>5 DEF Preserve
<1>7. Occupied(d, day) \subseteq O /\ Offered(d) \subseteq S
  <2>1. ASSUME NEW o \in Order
        PROVE  /\ [c[o] EXCEPT !.day = day].status = c[o].status
               /\ [c[o] EXCEPT !.status = "expired"].status = "expired"
    BY EntryFields
  <2>2. \A o \in Offered(c) : d[o].status \in {"available", "expired"}
    BY <1>5, <1>6, <2>1 DEF Offered
  <2>3. \A o \in Order : o \notin Offered(c) => d[o] = c[o]
    BY <1>5, <1>6
  <2>4. \A o \in Order : d[o].status = "available" => o \in S
    BY <1>6, <2>1 DEF Offered
  <2> QED BY <1>2, <2>2, <2>3, <2>4 DEF Occupied, Offered, Accepted, DoneThisPeriod
<1>8. IsFiniteSet(O \union S) /\ Cardinality(O \union S) <= Cardinality(O) + Cardinality(S)
      /\ Cardinality(O \union S) \in Nat
  <2>1. /\ IsFiniteSet(O \union S) /\ Cardinality(O \union S) = Cardinality(O) + Cardinality(S) - Cardinality(O \intersect S)
    BY <1>2, <1>5, FS_Union
  <2>2. Cardinality(O \intersect S) \in Nat
    BY <1>2, FS_Subset, FS_CardinalityType
  <2> QED BY <1>2, <1>5, <2>1, <2>2, FS_CardinalityType
<1>9. PICK U : U = Occupied(d, day) \union Offered(d) /\ IsFiniteSet(U) /\ Cardinality(U) \in Nat
               /\ Cardinality(U) <= lim
  <2>1. PICK V, W : V = Occupied(d, day) \union Offered(d) /\ W = O \union S /\ V \subseteq W
    <3>1. PICK V, W : V = Occupied(d, day) \union Offered(d) /\ W = O \union S
      OBVIOUS
    <3>2. V \subseteq W
      BY <1>7, <3>1, Zenon
    <3> QED BY <3>1, <3>2
  <2>2. IsFiniteSet(V) /\ Cardinality(V) <= Cardinality(W) /\ Cardinality(V) \in Nat
    BY <1>8, <2>1, FS_Subset, FS_CardinalityType
  <2> QED BY <1>2, <1>4, <1>5, <1>8, <2>1, <2>2
<1>10. PICK room2 \in Nat : room2 = lim - Cardinality(U)
  BY <1>1, <1>9
<1>11. PICK G : /\ G = FirstOf({o \in Order : Refillable(d[o], day)}, room2, RotationPlace(day))
                /\ IsFiniteSet(G) /\ Cardinality(G) \in Nat /\ Cardinality(G) <= room2
  <2>1. PICK pl : pl = RotationPlace(day)
    OBVIOUS
  <2>2. pl \in [Order -> Int] /\ \A p, q \in Order : pl[p] = pl[q] => p = q
    BY <2>1, DayIsNat, Places2
  <2>3. PICK T : T = {o \in Order : Refillable(d[o], day)} /\ T \in SUBSET Order
    OBVIOUS
  <2>4. /\ IsFiniteSet(FirstOf(T, room2, pl))
        /\ Cardinality(FirstOf(T, room2, pl)) <= room2 /\ Cardinality(FirstOf(T, room2, pl)) \in Nat
    BY <2>2, <2>3, FirstOfFits
  <2> QED BY <2>1, <2>3, <2>4
<1>12. r = [o \in Order |-> IF o \in G THEN Offer(day) ELSE d[o]]
  BY <1>1, <1>3, <1>9, <1>10, <1>11 DEF Fill, Refilled
<1>13. PICK V, W : V = Occupied(r, day) \union Offered(r) /\ W = U \union G /\ V \subseteq W
  <2>1. \A o \in Order : o \notin G => r[o] = d[o]
    BY <1>12
  <2>2. \A o \in Order : o \notin G => (o \in Occupied(r, day) \union Offered(r) => o \in U)
    BY <1>9, <2>1 DEF Occupied, Offered
  <2>3. Occupied(r, day) \union Offered(r) \subseteq U \union G
    BY <2>2 DEF Occupied, Offered
  <2> QED BY <2>3
<1>14. IsFiniteSet(W) /\ Cardinality(W) <= lim /\ Cardinality(W) \in Nat
  <2>1. IsFiniteSet(W) /\ Cardinality(W) = Cardinality(U) + Cardinality(G) - Cardinality(U \intersect G)
    BY <1>9, <1>11, <1>13, FS_Union
  <2>2. Cardinality(U \intersect G) \in Nat
    BY <1>9, FS_Subset, FS_CardinalityType
  <2> QED BY <1>9, <1>10, <1>11, <2>1, <2>2, FS_CardinalityType
<1>15. Cardinality(V) <= Cardinality(W) /\ Cardinality(V) \in Nat
  BY <1>13, <1>14, FS_Subset, FS_CardinalityType
<1> QED BY <1>1, <1>13, <1>14, <1>15

\* What reconciling does to the days of an entry.
LEMMA ReconciledDay ==
  ASSUME NEW e \in Entry, NEW r, NEW day \in Day, NEW old \in Nat, e.day <= old, old <= day,
         EntryReconciled(e, r, day)
  PROVE  /\ r.day <= day
         /\ Period(e.day) \in Nat /\ Period(r.day) \in Nat /\ Period(e.day) <= Period(r.day)
         /\ r.status = "finished" => r = e
         /\ e.status = "finished" /\ r.status # "finished" => Period(e.day) < Period(r.day)
<1>1. /\ [e EXCEPT !.day = day].status = e.status /\ [e EXCEPT !.day = day].day = day
      /\ [e EXCEPT !.status = "expired"].status = "expired" /\ [e EXCEPT !.status = "expired"].day = e.day
  BY EntryFields
<1>2. Offer(day).status = "available" /\ Offer(day).day = day
  BY DEF Offer
<1>3. e.day \in Nat /\ day \in Nat /\ e.day <= day
  <2>1. e.day \in Nat /\ day \in Nat
    BY DayIsNat DEF Entry
  <2> QED BY <2>1
<1>4. Period(e.day) \in Nat /\ Period(day) \in Nat /\ Period(e.day) <= Period(day)
  BY <1>3, PeriodsInOrder
<1>5. e.status = "finished" /\ ~DoneThisPeriod(e, day) => Period(e.day) # Period(day)
  BY DEF DoneThisPeriod, Current
<1>6. CASE Accepted(e)
  <2>1. r = [e EXCEPT !.day = day] /\ e.status # "finished"
    BY <1>6 DEF EntryReconciled, Accepted
  <2> QED BY <1>1, <1>3, <1>4, <2>1
<1>7. CASE ~Accepted(e) /\ r = e /\ e.status # "available"
  BY <1>4, <1>3, <1>7
<1>8. CASE ~Accepted(e) /\ e.status = "available" /\ r = [e EXCEPT !.day = day]
  BY <1>1, <1>3, <1>4, <1>8
<1>9. CASE ~Accepted(e) /\ e.status = "available" /\ r = [e EXCEPT !.status = "expired"]
  BY <1>1, <1>3, <1>4, <1>9
<1>10. CASE ~Accepted(e) /\ r = Offer(day) /\ ~DoneThisPeriod(e, day)
  BY <1>2, <1>3, <1>4, <1>5, <1>10
<1> QED BY <1>6, <1>7, <1>8, <1>9, <1>10 DEF EntryReconciled

LEMMA ReconcileFollows ==
  ASSUME Paying, Following, ~overlapping, NEW c \in Caller, Reconcile(c), UNCHANGED overlapping
  PROVE  Following'
<1>0. Typed /\ UNCHANGED <<now, payments, bonuses>> /\ Typed'
  <2>1. UNCHANGED <<now, payments, bonuses>>
    BY DEF Reconcile, gameVars
  <2>2. [Next]_vars
    BY DEF Next
  <2> QED BY <2>1, <2>2, StepTyped DEF Paying
<1>1. call[c] \in Call /\ call[c] # Idle
  BY <1>0, ACall DEF Reconcile
<1>2. PICK day, old : /\ day = DayOf(c) /\ day \in Day /\ day \in Nat /\ old = boardDay /\ old \in Nat /\ old <= day
                      /\ boardDay' = day
  BY <1>0, <1>1, ACall, DayIsNat DEF Typed, Following, InTurn, Reconcile
<1>3. /\ \A d \in Caller : d # c => call'[d] = Idle
      /\ call'[c].at = call[c].at /\ call'[c].stage = "look" /\ DayOf(c)' = day
  <2>1. \A d \in Caller : d # c => call'[d] = call[d]
    BY <1>0 DEF Reconcile, Typed
  <2>2. \A d \in Caller : d # c => call[d] = Idle
    BY <1>1 DEF Following, InTurn
  <2>3. call'[c].at = call[c].at /\ call'[c].stage = "look"
    BY <1>0, <1>1 DEF Reconcile, Typed, Call
  <2> QED BY <1>2, <2>1, <2>2, <2>3 DEF DayOf
<1>4. day <= Today'
  <2>1. call[c].at \in 0..MaxTime /\ now \in 0..MaxTime /\ call[c].at <= now
    BY <1>0, <1>1 DEF Call, Typed, Following, InTurn
  <2> QED BY <1>0, <1>2, <2>1, DaysInOrder DEF DayOf, Today
<1>5. /\ board \in [Order -> Entry] /\ board' \in [Order -> Entry] /\ board' = Reconciled(board, day)
      /\ \A o \in Order : EntryReconciled(board[o], board'[o], day) /\ board[o].day <= old
  BY <1>0, <1>2, ReconcileOne DEF Reconcile, Typed, Following, InTurn
<1>6. ASSUME NEW o \in Order
      PROVE  /\ board'[o].day <= day
             /\ Period(board[o].day) \in Nat /\ Period(board'[o].day) \in Nat
             /\ Period(board[o].day) <= Period(board'[o].day)
             /\ board'[o].status = "finished" => board'[o] = board[o]
             /\ board[o].status = "finished" /\ board'[o].status # "finished" =>
                  Period(board[o].day) < Period(board'[o].day)
  <2>1. board[o] \in Entry /\ EntryReconciled(board[o], board'[o], day) /\ board[o].day <= old
    BY <1>5
  <2> QED BY <1>2, <2>1, ReconciledDay
<1>7. PICK p, q : /\ p = Period(old) /\ q = Period(day) /\ p \in Nat /\ q \in Nat /\ p <= q
                  /\ \A n \in Nat : n = Period(n * PeriodDays)
  BY <1>2, PeriodsInOrder, PeriodBegins
<1>8. bonus' = BonusOn(day) /\ bonus'.status \in {"inProgress", "finished"} /\ bonus'.day = q * PeriodDays
  BY <1>2, <1>7, BonusDay DEF Reconcile
<1>9. InTurn'
  BY <1>0, <1>1, <1>2, <1>3, <1>4, <1>6 DEF InTurn, Following
<1>10. Renewed'
  <2>1. \A o \in Order : Accepted(board'[o]) \/ board'[o].status = "available" =>
           /\ board'[o].day = day
           /\ board'[o].status = "available" => board'[o].progress = 0
    <3>1. ASSUME NEW o \in Order, Accepted(board'[o]) \/ board'[o].status = "available"
          PROVE  /\ board'[o].day = day
                 /\ board'[o].status = "available" =>
                      board'[o].progress = 0 \/ (board[o].status = "available" /\ board'[o].progress = board[o].progress)
      <4>1. board[o] \in Entry /\ board'[o] \in Entry /\ EntryReconciled(board[o], board'[o], day)
        BY <1>5
      <4> QED BY <1>2, <3>1, <4>1, RenewedEntry
    <3> QED BY <3>1 DEF Following, Renewed
  <2> QED BY <1>2, <1>3, <1>7, <1>8, <2>1 DEF Renewed, Due
<1>11. SeenIsThere'
  BY <1>3 DEF SeenIsThere
<1>12. PlacesSuffice'
  <2>1. PICK x : x = Carry(board, day) /\ x \in [Order -> Entry] /\ \A o \in Order : EntryCarried(board[o], x[o], day)
    BY <1>2, <1>5, CarryOne
  <2>2. Occupied(x, day) \subseteq Places
    <3>1. ASSUME NEW o \in Order, o \in Occupied(x, day) PROVE o \in Places
      <4>1. /\ [board[o] EXCEPT !.day = day].status = board[o].status
            /\ [board[o] EXCEPT !.status = "expired"].status = "expired"
        BY <1>5, EntryFields
      <4>2. Accepted(x[o]) \/ DoneThisPeriod(x[o], day)
        BY <3>1 DEF Occupied
      <4>3. Accepted(board[o]) \/ (x[o] = board[o] /\ DoneThisPeriod(board[o], day))
        BY <2>1, <4>1, <4>2 DEF EntryCarried, Accepted, DoneThisPeriod
      <4>4. DoneThisPeriod(board[o], day) => DoneThisPeriod(board[o], boardDay)
        <5>1. PICK n \in Nat : n = board[o].day /\ n <= old
          BY <1>5, DayIsNat DEF Entry
        <5>2. Period(n) \in Nat /\ Period(n) <= p
          BY <1>2, <1>7, <5>1, PeriodsInOrder
        <5> QED BY <1>2, <1>7, <5>1, <5>2 DEF DoneThisPeriod, Current
      <4> QED BY <4>3, <4>4 DEF Places, Occupied
    <3> QED BY <3>1 DEF Occupied
  <2>3. Cardinality(Occupied(x, day)) <= Limit
    <3>1. PICK V, W : V = Occupied(x, day) /\ W = Places /\ V \subseteq W /\ IsFiniteSet(W) /\ Cardinality(W) <= Limit
      BY <1>0, <2>2, PlacesFit DEF Following, PlacesSuffice
    <3>2. Cardinality(V) \in Nat /\ Cardinality(W) \in Nat /\ Cardinality(V) <= Cardinality(W)
      BY <3>1, FS_Subset, FS_CardinalityType
    <3> QED BY <3>1, <3>2, OrdersAssumption
  <2>4. PICK r : r = Fill(Preserve(x, day), day) /\ r = board'
    BY <1>5, <2>1 DEF Reconciled
  <2>5. Cardinality(Occupied(r, day) \union Offered(r)) <= Limit
    BY <1>2, <2>1, <2>3, <2>4, PlacesAfter
  <2> QED BY <1>2, <2>4, <2>5 DEF PlacesSuffice, Places
<1>13. ASSUME NEW i \in DOMAIN payments
       PROVE  /\ payments[i].order \in Order /\ payments[i].period \in Nat
              /\ payments[i].period <= Period(board[payments[i].order].day) /\ payments[i].period <= p
              /\ board[payments[i].order].status # "finished" =>
                    payments[i].period # Period(board[payments[i].order].day)
  <2>1. PICK o \in Order : o = payments[i].order
    BY <1>0, PaymentsTyped
  <2>2. PICK n \in Nat : n = board[o].day /\ n <= old
    BY <1>5, DayIsNat DEF Entry
  <2>3. Period(n) \in Nat /\ Period(n) <= p
    BY <1>2, <1>7, <2>2, PeriodsInOrder
  <2>4. payments[i].period \in Nat /\ payments[i].period <= Period(n)
    BY <1>0, <2>1, <2>2, PaymentsTyped DEF Following, PaidBefore
  <2> QED BY <1>7, <2>1, <2>2, <2>3, <2>4 DEF Following, PaidBefore
<1>14. PaidBefore'
  <2>1. ASSUME NEW i \in DOMAIN payments
        PROVE  /\ payments[i].period <= Period(board'[payments[i].order].day)
               /\ board'[payments[i].order].status # "finished" =>
                     payments[i].period # Period(board'[payments[i].order].day)
    <3>1. PICK o \in Order : o = payments[i].order
      BY <1>13
    <3>2. PICK a, b, n : /\ a = Period(board[o].day) /\ b = Period(board'[o].day) /\ n = payments[i].period
                         /\ a \in Nat /\ b \in Nat /\ n \in Nat /\ n <= a /\ a <= b
                         /\ board[o].status # "finished" => n # a
      BY <1>6, <1>13, <3>1
    <3>3. CASE board[o].status = "finished" /\ board'[o].status # "finished"
      BY <1>6, <3>1, <3>2, <3>3
    <3>4. CASE board'[o].status = "finished"
      BY <3>1, <3>2, <3>4
    <3>5. CASE board[o].status # "finished"
      BY <3>1, <3>2, <3>5
    <3> QED BY <3>3, <3>4, <3>5
  <2> QED BY <1>0, <2>1 DEF Following, PaidBefore
<1>15. BonusBefore'
  <2>1. \A i \in DOMAIN bonuses : bonuses[i] \in Nat /\ bonuses[i] <= p
    <3>1. PICK s \in Seq(Nat) : s = bonuses
      BY <1>0 DEF Typed
    <3>2. \A i \in DOMAIN s : s[i] \in Nat
      BY <3>1, ElementOfSeq, LenProperties
    <3> QED BY <1>2, <1>7, <3>1, <3>2 DEF Following, BonusBefore
  <2>2. CASE bonus.status = "absent"
    <3>1. payments = <<>> /\ bonuses = <<>> /\ DOMAIN payments = {} /\ DOMAIN bonuses = {}
      BY <2>2 DEF Following, Renewed
    <3>2. InPeriod' = {} /\ Cardinality(InPeriod') = 0
      BY <1>0, <3>1, FS_EmptySet DEF InPeriod
    <3>3. bonus'.status = "inProgress" /\ bonus'.progress = 0
      BY <1>2, <1>8, <2>2, BonusDay
    <3> QED BY <1>0, <3>1, <3>2, <3>3, OrdersAssumption DEF BonusBefore
  <2>3. CASE bonus.status # "absent" /\ p = q
    <3>1. bonus.day = q * PeriodDays
      BY <1>2, <1>7, <2>3 DEF Following, Renewed
    <3>2. bonus' = bonus
      BY <1>2, <1>7, <1>8, <2>3, <3>1, BonusDay
    <3> QED BY <1>0, <1>2, <1>7, <2>3, <3>2 DEF BonusBefore, Following, InPeriod
  <2>4. CASE bonus.status # "absent" /\ p < q
    <3>1. bonus.day = p * PeriodDays
      BY <1>2, <1>7, <2>4 DEF Following, Renewed
    <3>2. bonus.day # q * PeriodDays
      BY <1>7, <2>4, <3>1
    <3>3. bonus'.status = "inProgress" /\ bonus'.progress = 0
      BY <1>2, <1>7, <1>8, <2>4, <3>2, BonusDay
    <3>4. InPeriod' = {} /\ Cardinality(InPeriod') = 0
      <4>1. \A i \in DOMAIN payments : payments[i].period # q
        BY <1>7, <1>13, <2>4
      <4> QED BY <1>0, <1>2, <1>7, <4>1, FS_EmptySet DEF InPeriod
    <3>5. \A i \in DOMAIN bonuses : bonuses[i] <= q /\ bonuses[i] # q
      BY <1>7, <2>1, <2>4
    <3>6. BonusTarget \in Nat \ {0} /\ Cardinality(InPeriod') < BonusTarget
      <4>1. BonusTarget \in Nat \ {0}
        BY OrdersAssumption
      <4> QED BY <3>4, <4>1
    <3>7. \A i, j \in DOMAIN bonuses : i # j => bonuses[i] # bonuses[j]
      BY DEF BonusBefore, Following
    <3>8. bonuses' = bonuses /\ Period(boardDay)' = q
      BY <1>0, <1>2, <1>7
    <3> QED BY <3>3, <3>4, <3>5, <3>6, <3>7, <3>8 DEF BonusBefore
  <2> QED BY <1>7, <2>2, <2>3, <2>4
<1> QED BY <1>9, <1>10, <1>11, <1>12, <1>14, <1>15 DEF Following

LEMMA StepFollowing ==
  ASSUME Paying, ~overlapping, Following, [Next]_vars
  PROVE  Following' /\ ~overlapping'
<1>2. ASSUME Tick PROVE Following'
  BY <1>2, TickFollows
<1> USE DEF vars, gameVars, dataVars, pastVars
<1>0. UNCHANGED overlapping /\ Typed
  BY DEF Next, Paying
<1>1. CASE UNCHANGED vars
  BY <1>1, SameFollows DEF Same, Following, InTurn, Renewed, SeenIsThere, Due, DayOf, Today
<1>3. ASSUME NEW e \in Event, Happen(e) PROVE Following'
  BY <1>3, SameFollows DEF Happen, Same, Following, InTurn, Renewed, SeenIsThere, Due, DayOf, Today
<1>4. ASSUME NEW e \in Event, Apply(e) PROVE Following'
  BY <1>0, <1>4, ApplyFollows
<1>5. ASSUME NEW c \in Caller, Begin(c) PROVE Following'
  BY <1>5, BeginFollows
<1>6. ASSUME NEW c \in Caller, Reconcile(c) PROVE Following'
  BY <1>0, <1>6, ReconcileFollows
<1>7. ASSUME NEW c \in Caller, Look(c) PROVE Following'
  BY <1>7, LookFollows
<1>8. ASSUME NEW c \in Caller, Leave(c) PROVE Following'
  BY <1>0, <1>8, EndFollows DEF Leave, Same
<1>9. ASSUME NEW c \in Caller, NEW o \in Order, Activate(c, o) PROVE Following'
  BY <1>0, <1>9, ActivateFollows
<1>10. ASSUME NEW c \in Caller, NEW o \in Order, Deactivate(c, o) PROVE Following'
  BY <1>0, <1>10, DeactivateFollows
<1>11. ASSUME NEW c \in Caller, NEW o \in Order, NEW tx \in Tx, Replay(c, o, tx) PROVE Following'
  BY <1>0, <1>11, EndFollows DEF Replay, Answering, Same
<1>12. ASSUME NEW c \in Caller, NEW o \in Order, NEW tx \in Tx, Pay(c, o, tx) PROVE Following'
  BY <1>0, <1>12, PayFollows
<1> QED BY <1>0, <1>1, <1>2, <1>3, <1>4, <1>5, <1>6, <1>7, <1>8, <1>9, <1>10, <1>11, <1>12 DEF Next

LEMMA FollowingHolds == Spec => [](Paying /\ SFollowing)
<1>1. Init => Paying /\ SFollowing
  BY InitPaying, InitFollowing DEF SFollowing
<1>2. Paying /\ SFollowing /\ [Next]_vars => (Paying /\ SFollowing)'
  <2>1. ASSUME Paying, SFollowing, [Next]_vars PROVE SFollowing'
    <3>1. CASE overlapping
      <4>1. overlapping'
        BY <2>1, <3>1 DEF Next, vars
      <4> QED BY <4>1 DEF SFollowing
    <3>2. CASE ~overlapping
      BY <2>1, <3>2, StepFollowing DEF SFollowing
    <3> QED BY <3>1, <3>2
  <2> QED BY <2>1, StepPaying
<1> QED BY <1>1, <1>2, PTL DEF Spec

\* Where calls of dispatch() follow one another the board never shows more than
\* its number of orders: what is kept and what the rotation adds is limited to
\* the places left by the orders accepted or finished in the period.
THEOREM OffersWithinLimitAlways == Spec => []OffersWithinLimit
<1>1. SFollowing => OffersWithinLimit
  BY DEF SFollowing, Following, PlacesSuffice, Places, OffersWithinLimit
<1> QED BY <1>1, FollowingHolds, PTL

\* Where calls follow one another no order is paid twice in a period, even when
\* it is offered or activated again, nor is the bonus.
THEOREM OncePerPeriodAlways == Spec => []OncePerPeriod
<1>1. SFollowing => OncePerPeriod
  BY DEF SFollowing, Following, PaidBefore, BonusBefore, OncePerPeriod
<1> QED BY <1>1, FollowingHolds, PTL

\* Where calls follow one another the bonus counts the orders paid in its period
\* and was granted if and only if they are enough.
THEOREM BonusMatchesClaimsAlways == Spec => []BonusMatchesClaims
<1>1. ASSUME Paying, SFollowing PROVE BonusMatchesClaims
  <2> SUFFICES ASSUME bonus.status # "absent", ~overlapping
               PROVE  LET paid == {i \in DOMAIN payments : payments[i].period = Period(bonus.day)}
                      IN  /\ bonus.progress = IF Cardinality(paid) < BonusTarget
                                              THEN Cardinality(paid) ELSE BonusTarget
                          /\ bonus.status = "finished" <=> bonus.progress = BonusTarget
                          /\ bonus.status = "finished" <=> Period(bonus.day) \in ToSet(bonuses)
    BY DEF BonusMatchesClaims
  <2>1. Period(bonus.day) = Period(boardDay)
    <3>1. boardDay \in Nat /\ bonus.day = Period(boardDay) * PeriodDays
      BY <1>1, DayIsNat DEF SFollowing, Following, Renewed, Paying, Typed
    <3>2. Period(boardDay) \in Nat
      BY <3>1, PeriodsInOrder
    <3> QED BY <3>1, <3>2, PeriodBegins
  <2>2. bonus.status \in {"inProgress", "finished"}
    BY <1>1 DEF Paying, Typed
  <2>3. /\ bonus.progress = IF Cardinality(InPeriod) < BonusTarget THEN Cardinality(InPeriod) ELSE BonusTarget
        /\ bonus.status = "finished" <=> bonus.progress = BonusTarget
    BY <1>1 DEF SFollowing, Following, BonusBefore
  <2>4. bonus.status = "finished" <=> Period(boardDay) \in ToSet(bonuses)
    BY <1>1, <2>2 DEF SFollowing, Following, BonusBefore, ToSet
  <2> QED BY <2>1, <2>3, <2>4 DEF InPeriod
<1> QED BY <1>1, FollowingHolds, PTL

-----------------------------------------------------------------------------
(* Progress was earned *)

LEMMA KeptFits ==
  ASSUME Typed, KeepsAll
  PROVE  /\ kept \in Seq(Event) /\ Len(kept) \in Nat /\ DOMAIN kept = 1..Len(kept)
         /\ ToSet(kept) \subseteq Event /\ IsFiniteSet(ToSet(kept)) /\ Cardinality(ToSet(kept)) \in Nat
<1>1. PICK s \in Seq(Event) : s = kept
  BY DEF Typed
<1>2. Len(s) \in Nat /\ DOMAIN s = 1..Len(s) /\ \A i \in DOMAIN s : s[i] \in Event
  BY LenProperties, ElementOfSeq
<1>3. ToSet(s) \subseteq Event
  BY <1>2 DEF ToSet
<1> QED BY <1>1, <1>2, <1>3, FS_Subset, FS_CardinalityType DEF KeepsAll

LEMMA CountedFits ==
  ASSUME Typed, KeepsAll, NEW o \in Order
  PROVE  IsFiniteSet(Counted(o)) /\ Cardinality(Counted(o)) \in Nat /\ Counted(o) \subseteq Event
<1>1. Counted(o) \subseteq ToSet(kept)
  BY DEF Counted
<1>2. PICK S, C : S = ToSet(kept) /\ C = Counted(o) /\ C \subseteq S /\ IsFiniteSet(S) /\ S \subseteq Event
  BY <1>1, KeptFits
<1> QED BY <1>2, FS_Subset, FS_CardinalityType

\* An order keeps what it has counted while its activation lasts.
LEMMA StillCounted ==
  ASSUME Typed, Typed', KeepsAll, NEW o \in Order, Counted(o) \subseteq Counted(o)'
  PROVE  Cardinality(Counted(o)) <= Cardinality(Counted(o)')
<1>1. PICK C, D : C = Counted(o) /\ D = Counted(o)' /\ C \subseteq D
  OBVIOUS
<1>2. IsFiniteSet(D)
  <2>1. KeepsAll'
    BY DEF KeepsAll
  <2>2. Counted(o)' \subseteq ToSet(kept')
    BY DEF Counted
  <2>3. ToSet(kept') \subseteq Event
    <3>1. PICK s \in Seq(Event) : s = kept'
      BY DEF Typed
    <3>2. \A i \in DOMAIN s : s[i] \in Event
      BY <3>1, ElementOfSeq, LenProperties
    <3> QED BY <3>1, <3>2 DEF ToSet
  <2>4. PICK E : E = Event /\ IsFiniteSet(E)
    BY DEF KeepsAll
  <2> QED BY <1>1, <2>2, <2>3, <2>4, FS_Subset
<1> QED BY <1>1, <1>2, FS_Subset

\* A step that adds no receipt and leaves the accepted orders what they have.
LEMMA NothingCounted ==
  ASSUME Typed, Typed', KeepsAll, Earned, UNCHANGED kept,
         \A e \in Event : stamp[e] # None => stamp'[e] = stamp[e],
         \A o \in Order : Accepted(board'[o]) =>
            \/ /\ Accepted(board[o]) /\ board'[o].status = board[o].status
               /\ board'[o].progress = board[o].progress /\ board'[o].since = board[o].since
            \/ board'[o].status = "inProgress" /\ board'[o].progress = 0
  PROVE  Earned'
<1>1. ToSet(kept) \subseteq Event
  BY KeptFits
<1>2. ASSUME NEW o \in Order, Accepted(board'[o])
      PROVE  /\ board'[o].progress <= Cardinality(Counted(o)')
             /\ board'[o].status = "claimable" <=> board'[o].progress >= Target[o]
  <2>1. Target[o] \in Nat /\ Target[o] > 0 /\ Cardinality(Counted(o)) \in Nat
    BY OrdersAssumption, CountedFits
  <2>2. Cardinality(Counted(o)') \in Nat
    <3>1. KeepsAll'
      BY DEF KeepsAll
    <3>2. PICK E, D : E = Event /\ IsFiniteSet(E) /\ D = Counted(o)' /\ D \subseteq E
      BY <1>1 DEF Counted, KeepsAll
    <3> QED BY <3>2, FS_Subset, FS_CardinalityType
  <2>3. CASE board'[o].status = "inProgress" /\ board'[o].progress = 0
    BY <2>1, <2>2, <2>3
  <2>4. CASE /\ Accepted(board[o]) /\ board'[o].status = board[o].status
             /\ board'[o].progress = board[o].progress /\ board'[o].since = board[o].since
    <3>1. Counted(o) \subseteq Counted(o)'
      BY <1>1, <2>4 DEF Counted
    <3>2. Cardinality(Counted(o)) <= Cardinality(Counted(o)')
      BY <3>1, StillCounted
    <3>3. board[o].progress \in Nat
      BY DEF Typed, Entry
    <3> QED BY <2>1, <2>2, <2>4, <3>2, <3>3 DEF Earned
  <2> QED BY <1>2, <2>3, <2>4
<1> QED BY <1>2 DEF Earned

LEMMA ApplyEarns ==
  ASSUME Paying, Typed', KeepsAll, Earned, NEW e \in Event, Apply(e)
  PROVE  Earned'
<1>0. Typed /\ UNCHANGED stamp
  BY DEF Paying, Apply, gameVars
<1>1. PICK s : /\ s = Append(kept, e) /\ s \in Seq(Event) /\ Len(s) = Len(kept) + 1 /\ s[Len(kept) + 1] = e
               /\ \A i \in 1..Len(kept) : s[i] = kept[i]
  <2>1. PICK k \in Seq(Event) : k = kept
    BY <1>0 DEF Typed
  <2>2. /\ Append(k, e) \in Seq(Event) /\ Len(Append(k, e)) = Len(k) + 1 /\ Append(k, e)[Len(k) + 1] = e
        /\ \A i \in 1..Len(k) : Append(k, e)[i] = k[i]
    BY AppendProperties
  <2> QED BY <2>1, <2>2
<1>2. DOMAIN s = 1..Len(s) /\ Len(s) \in Nat /\ Len(kept) \in Nat /\ DOMAIN kept = 1..Len(kept)
  BY <1>0, <1>1, KeptFits, LenProperties
<1>3. ToSet(s) = ToSet(kept) \union {e} /\ e \notin ToSet(kept)
  <2>1. \A i \in DOMAIN s : i \in DOMAIN kept \/ i = Len(kept) + 1
    BY <1>1, <1>2
  <2> QED BY <1>1, <1>2, <2>1 DEF ToSet, Apply
<1>4. Cardinality(ToSet(s)) = Cardinality(ToSet(kept)) + 1 /\ Cardinality(ToSet(s)) <= Cardinality(Event)
      /\ Cardinality(Event) \in Nat
  <2>1. PICK S, T, E : S = ToSet(kept) /\ T = ToSet(s) /\ T = S \union {e} /\ e \notin S /\ IsFiniteSet(S)
                       /\ E = Event /\ IsFiniteSet(E) /\ T \subseteq E
    BY <1>0, <1>3, KeptFits DEF KeepsAll
  <2> QED BY <2>1, FS_AddElement, FS_Subset, FS_CardinalityType
<1>5. Len(s) = Cardinality(ToSet(s)) /\ Len(s) <= Keep /\ Keep \in Nat
  <2>1. Len(kept) = Cardinality(ToSet(kept)) /\ Cardinality(Event) <= Keep
    BY DEF Earned, KeepsAll
  <2>2. Len(kept) \in Nat /\ Cardinality(ToSet(s)) \in Nat /\ Len(s) = Len(kept) + 1
    BY <1>1, <1>2, <1>4, <2>1
  <2>3. Keep \in Nat
    BY OrdersAssumption
  <2> QED BY <1>4, <2>1, <2>2, <2>3
<1>6. kept' = s
  <2>1. kept' = SubSeq(s, 1, Len(s))
    <3>1. kept' = KeepNewest(s)
      BY <1>1 DEF Apply
    <3>2. ~(Len(s) > Keep)
      BY <1>2, <1>5
    <3> QED BY <3>1, <3>2 DEF KeepNewest
  <2> QED BY <1>1, <1>2, <2>1, SubSeqFull
<1>7. ASSUME NEW o \in Order, Accepted(board'[o])
      PROVE  /\ board'[o].progress <= Cardinality(Counted(o)')
             /\ board'[o].status = "claimable" <=> board'[o].progress >= Target[o]
  <2>1. Target[o] \in Nat /\ IsFiniteSet(Counted(o)) /\ Cardinality(Counted(o)) \in Nat
        /\ board[o].progress \in Nat /\ board'[o].progress \in Nat
    BY <1>0, OrdersAssumption, CountedFits DEF Typed, Entry
  <2>2. PICK C, D : /\ C = Counted(o) /\ D = Counted(o)' /\ IsFiniteSet(C) /\ IsFiniteSet(D) /\ e \notin C
                    /\ Cardinality(C) \in Nat /\ Cardinality(D) \in Nat
    <3>1. PICK E, D : E = Event /\ IsFiniteSet(E) /\ D = Counted(o)' /\ D \subseteq E
      <4>1. ToSet(s) \subseteq Event
        BY <1>0, <1>3, KeptFits
      <4> QED BY <1>6, <4>1 DEF Counted, KeepsAll
    <3>2. e \notin Counted(o)
      BY <1>3 DEF Counted
    <3> QED BY <2>1, <3>1, <3>2, FS_Subset, FS_CardinalityType
  <2>3. CASE board'[o] = board[o]
    <3>1. C \subseteq D
      BY <1>0, <1>3, <1>6, <2>2, <2>3 DEF Counted
    <3>2. Cardinality(C) <= Cardinality(D)
      BY <2>2, <3>1, FS_Subset
    <3> QED BY <1>7, <2>1, <2>2, <2>3, <3>2 DEF Earned
  <2>4. CASE CountsFor(o, e) /\ board'[o] = Advanced(o, board[o])
    <3>1. /\ Accepted(board[o]) /\ board'[o].since = board[o].since
          /\ board'[o].progress <= board[o].progress + 1
          /\ board'[o].status \in {"inProgress", "claimable"}
          /\ board'[o].status = "claimable" => board'[o].progress = Target[o]
          /\ board'[o].status = "inProgress" => board'[o].progress < Target[o]
      BY <2>4, AdvancedFits
    <3>2. C \union {e} \subseteq D
      BY <1>0, <1>3, <1>6, <2>2, <2>4, <3>1 DEF Counted, CountsFor, Apply
    <3>3. Cardinality(C) + 1 <= Cardinality(D)
      <4>1. Cardinality(C \union {e}) = Cardinality(C) + 1
        BY <2>2, FS_AddElement
      <4> QED BY <2>2, <3>2, <4>1, FS_Subset
    <3>4. board[o].progress <= Cardinality(C)
      BY <2>2, <3>1 DEF Earned
    <3> QED BY <2>1, <2>2, <3>1, <3>3, <3>4
  <2> QED BY <2>3, <2>4 DEF Apply
<1> QED BY <1>5, <1>6, <1>7 DEF Earned

\* A payment finishes its order and changes no other entry of the board, so that an order
\* in progress has still earned all it shows.
LEMMA PayEarns ==
  ASSUME Paying, Typed', KeepsAll, Earned, NEW c \in Caller, NEW o \in Order, NEW tx \in Tx, Pay(c, o, tx)
  PROVE  Earned'
<1>1. board'[o].status = "finished" /\ \A p \in Order : p # o => board'[p] = board[p]
  <2>1. board \in [Order -> Entry] /\ board' = [board EXCEPT ![o] = Finished(@, tx)]
    BY DEF Pay, Paying, Typed
  <2>2. board'[o] = Finished(board[o], tx) /\ Finished(board[o], tx).status = "finished"
    BY <2>1 DEF Finished, Entry
  <2> QED BY <2>1, <2>2
<1> QED BY <1>1, NothingCounted DEF Pay, Accepted, gameVars, Paying

LEMMA StepEarned ==
  ASSUME Paying, ~overlapping, Following, KeepsAll, Earned, [Next]_vars
  PROVE  Earned'
<1> USE DEF vars, gameVars, dataVars, pastVars
<1>0. Typed /\ Typed'
  BY StepTyped DEF Paying
<1>1. ASSUME UNCHANGED <<board, kept, stamp>> PROVE Earned'
  BY <1>0, <1>1, NothingCounted
<1>2. ASSUME NEW e \in Event, Happen(e) PROVE Earned'
  <2>1. \A x \in Event : stamp[x] # None => stamp'[x] = stamp[x]
    BY <1>0, <1>2 DEF Happen, Typed
  <2> QED BY <1>0, <1>2, <2>1, NothingCounted DEF Happen
<1>3. ASSUME NEW e \in Event, Apply(e) PROVE Earned'
  BY <1>0, <1>3, ApplyEarns
<1>4. ASSUME NEW c \in Caller, Reconcile(c) PROVE Earned'
  <2>1. DayOf(c) \in Day
    BY <1>0, <1>4, ACall DEF Reconcile
  <2>2. \A o \in Order : EntryReconciled(board[o], board'[o], DayOf(c)) /\ board[o] \in Entry
    BY <1>0, <1>4, <2>1, ReconcileOne DEF Reconcile, Typed
  <2>3. \A o \in Order : Accepted(board'[o]) =>
          /\ Accepted(board[o]) /\ board'[o].status = board[o].status
          /\ board'[o].progress = board[o].progress /\ board'[o].since = board[o].since
    BY <2>1, <2>2, StillAccepted
  <2> QED BY <1>0, <1>4, <2>3, NothingCounted DEF Reconcile
<1>5. ASSUME NEW c \in Caller, NEW o \in Order, Activate(c, o) PROVE Earned'
  <2>1. call[c] # Idle /\ call[c].stage = "ready"
    BY <1>5 DEF Activate, Answering
  <2>2. board[o].status = "available" /\ call[c].offers[o] = board[o]
    <3>1. call[c].offers[o] # None /\ ~Accepted(board[o]) /\ ~DoneThisPeriod(board[o], DayOf(c))
      BY <1>5 DEF Activate, DoneThisPeriod
    <3> QED BY <2>1, <3>1 DEF Following, SeenIsThere
  <2>3. board[o].progress = 0
    BY <2>2 DEF Following, Renewed
  <2>4. board'[o].status = "inProgress" /\ board'[o].progress = 0 /\ \A p \in Order : p # o => board'[p] = board[p]
    BY <1>5, <2>2, <2>3, ActivateDoes
  <2> QED BY <1>0, <1>5, <2>4, NothingCounted DEF Activate
<1>6. ASSUME NEW c \in Caller, NEW o \in Order, Deactivate(c, o) PROVE Earned'
  <2>1. \A p \in Order : board'[p] = board[p] \/ board'[p] = Offer(DayOf(c))
    BY <1>0, <1>6 DEF Deactivate, Deactivated, Typed
  <2>2. ~Accepted(Offer(DayOf(c)))
    BY DEF Offer, Accepted
  <2> QED BY <1>0, <1>6, <2>1, <2>2, NothingCounted DEF Deactivate
<1>7. ASSUME NEW c \in Caller, NEW o \in Order, NEW tx \in Tx, Pay(c, o, tx) PROVE Earned'
  BY <1>0, <1>7, PayEarns
<1>8. CASE UNCHANGED vars
  BY <1>1, <1>8
<1>9. ASSUME Tick PROVE Earned'
  BY <1>1, <1>9 DEF Tick
<1>10. ASSUME NEW c \in Caller, Begin(c) \/ Look(c) \/ Leave(c) PROVE Earned'
  BY <1>1, <1>10 DEF Begin, Look, Leave
<1>11. ASSUME NEW c \in Caller, NEW o \in Order, NEW tx \in Tx, Replay(c, o, tx) PROVE Earned'
  BY <1>1, <1>11 DEF Replay
<1> QED BY <1>2, <1>3, <1>4, <1>5, <1>6, <1>7, <1>8, <1>9, <1>10, <1>11 DEF Next

\* As long as no receipt of an event had to make room for another (2048 are
\* kept), and calls follow one another, the progress of an order was made by
\* different events since its activation, and it is claimable exactly when they
\* are enough.
THEOREM ProgressWasEarnedAlways == KeepsAll => (Spec => []ProgressWasEarned)
<1> SUFFICES ASSUME KeepsAll PROVE Spec => []ProgressWasEarned
  OBVIOUS
<1>1. Init => SEarned
  <2> SUFFICES ASSUME Init PROVE Earned
    BY DEF SEarned
  <2>1. kept = <<>> /\ Len(kept) = 0 /\ ToSet(kept) = {} /\ \A o \in Order : ~Accepted(board[o])
    BY EmptySeq DEF Init, ToSet, Absent, Accepted
  <2> QED BY <2>1, FS_EmptySet DEF Earned
<1>2. Paying /\ SFollowing /\ SEarned /\ [Next]_vars => SEarned'
  <2> SUFFICES ASSUME Paying, SFollowing, SEarned, [Next]_vars, ~overlapping' PROVE Earned'
    BY DEF SEarned
  <2>1. ~overlapping
    BY DEF Next, vars
  <2> QED BY <2>1, StepEarned DEF SEarned, SFollowing
<1>3. Paying /\ SEarned => ProgressWasEarned
  <2> SUFFICES ASSUME Paying, SEarned, ~overlapping, NEW o \in Order, Accepted(board[o])
               PROVE  /\ board[o].progress <=
                            Cardinality({e \in Event : /\ stamp[e] # None /\ o \in Counts[e]
                                                       /\ stamp[e] >= board[o].since})
                      /\ board[o].status = "claimable" <=> board[o].progress >= Target[o]
    BY DEF ProgressWasEarned
  <2>1. /\ board[o].progress <= Cardinality(Counted(o)) /\ board[o].progress \in Nat
        /\ board[o].status = "claimable" <=> board[o].progress >= Target[o]
    BY DEF SEarned, Earned, Paying, Typed, Entry
  <2>2. PICK C, D, E : /\ C = Counted(o) /\ E = Event /\ IsFiniteSet(E) /\ C \subseteq D /\ D \subseteq E
                       /\ D = {e \in Event : /\ stamp[e] # None /\ o \in Counts[e] /\ stamp[e] >= board[o].since}
    BY KeptFits DEF Counted, Paying, KeepsAll
  <2>3. Cardinality(C) <= Cardinality(D) /\ Cardinality(C) \in Nat /\ Cardinality(D) \in Nat
    BY <2>2, FS_Subset, FS_CardinalityType
  <2> QED BY <2>1, <2>2, <2>3
<1> QED BY <1>1, <1>2, <1>3, FollowingHolds, PTL DEF Spec

=============================================================================
