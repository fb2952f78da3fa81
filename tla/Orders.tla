------------------------------- MODULE Orders -------------------------------
(***************************************************************************)
(* Daily and weekly Orders and their completion bonus                      *)
(* (client/game/demonware/achievement_engine.cpp), for one kind of order.  *)
(*                                                                         *)
(* A call of dispatch() reads the clock and a snapshot once, renews the    *)
(* board when the snapshot is out of date, keeps the list of offers it saw *)
(* and then runs the player's request in a transaction of its own.  Calls  *)
(* come from the game's main thread and from the transport thread; match   *)
(* events are applied by other threads.  Each transaction is one step      *)
(* here, after the module EconomyStore.                                    *)
(***************************************************************************)
EXTENDS Integers, FiniteSets, Sequences, SequencesExt, Functions

CONSTANTS Order,      \* the catalog's orders of this kind
          Pool,       \* the catalog as a sequence; map iteration uses its order too
          Target,     \* events each order needs
          Event,      \* match events, each with one timestamp and content
          Counts,     \* the orders whose rule each event satisfies
          Tx,         \* ClientTx values of claims
          Caller,     \* threads running dispatch()
          Limit,      \* offers of this kind: 6 daily, 3 weekly
          MaxActive,  \* accepted orders of this kind: 3
          BonusTarget,\* claims for the bonus: 6 daily, 3 weekly
          PeriodDays, \* 1 daily, 7 weekly
          DayLength,  \* seconds of a day
          Keep,       \* event receipts kept: 2048
          MaxTime, MaxApplied, MaxRounds,  \* bounds
          None

ASSUME OrdersAssumption ==
    /\ Pool \in Seq(Order) /\ ToSet(Pool) = Order /\ Len(Pool) = Cardinality(Order)
    /\ Target \in [Order -> Nat \ {0}]
    /\ Counts \in [Event -> SUBSET Order]
    /\ {Limit, MaxActive, BonusTarget, PeriodDays, DayLength, Keep} \subseteq Nat \ {0}
    /\ {MaxApplied, MaxRounds} \subseteq Nat /\ MaxTime \in Nat \ {0}
    /\ IsFiniteSet(Order)
    /\ None \notin Tx \union Order \union Nat \union (Order \X Nat)

VARIABLES
    now,       \* time(nullptr)
    board,     \* data.achievements, the entries of this kind
    bonus,     \* data.achievements[bonus_name(kind)]
    claims,    \* the "claim:" receipts
    kept,      \* the "event:" receipts, oldest first
    stamp,     \* when each event happened
    call,      \* the dispatch() call each thread is in
    overlapping,   \* whether calls of the two threads may overlap in this behaviour
    \* history
    boardDay,  \* day of the last reconcile_offers
    round,     \* activations of each order
    payments,  \* rewards granted, in order
    bonuses,   \* periods whose bonus was granted, in order
    reported,  \* rewards listed in a reply
    applied    \* number of events applied, for the bound

gameVars == <<now, stamp>>
dataVars == <<board, bonus, claims, kept>>
pastVars == <<boardDay, round, payments, bonuses, reported, applied>>
vars == <<gameVars, dataVars, call, overlapping, pastVars>>

Day == 0..(MaxTime \div DayLength)
Period(day) == day \div PeriodDays
Today == now \div DayLength

Status == {"absent", "available", "inProgress", "claimable", "finished", "expired"}
Entry == [status : Status, day : Day, progress : Nat, since : Nat, tx : Tx \union {None}]
Absent == [status |-> "absent", day |-> 0, progress |-> 0, since |-> 0, tx |-> None]
Offer(day) == [status |-> "available", day |-> day, progress |-> 0, since |-> 0, tx |-> None]

Idle == [stage |-> "idle"]

TypeOK ==
    /\ now \in 0..MaxTime
    /\ board \in [Order -> Entry]
    /\ bonus \in [status : {"absent", "inProgress", "finished"}, day : Day, progress : 0..BonusTarget]
    /\ claims \in [Tx -> (Order \X Day) \union {None}]
    /\ kept \in Seq(Event) /\ Len(kept) <= Keep
    /\ stamp \in [Event -> 0..MaxTime \union {None}]
    /\ overlapping \in BOOLEAN
    /\ \A c \in Caller : call[c] = Idle \/
        /\ call[c].stage \in {"reconcile", "look", "ready"}
        /\ call[c].at \in 0..MaxTime
        /\ call[c].offers \in [Order -> Entry \union {None}]

\* Overlaps are looked at around the last change of day only.
Init ==
    /\ overlapping \in BOOLEAN
    /\ now = IF overlapping THEN MaxTime - 1 ELSE 0
    /\ board = [o \in Order |-> Absent]
    /\ bonus = [status |-> "absent", day |-> 0, progress |-> 0]
    /\ claims = [t \in Tx |-> None]
    /\ kept = <<>>
    /\ stamp = [e \in Event |-> None]
    /\ call = [c \in Caller |-> Idle]
    /\ boardDay = Today
    /\ round = [o \in Order |-> 0]
    /\ payments = <<>> /\ bonuses = <<>> /\ reported = {}
    /\ applied = 0

-----------------------------------------------------------------------------
(* The board: reconcile_offers *)

Accepted(e) == e.status \in {"inProgress", "claimable"}
Current(e, day) == Period(e.day) = Period(day)
DoneToday(e, day) == e.status = "finished" /\ e.day = day
DoneThisPeriod(e, day) == e.status = "finished" /\ Current(e, day)

\* Accepted orders are carried and take today's date; old offers expire.
CarriedOrExpired(e, day) ==
    IF Accepted(e) THEN [e EXCEPT !.day = day]
    ELSE IF e.status = "available" /\ ~Current(e, day) THEN [e EXCEPT !.status = "expired"]
    ELSE e

CarryProgressOnly(b, day) ==
    [o \in Order |-> IF b[o].status = "inProgress" \/ ~Accepted(b[o])
                     THEN CarriedOrExpired(b[o], day)
                     ELSE [b[o] EXCEPT !.status = "expired"]]
Carry(b, day) == [o \in Order |-> CarriedOrExpired(b[o], day)]

Occupied(b, day) == {o \in Order : Accepted(b[o]) \/ DoneThisPeriod(b[o], day)}

Offered(b) == {o \in Order : b[o].status = "available"}

\* The first `room` orders of S, by their places.
FirstOf(S, room, place) == {o \in S : Cardinality({p \in S : place[p] < place[o]}) < room}

PoolPlace == [o \in Order |-> CHOOSE i \in DOMAIN Pool : Pool[i] = o]
\* Each period's rotation of the catalog begins Limit orders further on.
RotationPlace(day) == [o \in Order |-> (PoolPlace[o] - 1 - Period(day) * Limit) % Len(Pool)]

\* Offers that are still current stay, as long as there is room for them.
Preserve(b, day) ==
    LET stay == FirstOf(Offered(b), Limit - Cardinality(Occupied(b, day)), PoolPlace)
    IN  [o \in Order |-> IF o \in stay THEN [b[o] EXCEPT !.day = day]
                         ELSE IF o \in Offered(b) THEN [b[o] EXCEPT !.status = "expired"]
                         ELSE b[o]]

\* The day's rotation of the catalog fills the empty places.
Refillable(e, day) ==
    ~Accepted(e) /\ e.status # "available" /\ ~DoneThisPeriod(e, day)

Refilled(b, day, room) ==
    LET fresh == FirstOf({o \in Order : Refillable(b[o], day)}, room, RotationPlace(day))
    IN  [o \in Order |-> IF o \in fresh THEN Offer(day) ELSE b[o]]

FillBesideAccepted(b, day) == Refilled(b, day, Limit - Cardinality(Occupied(b, day)))
Fill(b, day) == Refilled(b, day, Limit - Cardinality(Occupied(b, day) \union Offered(b)))

Reconciled(b, day) == Fill(Preserve(Carry(b, day), day), day)

BonusCarried(day) ==
    IF bonus.status = "absent"
    THEN [status |-> "inProgress", day |-> Period(day) * PeriodDays, progress |-> 0]
    ELSE [bonus EXCEPT !.day = Period(day) * PeriodDays]
\* The bonus starts again with each period.
BonusOn(day) ==
    IF bonus.status = "absent" \/ bonus.day # Period(day) * PeriodDays
    THEN [status |-> "inProgress", day |-> Period(day) * PeriodDays, progress |-> 0]
    ELSE bonus

UpToDate(day) == Reconciled(board, day) = board /\ BonusOn(day) = bonus

-----------------------------------------------------------------------------
(* dispatch() *)

\* `scheduled`: copies of the entries the call saw.
Seen(b, day) ==
    [o \in Order |-> IF Accepted(b[o]) \/ b[o].status = "available" \/ DoneThisPeriod(b[o], day)
                     THEN b[o] ELSE None]

Blank == [o \in Order |-> None]

DayOf(c) == call[c].at \div DayLength

\* What the request is does not matter before it is answered; it is chosen then.
Begin(c) ==
    /\ call[c] = Idle
    /\ overlapping \/ \A d \in Caller : call[d] = Idle
    /\ call' = [call EXCEPT ![c] = IF UpToDate(Today)
            THEN [stage |-> "ready", at |-> now, offers |-> Seen(board, Today)]
            ELSE [stage |-> "reconcile", at |-> now, offers |-> Blank]]
    /\ UNCHANGED <<gameVars, dataVars, pastVars>>

\* The first transaction; it works on what the file holds by now.
Reconcile(c) ==
    /\ call[c] # Idle /\ call[c].stage = "reconcile"
    /\ board' = Reconciled(board, DayOf(c))
    /\ bonus' = BonusOn(DayOf(c))
    /\ boardDay' = DayOf(c)
    /\ call' = [call EXCEPT ![c].stage = "look"]
    /\ UNCHANGED <<gameVars, claims, kept, round, payments, bonuses, reported, applied>>

\* The snapshot after it.
Look(c) ==
    /\ call[c] # Idle /\ call[c].stage = "look"
    /\ call' = [call EXCEPT ![c].stage = "ready", ![c].offers = Seen(board, DayOf(c))]
    /\ UNCHANGED <<gameVars, dataVars, pastVars>>

\* A fetch has nothing more to change, a refused or unsaved transaction
\* changes nothing, and a process may end: the call is over.
Leave(c) ==
    /\ call[c] # Idle
    /\ call' = [call EXCEPT ![c] = Idle]
    /\ UNCHANGED <<gameVars, dataVars, pastVars>>

Answering(c) ==
    /\ call[c] # Idle /\ call[c].stage = "ready"
    /\ call' = [call EXCEPT ![c] = Idle]

SumRounds == FoldFunction(+, 0, round)
RoomForOneMore == Cardinality({p \in Order : Accepted(board[p])}) < MaxActive

Activated(offer, at) ==
    [offer EXCEPT !.status = "inProgress", !.since = at, !.tx = None]

\* The entry becomes a copy of the offer the call saw.
Activate(c, o) ==
    /\ Answering(c)
    /\ ~Accepted(board[o])
    /\ board[o].status \in {"available", "absent"} \/ ~Current(board[o], DayOf(c))
    /\ call[c].offers[o] # None
    /\ RoomForOneMore
    /\ SumRounds < MaxRounds
    /\ board' = [board EXCEPT ![o] = Activated(call[c].offers[o], call[c].at)]
    /\ round' = [round EXCEPT ![o] = @ + 1]
    /\ UNCHANGED <<gameVars, bonus, claims, kept, boardDay, payments, bonuses,
                   reported, applied>>

Deactivated(e, day) == Offer(day)

Deactivate(c, o) ==
    /\ Answering(c)
    /\ Accepted(board[o])
    /\ board' = [board EXCEPT ![o] = Deactivated(@, DayOf(c))]
    /\ UNCHANGED <<gameVars, bonus, claims, kept, pastVars>>

-----------------------------------------------------------------------------
(* Claims *)

\* A used transaction answers only for the claim it paid.
ReceiptOfOrder(o, tx) == claims[tx] # None => claims[tx][1] = o
ReceiptAgrees(o, tx) ==
    claims[tx] # None => claims[tx] = <<o, board[o].day>> /\ board[o].tx = tx

IsReplay(o, tx) ==
    \/ board[o].status = "finished"
    \/ board[o].status = "available" /\ board[o].tx = tx

\* A replay lists the rewards again only to the transaction that was paid.
Reports(o, tx) == board[o].tx = tx

Replay(c, o, tx) ==
    /\ Answering(c)
    /\ ReceiptAgrees(o, tx) /\ IsReplay(o, tx)
    /\ reported' = IF Reports(o, tx) THEN reported \union {<<tx, o>>} ELSE reported
    /\ UNCHANGED <<gameVars, dataVars, boardDay, round, payments, bonuses, applied>>

Finished(e, tx) == [e EXCEPT !.status = "finished", !.tx = tx]

BonusOpen == bonus.status = "inProgress"

\* A claim of an order moves the bonus; the last one grants it.
BonusAfterClaim ==
    IF ~BonusOpen THEN bonus
    ELSE IF bonus.progress + 1 >= BonusTarget
         THEN [bonus EXCEPT !.progress = BonusTarget, !.status = "finished"]
         ELSE [bonus EXCEPT !.progress = @ + 1]

Pay(c, o, tx) ==
    /\ Answering(c)
    /\ ReceiptAgrees(o, tx) /\ ~IsReplay(o, tx)
    /\ board[o].status = "claimable" /\ board[o].progress >= Target[o]
    /\ board' = [board EXCEPT ![o] = Finished(@, tx)]
    /\ claims' = [claims EXCEPT ![tx] = <<o, board[o].day>>]
    /\ payments' = Append(payments, [order |-> o, period |-> Period(board[o].day),
                                     round |-> round[o], tx |-> tx])
    /\ reported' = reported \union {<<tx, o>>}
    /\ bonus' = BonusAfterClaim
    /\ bonuses' = IF BonusOpen /\ bonus.progress + 1 >= BonusTarget
                  THEN Append(bonuses, Period(bonus.day)) ELSE bonuses
    /\ UNCHANGED <<gameVars, kept, boardDay, round, applied>>

-----------------------------------------------------------------------------
(* Match events: apply_event *)

Advanced(o, e) ==
    IF board[o].progress + 1 >= Target[o]
    THEN [e EXCEPT !.progress = Target[o], !.status = "claimable"]
    ELSE [e EXCEPT !.progress = @ + 1]

CountsLate(o, e) == board[o].status = "inProgress" /\ o \in Counts[e]
\* An event from before the activation does not count.
CountsFor(o, e) ==
    board[o].status = "inProgress" /\ o \in Counts[e] /\ stamp[e] >= board[o].since

KeepNewest(receipts) ==
    SubSeq(receipts, IF Len(receipts) > Keep THEN Len(receipts) - Keep + 1 ELSE 1, Len(receipts))

\* An event may arrive late and again; its receipt makes the second time a no-op.
Apply(e) ==
    /\ stamp[e] # None /\ applied < MaxApplied
    /\ e \notin ToSet(kept)
    /\ board' = [o \in Order |-> IF CountsFor(o, e) THEN Advanced(o, board[o]) ELSE board[o]]
    /\ kept' = KeepNewest(Append(kept, e))
    /\ applied' = applied + 1
    /\ UNCHANGED <<gameVars, bonus, claims, call, boardDay, round, payments, bonuses,
                   reported>>

\* Something happens in a match.
Happen(e) ==
    /\ stamp[e] = None
    /\ stamp' = [stamp EXCEPT ![e] = now]
    /\ UNCHANGED <<now, dataVars, call, pastVars>>

Tick ==
    /\ now < MaxTime
    /\ now' = now + 1
    /\ UNCHANGED <<stamp, dataVars, call, pastVars>>

Next ==
    /\ UNCHANGED overlapping
    /\ \/ Tick
       \/ \E e \in Event : Happen(e) \/ Apply(e)
       \/ \E c \in Caller :
           \/ Begin(c) \/ Reconcile(c) \/ Look(c) \/ Leave(c)
           \/ \E o \in Order :
               \/ Activate(c, o) \/ Deactivate(c, o)
               \/ \E tx \in Tx : Replay(c, o, tx) \/ Pay(c, o, tx)

Spec == Init /\ [][Next]_vars

-----------------------------------------------------------------------------
(* Properties that hold whatever calls overlap *)

\* One activation of an order is paid at most once, by one transaction, and one
\* transaction pays at most one order, whatever is sent again and when; and a
\* reply lists rewards only to the transaction that received them.
PaidOnce ==
    /\ \A i, j \in DOMAIN payments : i # j =>
        /\ payments[i].tx # payments[j].tx
        /\ <<payments[i].order, payments[i].round>> # <<payments[j].order, payments[j].round>>
    /\ \A r \in reported :
        \E i \in DOMAIN payments : <<payments[i].tx, payments[i].order>> = r

\* "A carried order keeps progress/activation/reward": an accepted order leaves
\* the board only because its player claims or abandons it, never because the
\* day changes or another thread renews the offers.
CarriedKept ==
    [][\A o \in Order : Accepted(board[o]) =>
        \/ /\ Accepted(board'[o])
           /\ board'[o].progress >= board[o].progress
           /\ board'[o].since = board[o].since
        \/ Len(payments') > Len(payments) /\ Last(payments').order = o
        \/ \E c \in Caller : /\ call[c] # Idle /\ call'[c] = Idle
                            /\ board' = [board EXCEPT ![o] = Deactivated(@, DayOf(c))]]_vars

-----------------------------------------------------------------------------
(* Properties that need calls to follow one another: a copy of an offer that   *)
(* another call has moved on may come back when they overlap.                  *)

\* Progress is made of different events since the activation, and an order is
\* claimable exactly when they are enough: nothing is left from an earlier
\* activation of the same order.
ProgressWasEarned ==
    ~overlapping => \A o \in Order : Accepted(board[o]) =>
        /\ board[o].progress <=
              Cardinality({e \in Event : /\ stamp[e] # None /\ o \in Counts[e]
                                         /\ stamp[e] >= board[o].since})
        /\ board[o].status = "claimable" <=> board[o].progress >= Target[o]

\* The board never shows more than the day's number of orders, carried,
\* abandoned and finished ones included.
OffersWithinLimit ==
    ~overlapping => Cardinality(Occupied(board, boardDay) \union Offered(board)) <= Limit

\* An order is paid at most once in a period, even when it is offered again,
\* and so is the bonus.
OncePerPeriod ==
    ~overlapping =>
        /\ \A i, j \in DOMAIN payments : i # j =>
            <<payments[i].order, payments[i].period>> # <<payments[j].order, payments[j].period>>
        /\ \A i, j \in DOMAIN bonuses : i # j => bonuses[i] # bonuses[j]

\* The bonus shows the orders paid in its period, and was granted if and only
\* if they are enough.
BonusMatchesClaims ==
    bonus.status # "absent" /\ ~overlapping =>
        LET paid == {i \in DOMAIN payments : payments[i].period = Period(bonus.day)}
        IN  /\ bonus.progress = IF Cardinality(paid) < BonusTarget
                                THEN Cardinality(paid) ELSE BonusTarget
            /\ bonus.status = "finished" <=> bonus.progress = BonusTarget
            /\ bonus.status = "finished" <=> Period(bonus.day) \in ToSet(bonuses)

=============================================================================
