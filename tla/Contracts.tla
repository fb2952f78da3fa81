----------------------------- MODULE Contracts -----------------------------
(***************************************************************************)
(* Timed contracts: a token is bought (hq_marketplace.cpp), spent when the *)
(* contract is activated (achievement_engine.cpp), and the contract must   *)
(* be completed within its match time, which a once-a-second callback on   *)
(* the game's main thread charges (hq_contract_clock.hpp).                 *)
(*                                                                         *)
(* The requests run in one transaction each; the clock takes a snapshot    *)
(* and opens a transaction later, so an activation may end, and another of *)
(* the same contract begin, in between.  Match events and the replies to   *)
(* repeated claims are those of the module Orders and are reduced to their *)
(* effect here.                                                            *)
(***************************************************************************)
EXTENDS Integers, FiniteSets

CONSTANTS Contract,     \* contracts with a vendor SKU, of one kind (4 or 11)
          OnBoard,      \* the contracts offered on each day: nine rows of the table
          Price,        \* armory credits
          Target,       \* events needed
          UsageTarget,  \* match seconds allowed
          Tx,           \* purchase transactions
          MaxActive,    \* 3
          Credits,      \* initial wallet
          SecondTicks,  \* clock resolution: ticks per second
          DayTicks,
          MaxTime, MaxActivations,  \* bounds
          None

Day == 0..(MaxTime \div DayTicks)

ASSUME ContractsAssumption ==
    /\ IsFiniteSet(Contract) /\ IsFiniteSet(Tx)
    /\ OnBoard \in [Day -> SUBSET Contract]
    /\ Price \in [Contract -> Nat]
    /\ Target \in [Contract -> Nat \ {0}] /\ UsageTarget \in [Contract -> Nat \ {0}]
    /\ {MaxActive, SecondTicks, DayTicks} \subseteq Nat \ {0}
    /\ {Credits, MaxTime, MaxActivations} \subseteq Nat
    /\ None \notin Contract

VARIABLES
    now,        \* ticks
    playing,    \* in a match, as tick_contracts sees it
    entry,      \* data.achievements
    token,      \* data.inventory: quantity of each contract's token
    wallet,     \* data.currencies[armory_credits]
    bought,     \* the "purchase:" receipts
    timer,      \* hq_contract_clock::timers_
    due,        \* the clock is between its snapshot and its transaction
    \* history
    sampled,    \* the clock has run since the last match ended
    matchTime,  \* ticks spent in matches
    activations,\* activations of each contract
    started     \* matchTime when each contract was last activated

storeVars == <<entry, token, wallet, bought>>
clockVars == <<timer, due, sampled>>
vars == <<now, playing, storeVars, clockVars, matchTime, activations, started>>

Status == {"absent", "available", "inProgress", "claimable", "finished", "expired"}
Entry == [status : Status, day : Day, progress : Nat, usage : Nat, since : Nat, generation : Nat]
Timer == [since : Nat, generation : Nat, last : Nat \union {None}, pending : Nat]

TypeOK ==
    /\ now \in 0..MaxTime /\ playing \in BOOLEAN
    /\ entry \in [Contract -> Entry]
    /\ \A c \in Contract : entry[c].progress <= Target[c] /\ entry[c].usage <= UsageTarget[c]
    /\ token \in [Contract -> 0..1]
    /\ wallet \in 0..Credits
    /\ bought \in [Tx -> Contract \union {None}]
    /\ timer \in [Contract -> Timer \union {None}]
    /\ due \in BOOLEAN /\ sampled \in BOOLEAN
    /\ matchTime \in 0..MaxTime
    /\ activations \in [Contract -> 0..MaxActivations]
    /\ started \in [Contract -> 0..MaxTime]

Init ==
    /\ now = 0 /\ playing = FALSE
    /\ entry = [c \in Contract |-> [status |-> "absent", day |-> 0, progress |-> 0,
                                    usage |-> 0, since |-> 0, generation |-> 0]]
    /\ token = [c \in Contract |-> 0]
    /\ wallet = Credits
    /\ bought = [t \in Tx |-> None]
    /\ timer = [c \in Contract |-> None]
    /\ due = FALSE /\ sampled = TRUE
    /\ matchTime = 0
    /\ activations = [c \in Contract |-> 0]
    /\ started = [c \in Contract |-> 0]

DayOf(ticks) == ticks \div DayTicks
Seconds(ticks) == ticks \div SecondTicks

-----------------------------------------------------------------------------
(* Buying and activating *)

Active(c) == entry[c].status \in {"inProgress", "claimable"}
ActiveContracts == {c \in Contract : Active(c)}

EndedThatDay(c, day) == entry[c].status \in {"finished", "expired"} /\ entry[c].day = day

ActivePlaces(c, day) == ActiveContracts
\* Places taken: running contracts and tokens of other offered contracts.
PlacesTaken(c, day) ==
    ActiveContracts \union {d \in OnBoard[day] \ {c} : token[d] > 0}

Eligible(c, day) ==
    /\ c \in OnBoard[day]
    /\ ~Active(c) /\ ~EndedThatDay(c, day)
    /\ Cardinality(PlacesTaken(c, day)) < MaxActive

BoughtAgain(tx) == FALSE
IsReplay(tx) == bought[tx] # None

\* purchase(): a repeated transaction is answered from its receipt, without effect.
Purchase(tx, c) ==
    /\ ~IsReplay(tx)
    /\ Eligible(c, DayOf(now))
    /\ token[c] = 0
    /\ wallet >= Price[c]
    /\ wallet' = wallet - Price[c]
    /\ token' = [token EXCEPT ![c] = 1]
    /\ bought' = [bought EXCEPT ![tx] = c]
    /\ UNCHANGED <<now, playing, entry, clockVars, matchTime, activations, started>>

TokenSpent(c) == [token EXCEPT ![c] = @ - 1]

\* f[x] units of every x: their number is the sum of f.
Units(f) == UNION {{x} \X (1..f[x]) : x \in DOMAIN f}

\* The next revision of the file: a number no earlier activation had.
Generation == Cardinality(Units(activations)) + 1

\* activate_user_contract; `at` is the clock read before the transaction.
\* Repeating it while the contract is active changes nothing.
Activate(c, at) ==
    /\ Eligible(c, DayOf(at))
    /\ Cardinality(ActiveContracts) < MaxActive
    /\ token[c] > 0
    /\ Generation <= MaxActivations
    /\ token' = TokenSpent(c)
    /\ entry' = [entry EXCEPT ![c] = [status |-> "inProgress", day |-> DayOf(at),
            progress |-> 0, usage |-> 0, since |-> Seconds(at), generation |-> Generation]]
    /\ activations' = [activations EXCEPT ![c] = @ + 1]
    /\ started' = [started EXCEPT ![c] = matchTime]
    /\ UNCHANGED <<now, playing, wallet, bought, clockVars, matchTime>>

\* deactivate_user_achievement: the contract is offered again, the token is gone.
Deactivate(c, at) ==
    /\ Active(c)
    /\ entry' = [entry EXCEPT ![c].status = "available", ![c].day = DayOf(at),
            ![c].progress = 0, ![c].usage = 0, ![c].since = 0]
    /\ UNCHANGED <<now, playing, token, wallet, bought, clockVars, matchTime,
                   activations, started>>

\* A matching event.
Score(c) ==
    /\ entry[c].status = "inProgress"
    /\ entry' = [entry EXCEPT ![c].progress = @ + 1,
            ![c].status = IF entry[c].progress + 1 >= Target[c] THEN "claimable" ELSE @]
    /\ UNCHANGED <<now, playing, token, wallet, bought, clockVars, matchTime,
                   activations, started>>

Claim(c) ==
    /\ entry[c].status = "claimable" /\ entry[c].progress >= Target[c]
    /\ entry' = [entry EXCEPT ![c].status = "finished"]
    /\ UNCHANGED <<now, playing, token, wallet, bought, clockVars, matchTime,
                   activations, started>>

-----------------------------------------------------------------------------
(* The clock: hq_contract_clock::tick *)

MatchesByTime(t, e) == e.status = "inProgress" /\ e.since = t.since
\* A timer belongs to one activation.
Matches(t, e) == MatchesByTime(t, e) /\ e.generation = t.generation

Owed(c) == IF timer[c] = None THEN 0 ELSE Seconds(timer[c].pending)

\* Only time between two samples that both saw a match is charged.
SampledTimer(t) ==
    [t EXCEPT !.pending = IF playing /\ t.last # None THEN @ + now - t.last ELSE @,
              !.last = IF playing THEN now ELSE None]

NewTimer(e) ==
    [since |-> e.since, generation |-> e.generation, pending |-> 0,
     last |-> IF playing THEN now ELSE None]

DueWhilePlaying(timers) ==
    playing /\ \E c \in Contract : timers[c] # None /\ Seconds(timers[c].pending) > 0
DueNow(timers) == \E c \in Contract : timers[c] # None /\ Seconds(timers[c].pending) > 0

\* The first half: sample, drop the timers of other activations, start new ones.
Sample ==
    /\ ~due
    /\ timer' = [c \in Contract |->
            IF timer[c] # None /\ Matches(timer[c], entry[c]) THEN SampledTimer(timer[c])
            ELSE IF entry[c].status = "inProgress" THEN NewTimer(entry[c])
            ELSE None]
    /\ due' = DueNow(timer')
    /\ sampled' = TRUE
    /\ UNCHANGED <<now, playing, storeVars, matchTime, activations, started>>

\* The store cannot be read: the timers there are were sampled all the same.
SampleFails ==
    /\ ~due
    /\ timer' = [c \in Contract |-> IF timer[c] = None THEN None ELSE SampledTimer(timer[c])]
    /\ sampled' = TRUE
    /\ UNCHANGED <<now, playing, storeVars, due, matchTime, activations, started>>

\* advance_contract_time
Charged(e, seconds, limit) ==
    IF seconds = 0 THEN e
    ELSE IF e.usage + seconds >= limit
         THEN [e EXCEPT !.usage = limit, !.status = "expired"]
         ELSE [e EXCEPT !.usage = @ + seconds]

FractionForgotten(pending) == 0
FractionKept(pending) == pending - Seconds(pending) * SecondTicks

\* The second half: charge the activations that are still the sampled ones.
Charge ==
    /\ due
    /\ due' = FALSE
    /\ entry' = [c \in Contract |->
            IF timer[c] # None /\ Matches(timer[c], entry[c])
            THEN Charged(entry[c], Owed(c), UsageTarget[c]) ELSE entry[c]]
    /\ timer' = [c \in Contract |->
            IF timer[c] = None THEN None
            ELSE [timer[c] EXCEPT !.pending = FractionKept(@)]]
    /\ UNCHANGED <<now, playing, token, wallet, bought, sampled, matchTime,
                   activations, started>>

\* The economy could not be saved: the time stays with its activation.
ChargeFails ==
    /\ due
    /\ due' = FALSE
    /\ UNCHANGED <<now, playing, storeVars, timer, sampled, matchTime, activations, started>>

-----------------------------------------------------------------------------
(* The game *)

Pass ==
    /\ now < MaxTime
    /\ now' = now + 1
    /\ matchTime' = IF playing THEN matchTime + 1 ELSE matchTime
    /\ UNCHANGED <<playing, storeVars, clockVars, activations, started>>

\* Two matches are further apart than two runs of the callback.
StartMatch ==
    /\ ~playing /\ sampled
    /\ playing' = TRUE
    /\ UNCHANGED <<now, storeVars, clockVars, matchTime, activations, started>>

EndMatch ==
    /\ playing
    /\ playing' = FALSE /\ sampled' = FALSE
    /\ UNCHANGED <<now, storeVars, timer, due, matchTime, activations, started>>

\* The process ends and is started again: the timers are only in memory.
Restart ==
    /\ timer' = [c \in Contract |-> None]
    /\ due' = FALSE /\ playing' = FALSE /\ sampled' = TRUE
    /\ UNCHANGED <<now, storeVars, matchTime, activations, started>>

Next ==
    \/ \E c \in Contract :
        \/ \E tx \in Tx : Purchase(tx, c)
        \/ \E at \in {now, now - 1} \cap Nat : Activate(c, at) \/ Deactivate(c, at)
        \/ Score(c) \/ Claim(c)
    \/ Sample \/ SampleFails \/ Charge \/ ChargeFails
    \/ Pass \/ StartMatch \/ EndMatch \/ Restart

Spec == Init /\ [][Next]_vars

\* The callback runs, and the economy file is neither unreadable nor unwritable
\* for ever.
FairSpec == Spec /\ WF_vars(Sample) /\ SF_vars(Charge)

-----------------------------------------------------------------------------
(* Properties *)

\* What each transaction has cost.
Paid == [t \in Tx |-> IF bought[t] = None THEN 0 ELSE Price[bought[t]]]

\* "abandon needs another paid token": every token paid for is still there or
\* was spent by exactly one activation, and was paid exactly once, whatever
\* purchases and activations are repeated.
TokensAreConserved ==
    /\ \A c \in Contract :
        token[c] + activations[c] = Cardinality({t \in Tx : bought[t] = c})
    /\ wallet + Cardinality(Units(Paid)) = Credits

\* While every contract stays on the board, a token that was sold can be used
\* at once: the places of running contracts and of other tokens leave room.
TokensAreUsable ==
    \A c \in Contract : token[c] > 0 => Eligible(c, DayOf(now))

\* No contract is charged more than the match time since it was activated: not
\* for menus, for a restart, for a failed save twice, nor for the time of an
\* earlier activation of the same contract.
ChargedOnlyPlayTime ==
    \A c \in Contract : entry[c].status = "inProgress" =>
        LET pending == IF timer[c] # None /\ Matches(timer[c], entry[c])
                       THEN timer[c].pending ELSE 0
        IN  entry[c].usage * SecondTicks + pending <= matchTime - started[c]

\* Match time that was sampled is not lost while the process runs, whatever
\* saves fail: what was charged and what is pending only grow together.
SampledTimeKept ==
    [][\A c \in Contract :
        /\ timer[c] # None /\ timer'[c] # None
        /\ Matches(timer[c], entry[c]) /\ Matches(timer'[c], entry'[c])
        /\ timer'[c].generation = timer[c].generation
        => entry'[c].usage * SecondTicks + timer'[c].pending
             >= entry[c].usage * SecondTicks + timer[c].pending]_vars

\* Time that is due is charged, or its activation is over.
DueIsCharged ==
    \A c \in Contract :
        (Owed(c) > 0 /\ Matches(timer[c], entry[c])) ~>
            (timer[c] = None \/ Owed(c) = 0 \/ ~Matches(timer[c], entry[c]))

=============================================================================
