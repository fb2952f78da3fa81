---------------------------- MODULE Headquarters ----------------------------
(***************************************************************************)
(* The player's purse and inventory in the Headquarters: the vendor, the   *)
(* spare copies the game pawns, supply drops, consumables, the mailbox and *)
(* the payroll officer (hq_marketplace.cpp, hq_vendor.hpp, hq_mail.hpp,    *)
(* hq_payroll.hpp, open_supply_drop of achievement_engine.cpp), and the    *)
(* copying of the result into the game's own caches (hq_native.cpp).       *)
(*                                                                         *)
(* Every handler is one transaction of the economy store (EconomyStore),   *)
(* which the game may repeat: its answer can be lost, its save can fail.   *)
(* The game itself is external: what it asks it reads from its caches,     *)
(* which are copies of a copy of the store.                                *)
(***************************************************************************)
EXTENDS Integers, Sequences, FiniteSets

CONSTANTS Row,        \* items, by GUID; all rows are of collision 0
          Sold,       \* rows with a vendor SKU
          Stackable,  \* sold, or rolled, however many are owned: drops, Zombies consumables
          Drop,       \* supply drops
          Rolls,      \* what the cards of a drop can be
          Uniform,    \* "Any"-division uniforms, pawned by a conversion rule
          Prize,      \* rewards of completed collections
          Credit,     \* duplicate_credit of each row, 0: none
          Price,
          Mail, MailCredits, MailItems,   \* deliveries of the mailbox
          Salary,     \* payroll_amount
          Period,     \* four hours, in ticks
          StartCredits, StartCopies,
          MaxAsked, MaxTime, MaxFaults,   \* bounds
          None

ASSUME HeadquartersAssumption ==
    /\ IsFiniteSet(Row) /\ IsFiniteSet(Mail)
    /\ {Sold, Stackable, Uniform} \subseteq SUBSET Row /\ Drop \subseteq Stackable
    /\ Rolls \subseteq Seq(Row \ Prize)
    /\ Prize \subseteq Row \ (Sold \union Uniform \union Stackable)
    /\ Credit \in [Row -> Nat] /\ \A r \in Stackable \union Prize : Credit[r] = 0
    /\ Price \in [Sold -> Nat]
    /\ MailCredits \in [Mail -> Nat] /\ MailItems \in [Mail -> SUBSET (Row \ Prize)]
    /\ {Salary, StartCredits, MaxAsked, MaxTime, MaxFaults} \subseteq Nat
    /\ Period \in Nat \ {0}
    /\ StartCopies \in [Row -> Nat] /\ \A r \in Prize : StartCopies[r] = 0
    /\ None \notin Nat

VARIABLES
    store,      \* the file: revision, credits, copies, receipts, payday
    cached,     \* this process's parsed copy
    ready,      \* the game has fetched its wallet and inventory
    wallet,     \* the game's wallet
    held,       \* the game's inventory: copies of each row
    inbox,      \* the deliveries in the game's mail slots
    calls,      \* requests of the game, until it has seen an answer
    asked,      \* requests made; numbers the transactions
    now,
    desk,       \* where the player stands: at the vendor or at the post
    notification,   \* hq_payroll::notification
    inHand,     \* the push that sync_wallet has swapped out
    faults,     \* answers lost, transactions of other instances, restarts
    \* history
    heldAt,     \* the revision that `held` shows
    putBack,    \* copies that puts have added to the store
    accepted,   \* the pickup that was accepted last
    heard       \* the pickup whose completion the game heard of last

place == <<desk, now>>
caches == <<ready, wallet, held, inbox, heldAt>>
kiosk == <<notification, inHand, accepted, heard>>
vars == <<place, store, cached, caches, calls, asked, kiosk, faults, putBack>>

Copies == [Row -> Nat]
Push == 0..MaxAsked \union {None}
Spares == UNION {[rows -> Nat] : rows \in SUBSET Row}

\* What the store remembers of a transaction, and what the game may ask for.
Receipt ==
    [kind : {"purchase"}, tx : Nat, what : Sold]
    \union [kind : {"pawn"}, tx : Nat, items : Spares]
    \union [kind : {"consume"}, tx : Nat, what : Row, count : Nat]
    \union [kind : {"drop"}, tx : Nat, what : Drop, cards : Rolls]
    \union [kind : {"mail"}, what : Mail]
    \union [kind : {"payroll"}, tx : Nat]
Call ==
    [kind : {"purchase"}, tx : Nat, what : Sold]
    \union [kind : {"pawn"}, tx : Nat, items : Spares]
    \union [kind : {"convert"}, tx : Nat, what : Uniform, count : Nat]
    \union [kind : {"redeem"}, tx : Nat, what : Prize]
    \union [kind : {"consume"}, tx : Nat, what : Stackable, count : Nat]
    \union [kind : {"drop"}, tx : Nat, what : Drop]
    \union [kind : {"put"}, tx : Nat, items : Copies, seen : Nat]
    \union [kind : {"pickup"}, tx : 0..MaxAsked, at : Nat]
Store == [revision : Nat, credits : Nat, copies : Copies, receipts : SUBSET Receipt,
          payday : Nat \union {None}]

TypeOK ==
    /\ store \in Store /\ IsFiniteSet(store.receipts)
    /\ cached \in Store \union {None}
    /\ calls \subseteq Call
    /\ ready \in BOOLEAN /\ wallet \in Nat /\ held \in Copies /\ inbox \subseteq Mail
    /\ asked \in 0..MaxAsked /\ now \in 0..MaxTime
    /\ {notification, inHand, accepted, heard} \subseteq Push
    /\ heldAt \in Nat /\ putBack \in [Row -> Int]
    /\ faults \in 0..MaxFaults

Init ==
    /\ store = [revision |-> 0, credits |-> StartCredits, copies |-> StartCopies,
                receipts |-> {}, payday |-> None]
    /\ cached = None
    /\ ready = FALSE /\ wallet = 0 /\ held = [r \in Row |-> 0] /\ inbox = {} /\ heldAt = 0
    /\ calls = {} /\ asked = 0 /\ now = 0
    /\ desk \in {"vendor", "post"}
    /\ notification = None /\ inHand = None
    /\ accepted = None /\ heard = None
    /\ faults = 0
    /\ putBack = [r \in Row |-> 0]

-----------------------------------------------------------------------------
(* The sum of the values of f, which may be negative, on a finite domain:  *)
(* the units of its values are counted.                                    *)

Units(f) == UNION {{x} \X (1..f[x]) : x \in DOMAIN f}
Negative(f) == [x \in DOMAIN f |-> -f[x]]
Total(f) == Cardinality(Units(f)) - Cardinality(Units(Negative(f)))

-----------------------------------------------------------------------------
(* What a request makes of the store: the set of possible results, none if *)
(* it is refused.                                                          *)

Granted(copies, rows) == [r \in Row |-> IF r \in rows THEN copies[r] + 1 ELSE copies[r]]

NeverPrior(s, q) == {}
\* The receipt under the request's transaction, if any.
Prior(s, q) == {p \in s.receipts : p.kind = q.kind /\ p.tx = q.tx}
\* A request with a receipt is answered from it, one that contradicts it refused.
Replayed(s, q) == IF q \in s.receipts THEN {s} ELSE {}

Purchased(s, q) ==
    CASE Prior(s, q) # {} -> Replayed(s, q)
      [] q.what \notin Stackable /\ s.copies[q.what] > 0 -> {}
      [] s.credits < Price[q.what] -> {}
      [] OTHER -> {[s EXCEPT !.credits = @ - Price[q.what], !.copies = Granted(@, {q.what}),
                             !.receipts = @ \union {q}]}

\* Records that cannot be paid are skipped; the last copy is never taken.
Payable(s, items) == {r \in DOMAIN items : Credit[r] > 0 /\ s.copies[r] > items[r]}
PaidFor(s, items) == Total([r \in Payable(s, items) |-> items[r] * Credit[r]])

Pawned(s, q) ==
    CASE Prior(s, q) # {} -> Replayed(s, q)
      [] Payable(s, q.items) = {} -> {}
      [] OTHER -> {[s EXCEPT !.credits = @ + PaidFor(s, q.items),
                             !.copies = [r \in Row |-> IF r \in Payable(s, q.items)
                                                       THEN @[r] - q.items[r] ELSE @[r]],
                             !.receipts = @ \union {q}]}

\* The rule of a uniform; it leaves no receipt.
Converted(s, q) ==
    IF Credit[q.what] = 0 \/ s.copies[q.what] <= q.count THEN {}
    ELSE {[s EXCEPT !.copies[q.what] = @ - q.count, !.credits = @ + q.count * Credit[q.what]]}

\* The rule of a collection: owning the reward makes a repetition succeed.
Redeemed(s, q) ==
    IF s.copies[q.what] > 0 THEN {s} ELSE {[s EXCEPT !.copies = Granted(@, {q.what})]}

Consumed(s, q) ==
    CASE Prior(s, q) # {} -> Replayed(s, q)
      [] s.copies[q.what] < q.count -> {}
      [] OTHER -> {[s EXCEPT !.copies[q.what] = @ - q.count, !.receipts = @ \union {q}]}

\* The cards that are owned already when they are turned over, the earlier ones
\* of the drop included.  They are converted, unless they stack.
Duplicates(s, cards) ==
    {i \in DOMAIN cards : /\ cards[i] \notin Stackable
                          /\ s.copies[cards[i]] > 0 \/ \E j \in 1..i - 1 : cards[j] = cards[i]}
New(s, cards, r) == {i \in DOMAIN cards \ Duplicates(s, cards) : cards[i] = r}
Dealt(s, cards) ==
    [s EXCEPT !.credits = @ + Total([i \in Duplicates(s, cards) |-> Credit[cards[i]]]),
              !.copies = [r \in Row |-> @[r] + Cardinality(New(s, cards, r))]]

Opened(s, q) ==
    CASE Prior(s, q) # {} -> {s}
      [] s.copies[q.what] = 0 -> {}
      [] OTHER -> {[Dealt([s EXCEPT !.copies[q.what] = @ - 1], cards)
                       EXCEPT !.receipts = @ \union {[kind |-> "drop", tx |-> q.tx, what |-> q.what,
                                                      cards |-> cards]}] : cards \in Rolls}

\* The quantities that the game's cache held when the request was made.
Put(s, q) == {[s EXCEPT !.copies = q.items]}

Delivery(m) == [kind |-> "mail", what |-> m]
Delivered(s, m) ==
    IF Delivery(m) \in s.receipts THEN s
    ELSE [s EXCEPT !.credits = @ + MailCredits[m], !.copies = Granted(@, MailItems[m]),
                   !.receipts = @ \union {Delivery(m)}]

-----------------------------------------------------------------------------
(* Payroll: settle() *)

PeriodOf(at) == at \div Period
Stamp(at) == [kind |-> "payroll", tx |-> PeriodOf(at)]
\* Four hours since the last completion, both now and when the officer was visited.
Cooling(s, at) == s.payday # None /\ (now - s.payday < Period \/ at - s.payday < Period)

Stale(at) == PeriodOf(at) # PeriodOf(now)
Settled(s, at) ==
    IF Stale(at) \/ Stamp(at) \in s.receipts \/ Cooling(s, at) THEN s
    ELSE [s EXCEPT !.credits = @ + Salary, !.payday = now, !.receipts = @ \union {Stamp(at)}]

-----------------------------------------------------------------------------
(* Transactions *)

Look == IF cached = None THEN store ELSE cached

Commit(s) ==
    /\ store' = IF s = store THEN s ELSE [s EXCEPT !.revision = @ + 1]
    /\ cached' = store'

Fault == faults < MaxFaults /\ faults' = faults + 1

\* A purchase is made by one task of the main thread and nothing retries a
\* consumption.  The others the game repeats when it has seen no answer.
Retried == {"pawn", "convert", "redeem", "drop", "pickup"}
Answered(q) == \/ calls' = calls \ {q} /\ faults' = faults
               \/ q.kind \in Retried /\ calls' = calls /\ Fault

Handle(q, results) ==
    /\ q \in calls
    /\ \/ \E s \in results : Commit(s)
       \/ results = {} /\ UNCHANGED <<store, cached>>
    /\ Answered(q)

\* What sync_inventory leaves in the game's inventory: absolute quantities.
HeldAfterOwned(s) == [r \in Row |-> IF s.copies[r] > 0 THEN s.copies[r] ELSE held[r]]
HeldAfter(s) == s.copies

\* sync_wallet and sync_inventory at the end of a handler.
ShowIfReady(s) ==
    IF ready THEN wallet' = s.credits /\ held' = HeldAfter(s) /\ heldAt' = s.revision
    ELSE UNCHANGED <<wallet, held, heldAt>>

\* sync_wallet, purchases, the mail and the native callbacks share the main thread.
MainThreadFree == inHand = None

-----------------------------------------------------------------------------
(* Requests of the game.  Each is numbered by a fresh ClientTx. *)

Ask(q) ==
    /\ asked < MaxAsked
    /\ calls' = calls \union {q} /\ asked' = asked + 1
    /\ UNCHANGED <<store, cached, caches, place, kiosk, faults, putBack>>

Spare(r) == ready /\ held[r] > 1 /\ Credit[r] > 0

AskPurchase == ready /\ \E r \in Sold : Ask([kind |-> "purchase", tx |-> asked, what |-> r])
\* The duplicate pump counts the spare copies in the game's inventory.
AskPawn ==
    LET spares == {r \in Row \ Uniform : Spare(r)}
    IN  /\ spares # {}
        /\ Ask([kind |-> "pawn", tx |-> asked, items |-> [r \in spares |-> held[r] - 1]])
AskConvert ==
    \E r \in {u \in Uniform : Spare(u)} :
        Ask([kind |-> "convert", tx |-> asked, what |-> r, count |-> held[r] - 1])
AskRedeem == \E r \in Prize : Ask([kind |-> "redeem", tx |-> asked, what |-> r])
AskConsume ==
    \E r \in Stackable \ Drop : held[r] > 0 /\ Ask([kind |-> "consume", tx |-> asked, what |-> r, count |-> 1])
AskOpen == \E r \in Drop : held[r] > 0 /\ Ask([kind |-> "drop", tx |-> asked, what |-> r])
AskPut == ready /\ Ask([kind |-> "put", tx |-> asked, items |-> held, seen |-> heldAt])
Visit == Ask([kind |-> "pickup", tx |-> asked, at |-> now])

\* The pawn queue repeats an unanswered request under a new transaction.
Requeue(q) ==
    /\ q \in calls /\ q.kind = "pawn" /\ asked < MaxAsked
    /\ calls' = (calls \ {q}) \union {[q EXCEPT !.tx = asked]} /\ asked' = asked + 1
    /\ UNCHANGED <<store, cached, caches, place, kiosk, faults, putBack>>

\* An error other than a refusal, such as a failed save: nothing has changed.
Fails(q) ==
    /\ q \in calls /\ calls' = calls \ {q}
    /\ UNCHANGED <<store, cached, caches, asked, place, kiosk, faults, putBack>>

-----------------------------------------------------------------------------
(* Handlers *)

\* Runs on the main thread and shows its result before it completes.
Purchase(q) ==
    /\ q.kind = "purchase" /\ MainThreadFree
    /\ Handle(q, Purchased(store, q))
    /\ IF Purchased(store, q) # {} THEN ShowIfReady(store') ELSE UNCHANGED <<wallet, held, heldAt>>
    /\ UNCHANGED <<ready, inbox, asked, place, kiosk, putBack>>

Pawn(q) ==
    /\ q.kind = "pawn"
    /\ Handle(q, Pawned(store, q))
    /\ UNCHANGED <<caches, asked, place, kiosk, putBack>>

ApplyRule(q) ==
    /\ \/ q.kind = "convert" /\ Handle(q, Converted(store, q))
       \/ q.kind = "redeem" /\ Handle(q, Redeemed(store, q))
    /\ UNCHANGED <<caches, asked, place, kiosk, putBack>>

Consume(q) ==
    /\ q.kind = "consume"
    /\ Handle(q, Consumed(store, q))
    /\ UNCHANGED <<caches, asked, place, kiosk, putBack>>

OpenDrop(q) ==
    /\ q.kind = "drop"
    /\ Handle(q, Opened(store, q))
    /\ UNCHANGED <<caches, asked, place, kiosk, putBack>>

PutItems(q) ==
    /\ q.kind = "put"
    /\ Handle(q, Put(store, q))
    /\ putBack' = [r \in Row |-> putBack[r] + q.items[r] - store.copies[r]]
    /\ UNCHANGED <<caches, asked, place, kiosk>>

\* An accepted pickup, paid or not, publishes a completion once it is saved.
PickUp(q) ==
    /\ q.kind = "pickup"
    /\ Handle(q, {Settled(store, q.at)})
    /\ IF Stale(q.at) THEN UNCHANGED <<notification, accepted>>
       ELSE notification' = q.tx /\ accepted' = q.tx
    /\ UNCHANGED <<caches, asked, place, inHand, heard, putBack>>

\* redeem_slot: the slot is cleared only when the store has the receipt.
RedeemMail(m) ==
    /\ m \in inbox /\ MainThreadFree
    /\ Commit(Delivered(store, m))
    /\ inbox' = inbox \ {m}
    /\ UNCHANGED <<ready, wallet, held, heldAt, calls, asked, place, kiosk, faults, putBack>>

-----------------------------------------------------------------------------
(* The main thread's loops and the game's own fetches *)

\* getBalance, getInventoryPaginated and getMessages answer from the snapshot.
Fetch ==
    /\ ~ready /\ MainThreadFree
    /\ ready' = TRUE /\ wallet' = Look.credits /\ held' = Look.copies /\ heldAt' = Look.revision
    /\ inbox' = {m \in Mail : Delivery(m) \notin Look.receipts}
    /\ cached' = Look
    /\ UNCHANGED <<store, calls, asked, place, kiosk, faults, putBack>>

SyncInventory ==
    /\ ready /\ MainThreadFree
    /\ held' = HeldAfter(Look) /\ heldAt' = Look.revision /\ cached' = Look
    /\ UNCHANGED <<store, ready, wallet, inbox, calls, asked, place, kiosk, faults, putBack>>

\* sync_wallet swaps the notification out; the transport may publish another
\* before it is delivered or put back.
TakePush ==
    /\ ready /\ MainThreadFree /\ notification # None
    /\ inHand' = notification /\ notification' = None
    /\ UNCHANGED <<store, cached, caches, calls, asked, place, accepted, heard,
                   faults, putBack>>

ShowWallet ==
    /\ wallet' = Look.credits /\ cached' = Look
    /\ UNCHANGED <<store, ready, held, inbox, heldAt, calls, asked, place, accepted,
                   faults, putBack>>

DeliverPush ==
    /\ inHand # None
    /\ heard' = inHand /\ inHand' = None /\ UNCHANGED notification
    /\ ShowWallet

PutBackAlways == inHand
PutBackOlder == IF notification = None THEN inHand ELSE notification
RequeuePush ==
    /\ inHand # None
    /\ notification' = PutBackOlder /\ inHand' = None /\ UNCHANGED heard
    /\ ShowWallet

SyncWallet ==
    /\ ready /\ MainThreadFree /\ notification = None
    /\ UNCHANGED <<notification, inHand, heard>>
    /\ ShowWallet

-----------------------------------------------------------------------------
(* The surroundings *)

Tick ==
    /\ now < MaxTime /\ now' = now + 1
    /\ UNCHANGED <<desk, store, cached, caches, calls, asked, kiosk, faults, putBack>>

\* Another instance of the game on the same file.
Elsewhere ==
    /\ Fault
    /\ \E s \in {Delivered(store, m) : m \in Mail} \union
                UNION {Purchased(store, [kind |-> "purchase", tx |-> MaxAsked + faults, what |-> r]) : r \in Sold} :
           s # store /\ store' = [s EXCEPT !.revision = @ + 1]
    /\ UNCHANGED <<cached, caches, calls, asked, place, kiosk, putBack>>

Restart ==
    /\ Fault
    /\ cached' = None /\ calls' = {}
    /\ ready' = FALSE /\ wallet' = 0 /\ held' = [r \in Row |-> 0] /\ heldAt' = 0 /\ inbox' = {}
    /\ notification' = None /\ inHand' = None /\ accepted' = None /\ heard' = None
    /\ UNCHANGED <<store, asked, place, putBack>>

AtTheVendor ==
    desk = "vendor" /\ (AskPurchase \/ AskPawn \/ AskConvert \/ AskRedeem \/ AskConsume \/ AskOpen \/ AskPut)
AtThePost == desk = "post" /\ (Visit \/ Tick \/ \E m \in Mail : RedeemMail(m))

Next ==
    \/ AtTheVendor \/ AtThePost
    \/ \E q \in calls :
        \/ Purchase(q) \/ Pawn(q) \/ ApplyRule(q) \/ Consume(q) \/ OpenDrop(q) \/ PutItems(q) \/ PickUp(q)
        \/ Requeue(q) \/ Fails(q)
    \/ Fetch \/ SyncInventory \/ TakePush \/ DeliverPush \/ RequeuePush \/ SyncWallet
    \/ Elsewhere \/ Restart

Spec == Init /\ [][Next]_vars

\* The loops run every 100 ms, the game fetches what it shows and signs in, and
\* a push that can be handed over again and again is at some time.
FairSpec ==
    /\ Spec
    /\ WF_vars(Fetch) /\ WF_vars(SyncInventory) /\ WF_vars(SyncWallet)
    /\ WF_vars(TakePush) /\ WF_vars(RequeuePush) /\ SF_vars(DeliverPush)

-----------------------------------------------------------------------------
(* Properties *)

\* What a receipt is worth: in credits, a copy at its pawn value; and in copies
\* of a row that stacks and has none.
Worth(p) ==
    CASE p.kind = "purchase" -> Credit[p.what] - Price[p.what]
      [] p.kind = "drop" -> Total([i \in DOMAIN p.cards |-> Credit[p.cards[i]]])
      [] p.kind = "mail" -> MailCredits[p.what] + Total([r \in MailItems[p.what] |-> Credit[r]])
      [] p.kind = "payroll" -> Salary
      [] OTHER -> 0

Brought(p, r) ==
    CASE p.kind = "purchase" -> IF p.what = r THEN 1 ELSE 0
      [] p.kind = "drop" -> Cardinality({i \in DOMAIN p.cards : p.cards[i] = r}) - (IF p.what = r THEN 1 ELSE 0)
      [] p.kind = "mail" -> IF r \in MailItems[p.what] THEN 1 ELSE 0
      [] p.kind = "consume" -> IF p.what = r THEN -p.count ELSE 0
      [] OTHER -> 0

WorthOf(copies) == Total([r \in Row |-> Credit[r] * copies[r]])

\* Whatever is repeated, lost, refused or done by another instance: the purse
\* and the inventory are what the receipts say and nothing else, each of them
\* counted once.  Pawning, converting and duplicate cards change copies into
\* exactly their value.  (The copies that puts brought are counted apart.)
WealthIsAccounted ==
    /\ store.credits + WorthOf(store.copies) =
          StartCredits + WorthOf(StartCopies) + WorthOf(putBack)
            + Total([p \in store.receipts |-> Worth(p)])
    /\ \A r \in Stackable :
          store.copies[r] = StartCopies[r] + putBack[r]
              + Total([p \in store.receipts |-> Brought(p, r)])

\* hq_marketplace.cpp put(): the game writes back the quantities it holds.  When
\* nothing was saved since its inventory was brought up to date, that changes
\* nothing: no spent copy comes back, no bought one disappears.
PutOfCurrentChangesNothing ==
    [][\A q \in calls : q.kind = "put" /\ q.seen = store.revision /\ PutItems(q)
            => store'.copies = store.copies]_vars

\* The game's wallet and inventory come to show this process's view of the store,
\* and the kiosk's banner is cancelled: the game hears of the last accepted
\* pickup, whatever was published, superseded or put back meanwhile.
GameCatchesUp ==
    /\ []<>(wallet = Look.credits /\ held = Look.copies)
    /\ []<>(heard = accepted)
=============================================================================
