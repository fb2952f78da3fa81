# S2x: models, checks and proofs

S2x is a client and dedicated server for a 2017 game: a library (`src/client`)
that is loaded into the game's process, hooks its functions and replaces the
publisher's online services by local ones. This directory holds TLA+ modules of
the parts of S2x that have protocols of their own, TLC configurations that check
them on small instances, and proofs for instances of any size: every safety
property that a run checks is also a theorem.

Paths below are relative to `src/src/client` unless they say otherwise; *dw* is
`game/demonware`. `PROJECT.json` maps every definition to the lines it models.

## 1. The system

| Part | State it keeps | Operations | Talks to |
|---|---|---|---|
| **Economy store** (dw/hq_economy) | one JSON file shared by all game instances of the machine; per process a parsed copy under a mutex; a lock file | `snapshot`, `transact` (load, migrate, mutate, write, rename), `invalidate` | every operation on balances, items, orders |
| **Orders** (dw/achievement_engine, component/achievement_injection) | offers, accepted orders, progress, event receipts, claims, weekly or daily bonus, all in the store | `dispatch` of fetch, activate, deactivate, claim; `apply_event` | called on the game thread (injection hook) and on the transport thread (glutton server) |
| **Contracts** (dw/hq_contract_clock, hq_marketplace, component/hq_economy) | purchased tokens and running contracts in the store; per process a timer for each running one | purchase, activate, abandon, score, claim, `tick` | the match state, sampled once in a while |
| **Event relay** (dw/hq_relay_queue, hq_event_relay, component/hidden_challenge_relay, dw/services/bdReward) | server: queue with reservations; client: partial event, queue, batch | `push_batch`, `take`, `accept`, batch commits, shutdown | game scripts, the engine's reliable commands, the remote player's economy |
| **Dedicated lobby** (component/dedicated_party, dedicated) | lifecycle stage, rotation, override, vote, preview, selection number | `run_lifecycle` once a frame; `map`, `map_rotate`, scripts' votes, launch hook | the engine's party and server |
| **Client connection** (component/party, dedicated_party_client) | attempt number, pending query and challenge, tasks, pending join, hosted lobby | `connect`, `reconnect`, browser, `s2x_infoResponse`, tasks, engine's party set-up | servers over UDP, the engine |
| **Hosted lobby** (component/dedicated_party_client) | match known, match shown, armed query | `partystate`, `go`, sync answers | the dedicated lobby |
| **Administration pipe** (component/server_admin) | requests with a deadline, answers by request id, roster tokens | players, announce, warn, kick | Server Manager, server frames, scripts |
| **Headquarters** (dw/hq_marketplace, hq_vendor, hq_mail, hq_payroll, services/bdMarketplace, component/hq_native, mail_guard) | purse, inventory and receipts in the store; mail slots; one completion notification; the game's own copies of purse and inventory | purchase, pawn, convert, redeem, consume, open a drop, put, settle a salary, redeem mail; the synchronising loops | game client, store, kiosk |
| Achievement records (dw/achievement_store) | monotone records, refresh bit | merge, refresh | zombies hidden challenges |
| Server browser, master server | list and queries, cached address | refresh, sort, heartbeat | UDP |
| **Server Manager** (C#, `tools/ServerManager`, and `tools/server-launcher.ps1`) | claims of ports, pid files, ownership records, cards | start, script, stop, restart, delete, poll | processes, pipe |
| **Updater** (updater, component/updater) | the executable, its `.old` predecessor, data files, a global mutex | clean up, rename, download, restore, relaunch | HTTP, other instances |
| Scheduler | task lists per pipeline | once, loop | everyone |

The remaining parts (transport and cryptography of the local services, script
and UI bridges, console, engine patches, arxan, Steam stubs, launcher, common
libraries) are listed with the reason in `PROJECT.json`.

What is hard here: several game instances write one file; requests are repeated
by the game's retry queues under the same or another transaction; the process may
end at any point; two threads enter the same dispatcher; reward events cross a
network channel in fragments and clients come and go; the dedicated lobby waits
for an engine that it cannot make answer; a client's connection is spread over
several frames, with a user who changes his mind in between; the game decides on
copies of copies of the store; processes end, and their ids are used again, while
tasks act on them; an executable is replaced while it runs. Section 6 of this
file, and "hazards" in `PROJECT.json`, say where each bites and what checks it.

What makes each part correct, in a sentence: the *store* applies each receipted
request once and keeps it; *orders* pay each activation once and count only what
was earned; *contracts* spend each token once and charge only match time; the
*relay* accepts a request whole or not at all and delivers in order, at most once;
the *dedicated lobby* plays what it announced and never hangs; the *connection*
leads to the server the user asked for last, once; the *hosted lobby* shows the
match that is played; the *administration pipe* answers what happened, acts once
per request and only on the connection that was listed; in the *Headquarters*
purse and inventory are what the receipts say, and the game's copies catch up; the
*Server Manager* starts one server per port, takes no process for one it is not,
and its cards come to tell the truth; the *updater* leaves an installation that
fits together, and the game runs what is installed.

## 2. Modules

Every module models whole handlers, one action each. Formatting, parsing and
logging are left out. Numbers are kept only where a limit matters.

**Ledger** is the abstract specification of the store: requests, the effects
applied, the acknowledgements of each process.

**EconomyStore** has processes with threads, the mutex of each process, the lock
file, the file, the temporary file and the cached copies. `transact` is `Begin`
(lock and load), then `Refuse`, `AnswerUnchanged` or `Change`, then `Write`,
`Publish` (rename) and `Finish`, with `SaveFails`, `RevisionExhausted` and
`Unavailable` on the way, so that a `Crash` or another instance may come between
any two. `snapshot` is `SnapshotHit` or the same path without a request. A
request is a receipt key; its effect is a counter, which would show a second
application. What callers were told is done is kept for each process (`acked`),
beside the copy that this process reads. The one-time migrations are one more receipted request.
The mutation is the rule that all callers share (`Credited`: receipt present,
no effect); what each caller adds is in the other modules.

**EventRelay** has the server's queue with its two limits and its reservations
(`Reserve`, `StoreLocal`, `Publish` are the three steps of `push_batch`, the
middle one being the local commit, which may fail), `Frame` (discard, select and
send), the channel, and the client (`Deliver`, `TakeBatch`, `CommitBatch`,
`CommitFails`). `StopAccepting` and `Clear` are the two steps of `pre_destroy`.
Disconnects, restarts, reconnections and map changes are the engine's, bounded by
`MaxDisturbances`. A queued event is represented by the fragments it has still
to send. Sums and lists of events are written without recursion, so that they can be
reasoned about: `Weight` counts the units of a set, `ChunksOf` and `Applicable` name
each entry by the number of units before it. An assumption of `MCEventRelay` has TLC
compare them with the forms that concatenate and filter (`ListsAreAsMeant`).
InOrderOnce and NothingLostWithoutCause compare lists by what is in them and which
entry is before which (`ToSet`, `Pairs`).

**Orders** has `dispatch` in two steps, as the code has: the reconciliation, with
its own transaction and the day it was called on, and the operation on what the
store holds by then. `overlapping` is chosen at the start of a behaviour: the
calls of the threads in `Caller` overlap, or follow one another. `Apply` is
`apply_event`; events carry the time they happened and may come late and again.
`BonusOn` and `BonusAfterClaim` are the completion bonus. The offers that fill the
free places are the first of the rotation (`FirstOf`), counted instead of filtered.

**Contracts** has purchase and activation of tokens, and the clock: `Sample`
and `Charge` are the two halves of `tick()`, the snapshot and the transaction,
between which a contract may be abandoned and bought again; `ChargeFails` is a
failed save; `SampleFails` is a store that cannot be read after the timers were
sampled; `Restart` loses the timers and keeps the store.

**Headquarters** has the operations on purse and inventory as functions from a
store and a request to the possible results (`Purchased`, `Pawned`, `Converted`,
`Redeemed`, `Consumed`, `Opened`, `Put`, `Delivered`, `Settled`), each one
transaction of the store. The game is external: it asks on what its own copies say
(`Spare`, `AskPut`), repeats what it has no answer for (`Requeue`, `Answered`)
and fetches at sign-in. `SyncWallet`, `SyncInventory`, `TakePush` and the other
steps of the main thread copy the store into the game's caches and hand over the
payroll's notification, which `sync_wallet` swaps out while the transport may
publish the next. The player stands at the vendor's or at the post office: the two
share the store, not requests. `Total`, the sum that the account is made of, counts
units and is not recursive, and the cards of a drop are dealt at once (`Duplicates`,
`New`, `Dealt`) instead of one by one; assumptions of `MCHeadquarters` have TLC compare
both with the folds that the code performs (`TotalSums`, `DealtOneByOne`).

**DedicatedParty** has the stages of `run_lifecycle` as actions, each with the
condition of the code, `Fail` for any time limit, the choice of the next match
(`Chosen`, `TakeNext`), the commands and the launch hook (`LaunchSettings`). The
engine's party, playlist and server are external actions that may come late,
early or never. The mode of the process, Multiplayer or Zombies, is a variable that
no step changes.

**Connection** has the entry points that change the attempt, the query with its
challenge, the answer, and the scheduled tasks as a set from which any may run:
more orders than the scheduler produces, so what holds here holds there. The
engine's `PartyAtomic` join calls `SetupPotentialHost` in its own time. A
challenge is identified with the attempt that drew it, since an attempt draws at
most one: this takes 64 random bits as never repeating.

**HostedLobby** is the client's view of what DedicatedParty selects, with the go
message, the partystates and the sync queries. The server's half is abstract: what a
client can observe is the number of the selection and a phase (intermission,
countdown, match, results, over), with `LaunchFails` and `ServerEnds` for a match
that does not come about. The client may lack the map or the gametype of a
selection (`Lacking`): go message and answer then change nothing of what it shows.
The module assumes that an answer does not arrive later than one
intermission after it was sent (60 s by default), and that go messages, being
reliable, are not overtaken.

**LobbySession** puts the two together: the stages of DedicatedParty with a client
that learns `sequence` and `stage` as `Told` and `Phase`. It is there to be proved
about: HostedLobby's server is what DedicatedParty shows.

**ServerAdmin** has the pipe's worker thread (`Dispatch`, then `TakeReply`, or
`GiveUp` and one of `TakeLateReply`, `ResultUnknown`, `Expired`) and the callback
on the server's frame as the steps between which the worker may act:
`StartCallback` (the deadline is read), `BeginWork` (the compare-exchange), the
operation, `Complete`. The reply is visible before the state says so, as in the
code. Tokens are random in the code and here are the roster and slot they were
made for; a client can send only tokens it was sent. Connections, map changes and
the passing of time are external.

**Fleet** has the Manager's tasks, each a chain of steps between which other
tasks, the poll and processes act: `Claim`, `StartScan`, `Launch` (or `RunScript` and
`Find`), `WritePid`, `Validate` and `Register` for a start; `Look`, `Kill` and `DropPid` for a
stop, which a restart continues; `DeleteScan` and `DeleteFiles`. The editor saves
before it restarts, so `ClickRestart` may stop the server of one port and start the
preset on another, while the card shows the old port until a poll tells it
(`cards`). A poll is `PollScan` (the cards' ports, then the processes), `PollHears`
for a server that answers in time, and `Apply`, which reads the pid files. Processes carry when and by whom they were created; Windows
gives the ids of ended ones to others. The PowerShell launcher works on the same pid
files without claims.

**Updater** has the steps of `update()` that every instance takes at its start
(`Lock`, `Cleanup`, `Plan`, `Rename`, `FetchExe` or `Restore`, `Relaunch`,
`UpdateFile`, `Done`), with a failure of each, a user who cancels and a death at any
moment. An image stays with its file when that is renamed, and a file with a
running image is neither deleted nor replaced: `image` is the name that the
instance's file has today. A relaunched instance takes the place of the one that
ends, which leaves the mutex abandoned.

`MC*.tla` give the constants of small instances. `*Proofs.tla` hold the theorems
(section 7), each beside the inductive invariant and the lemmas it needs. LobbyProofs
is about DedicatedParty, HostedLobby, LobbySession and Connection, and
ServerManagerProofs about ServerAdmin and Fleet; in modules that share a proof module
the specification carries the module's name (HostedSpec, ConnectionSpec, FleetSpec).

## 3. Runs

All bounds are constants of the configurations.

| Run | Instance | What it shows |
|---|---|---|
| `store` | 2 processes, one with 2 threads, 3 requests, 3 revisions and receipts, any crash | ReadsOwnWork, AckedIsDurable, ReadsNeverGoBack; EconomyStore implements Ledger |
| `relay` | 2 remote players and the local one, 3 requests, 4 events of one or two fragments, room for 3 events, a disturbance, fairness | RoomIsAccounted, AllOrNothing, InOrderOnce, NothingLostWithoutCause, EventuallyHandled |
| `orders` | 3 orders on 2 places, 2 events, 2 transactions, 2 callers that overlap or do not, 3 days in periods of 2, 3 activations | PaidOnce, CarriedKept; without overlaps OffersWithinLimit, ProgressWasEarned, OncePerPeriod, BonusMatchesClaims |
| `contracts` | 2 contracts, 1 place, 2 purchases, 2 activations, ticks of half a second, failed reads and saves, restarts, fairness | TokensAreConserved, TokensAreUsable, ChargedOnlyPlayTime, SampledTimeKept, DueIsCharged |
| `headquarters` | any 3 requests of the game, one fault (a lost answer, another instance's transaction or a restart), 3 ticks of a period of 2, fairness | WealthIsAccounted, PutOfCurrentChangesNothing, GameCatchesUp |
| `dedicated` | rotation a, b, a, b, either mode, 3 selections, fairness | LaunchedIsSelected, PreviewIsNext, RotationMovesOneSlot, VotedNotRepeated, NoStageHangs |
| `connection` | 2 servers with a session each, 2 attempts | ConnectsWhereAsked, ConnectsOncePerAttempt |
| `hosted_lobby` | 4 selections, the third of which the client lacks, 3 queries | ShownIsPlayed |
| `hosted_lobby_next` | 3 selections, 2 queries | finds AsksUntilNextSelection violated (section 5) |
| `server_admin` | 5 requests, 3 dispatches, one slot for 2 players and a bot, room for one callback and one remembered answer | AnswerIsTrue, ActsOncePerId, KickedAsListed |
| `fleet` | a preset on one of 2 ports, 2 tasks, 2 process ids, 2 processes, one use of the launcher, fairness | OneServerPerPort, OwnershipIsTrue, CardsTellTheTruth |
| `updater` | 2 instances, 4 starts, 3 releases, 2 data files, fairness | InstallationHolds, PlaysWhatIsInstalled, StartsGoOn |

Why the bounds are enough for what they are meant to show. Store: two threads
contend for the mutex, two processes for the lock; a third request lets a receipt
limit of three and the migration receipt refuse one; three revisions allow two
saves by others between two reads of one instance. Relay: three places with four
events, one of them local, make requests wait; two-fragment events are cut by the
frame, the full inbox and the disturbance (a disconnect, restart or map change). Orders: two transactions are the least
that can pay twice; three days with a period of two let a day change within a period
and from one to the next; one order needs two events, so that half of its progress
may be from before. All event receipts stay in the window here (`Keep`): the 2048
of the code are more than the retries of a session. Threads and transactions are
interchangeable, hence the symmetry.
Contracts: two ticks in a second is the least with a fraction, a second
activation within the same second is the case the generation number is for, and two
contracts for one place are the least that can block each other.
Headquarters: a purchase, a pawn of what it made a duplicate and the repetition of
either are three requests; so are a visit, its late repetition and the next visit,
with a period boundary between any two. One fault is enough to lose an answer or to
make every cache of this process stale.
Dedicated: a rotation of four entries with repeated ones tells positions from
matches; three selections allow a vote, a rotation after it and an override.
Connection: two attempts are one late against one current; two sessions on two
servers tell a wrong server from a wrong session.
Hosted lobby: learning a selection late, losing it to a reselection, playing it,
and one after it take four; the third is one that the client cannot resolve.
Administration: a roster, a kick with its token and one request more is the
shortest history in which a token or an id is stale; one remembered answer is
the least that may be forgotten; two players on one slot tell the connection
from the slot (they are interchangeable, hence the symmetry of that run).
Fleet: two tasks are a start against a start, a restart or a deletion; two process
ids with two births let one id be used again by another process, which is all that a
record or a pid file can mistake. A restart may move the preset to the second port;
`MaxMoved` then leaves room for one click or launch more.
Updater: two instances are one that replaces the files and one that waits or plays;
the third release comes while the second is being installed, and the fourth start
follows relaunches, deaths and a reinstallation.
Larger instances are left to the proofs.

Deadlock is checked for `store`, where a call can always begin. It is not for
the others: they end when their bounded clocks, attempts or selections are used
up, a relay may have nothing left to carry, a stopped administration pipe serves
no one, a failed dedicated server has ended its process, and an installation
without its executable starts nothing.

## 4. Fairness

Six runs assume any.

* `relay`: frames run, the reliable channel delivers, a client that loads
  finishes, the request that is being pushed goes on, and the economy file is not
  unwritable for ever. The first is `scheduler::loop` on the server's frame
  (hidden_challenge_relay.cpp), the second the engine's contract for reliable
  commands, the last the reason for the retry in `process_client_events`.
* `contracts`: the sampling callback runs (weak), and saves that are
  possible again and again succeed at some time (strong): the lock file is tried,
  never waited for, so a single attempt may fail at any time. Reads do not fail for
  ever either.
* `headquarters`: the two loops of hq_native.cpp run every 100 ms, a game that is
  started signs in and fetches, and a notification that can be handed over again
  and again is at some time (strong; it is put back when the game is not ready).
* `dedicated`: the lifecycle callback or its time limit moves a stage that
  can be left. Nothing is assumed of the engine, users or scripts.
* `fleet`: the timer of FleetViewModel polls every three seconds; a listing of
  processes that is complete again and again is used at some time (strong). Nothing
  is assumed of tasks, servers or users.
* `updater`: an instance inside `update()` goes on: a download without data is
  given up after 30 s (http.cpp). A message box may stay open for ever, which
  StartsGoOn excepts, since the mutex is held under it.

No property depends on a user, a peer or the network being fair.

## 5. What the models say about the code

* **Finding** (`hosted_lobby_next`). `dedicated_party_client.cpp:400-402` says
  that the query stays armed until the host has selected the next rotation entry.
  A client that takes a `go` for a selection it had not learned plays that match
  while `match_sequence` is still behind, so a query answered during the match's
  results, before the next selection, is taken for news (`:896`), and disarms the
  query: the lobby shows the finished match until the next `go`. ShownIsPlayed
  holds all the same, since the `go` corrects what is shown in a match.
* Order properties differ with overlaps. Two overlapping `dispatch()` calls (the hook
  of achievement_injection.cpp on the game thread, glutton_server.cpp on the
  transport thread) can activate a copy of an offer that the other call has moved
  on: payment and carrying are safe, the number of
  offers and the freshness of progress hold only for calls that follow one another.
* Contract tokens on the Multiplayer board can block each other: the board moves
  one row a day, so four unspent tokens may be held against three places, and no
  token can be activated until its neighbours leave. TokensAreUsable therefore is
  stated for a board on which the contracts stay, which is what Zombies has.
* The loop `for (const auto reuse_completed : {false})` at
  achievement_engine.cpp:429 never reaches the branch that reuses completed
  orders (439-440); the model leaves it out.
* The comment at dedicated_party.cpp:926-928, "a voted match never plays twice in
  a row", holds if neighbours in the rotation differ, the rotation has two entries
  and no `map_rotate` skips one; VotedNotRepeated states these conditions.
* The intermission has no time limit (dedicated_party.cpp:1067): NoStageHangs
  covers every other stage that waits.
* A `map_rotate` in the intermission, after the client learned a selection,
  leaves the shown match stale until `go`: the query is disarmed by design then.
* `put()` (hq_marketplace.cpp:249) compares nothing: the game writes back the
  quantities it holds, and a copy of the inventory that another request has
  overtaken brings spent copies back. PutOfCurrentChangesNothing says that a
  current copy is harmless, and WealthIsAccounted counts apart what stale ones
  brought.
* The conversion of uniforms leaves no receipt: a repetition is refused only because
  the copies are gone by then, so a copy bought between the two is converted too.
  WealthIsAccounted holds, since every conversion pays what it takes.
* The claims of the Server Manager bind its own tasks. The launcher, a second
  Manager, or the server of a profile's script that appears after its task gave up
  can still put a second server on a port, so OneServerPerPort is about the Manager's
  own launches. `Stop` whose list of processes was incomplete and whose port has no
  pid file stops nothing, deletes nothing and reports no failure.
* A poll that applies its scan between a kill and the deletion of the pid file shows
  a stopped server as crashed until the next round. `DeletePreset` scans without a
  claim, so a start may be staging while its files go.
* An instance whose relaunch fails after the replacement (file_updater.cpp:356)
  reports the error and goes on with the old image beside the new executable;
  `relaunch_installed_binary` (component/updater.cpp:71) ends instead. An instance
  that dies between renaming and replacing s2x.exe leaves no executable, and no later
  start can repair that, since nothing can start; InstallationHolds says that
  s2x.exe.old is there then. The message box of an error is shown under the mutex:
  every other start waits until it is closed.

## 6. Hazards and the properties that watch them

| Where it bites | What watches it |
|---|---|
| several instances, one file | AckedIsDurable, ReadsOwnWork, ReadsNeverGoBack, ImplementsLedger |
| death between write, rename and answer; failed saves; refused mutations | ReadsOwnWork, AckedIsDurable, ImplementsLedger |
| reservation released on each way out of `push_batch` | RoomIsAccounted, AllOrNothing |
| fragments lost, resumed, dropped at a full inbox; failed batches | InOrderOnce, NothingLostWithoutCause, EventuallyHandled |
| claims repeated, events late and repeated, periods changing meanwhile | PaidOnce, CarriedKept, ProgressWasEarned, OffersWithinLimit, OncePerPeriod, BonusMatchesClaims |
| purchases repeated, tokens that block each other's places | TokensAreConserved, TokensAreUsable |
| contract replaced between the clock's snapshot and its debit | ChargedOnlyPlayTime, SampledTimeKept, DueIsCharged |
| requests of the vendor, the drops and the post office repeated, refused or beside another instance | WealthIsAccounted |
| the game's copies of purse and inventory behind the store; a notification published while another is in hand | PutOfCurrentChangesNothing, GameCatchesUp |
| playlist and commands against the selected match | LaunchedIsSelected, PreviewIsNext, RotationMovesOneSlot, VotedNotRepeated |
| engine that does not answer | NoStageHangs |
| late answers, tasks and joins of an earlier request | ConnectsWhereAsked, ConnectsOncePerAttempt |
| a deadline against the frame that begins the request, ids sent again | AnswerIsTrue, ActsOncePerId |
| tokens of a roster that has changed | KickedAsListed |
| go messages and sync answers in any order | ShownIsPlayed, AsksUntilNextSelection |
| a scan that is out of date when the server is launched; ids of processes used again | OneServerPerPort, OwnershipIsTrue |
| a poll that saw half of a start or stop, or an incomplete list | CardsTellTheTruth |
| an update that is cancelled, fails or dies with the executable renamed; an instance that waited for another's update | InstallationHolds, PlaysWhatIsInstalled, StartsGoOn |

Each property of a passing run has a mutant in `PROJECT.json`: a change of a
mapped definition, such as a programmer could make, that breaks it.

## 7. Proofs

The theorems hold for every value of the constants that the module's assumption
admits: any number of processes, players, requests, ports or releases, any limit and
any bound. TLC evaluates each assumption in the run of its module.

| Module | Theorem | States | Assumes |
|---|---|---|---|
| EconomyStoreProofs | TypeCorrect | `Spec => []TypeOK` | ConstantsAssumption, NoneIsNoState |
| | ReadsOwnWorkHolds | `Spec => []ReadsOwnWork` | (run `store`) |
| | AckedIsDurableHolds | `Spec => []AckedIsDurable` | |
| | PublishedInOrderHolds | `Spec => PublishedInOrder` | |
| | ReadsNeverGoBackHolds | `Spec => ReadsNeverGoBack` | |
| | ImplementsLedgerHolds | `Spec => ImplementsLedger` | |
| EventRelayProofs | TypeCorrect | `Spec => []TypeOK` | RelayAssumption |
| | RoomIsAccountedAlways | `Spec => []RoomIsAccounted` | (run `relay`) |
| | AllOrNothingAlways | `Spec => []AllOrNothing` | |
| | InOrderOnceAlways | `Spec => []InOrderOnce` | |
| | NothingLostWithoutCauseAlways | `Spec => []NothingLostWithoutCause` | |
| OrdersProofs | TypeCorrect | `Spec => []TypeOK` | OrdersAssumption |
| | PaidOnceAlways | `Spec => []PaidOnce` | (run `orders`) |
| | CarriedKeptAlways | `Spec => CarriedKept` | |
| | OffersWithinLimitAlways | `Spec => []OffersWithinLimit` | |
| | OncePerPeriodAlways | `Spec => []OncePerPeriod` | |
| | BonusMatchesClaimsAlways | `Spec => []BonusMatchesClaims` | |
| | ProgressWasEarnedAlways | `KeepsAll => (Spec => []ProgressWasEarned)` | |
| ContractsProofs | TypeCorrect | `Spec => []TypeOK` | ContractsAssumption |
| | TokensAreConservedAlways | `Spec => []TokensAreConserved` | (run `contracts`) |
| | TokensAreUsableAlways | `AllOnBoard => (Spec => []TokensAreUsable)` | |
| | ChargedOnlyPlayTimeAlways | `Spec => []ChargedOnlyPlayTime` | |
| | SampledTimeKeptAlways | `Spec => SampledTimeKept` | |
| HeadquartersProofs | HeadquartersTyped | `Spec => []TypeOK` | HeadquartersAssumption |
| | WealthIsAccountedAlways | `Spec => []WealthIsAccounted` | (run `headquarters`) |
| | PutOfCurrentChangesNothingAlways | `Spec => PutOfCurrentChangesNothing` | |
| LobbyProofs | TypeCorrect | `Spec => []TypeOK` | DedicatedPartyAssumption |
| | LaunchedIsSelectedAlways | `Spec => []LaunchedIsSelected` | (run `dedicated`) |
| | PreviewIsNextAlways | `Spec => []PreviewIsNext` | |
| | RotationMovesOneSlotAlways | `Spec => RotationMovesOneSlot` | |
| | VotedNotRepeatedAlways | `Differ(Configured) => (Spec => VotedNotRepeated)` | |
| | ShownIsPlayedAlways | `HostedSpec => []ShownIsPlayed` | HostedLobbyAssumption |
| | SessionIsHostedLobby | `MaxSelections <= MaxMatches => (SessionSpec => HostedSpec)` | both |
| | SessionShownIsPlayed | `MaxSelections <= MaxMatches => (SessionSpec => []ShownIsPlayed)` | both |
| | ConnectionTypeCorrect | `ConnectionSpec => []ConnectionTypeOK` | ConnectionAssumption |
| | ConnectsWhereAskedAlways | `ConnectionSpec => ConnectsWhereAsked` | (run `connection`) |
| | ConnectsOnce | `ConnectionSpec => ConnectsOncePerAttempt` | |
| ServerManagerProofs | AnswerIsTrueAlways | `Spec => []AnswerIsTrue` | AdminAssumption |
| | ActsOncePerIdAlways | `Spec => []ActsOncePerId` | (run `server_admin`) |
| | KickedAsListedAlways | `Spec => []KickedAsListed` | |
| | AdminTypeCorrect | `Spec => []AdminTypeOK` | |
| | QueueIsCountedAlways | `Spec => []QueueIsCounted` (no run checks it) | |
| | TypeCorrect | `FleetSpec => []TypeOK` | FleetAssumption |
| | OneServerPerPortAlways | `FleetSpec => []OneServerPerPort` | (run `fleet`) |
| | OwnershipIsTrueAlways | `FleetSpec => []OwnershipIsTrue` | |
| UpdaterProofs | TypeCorrect | `Spec => []TypeOK` | UpdaterAssumption, NoneIsNoState |
| | InstallationHoldsAlways | `Spec => []InstallationHolds` | (run `updater`) |
| | PlaysWhatIsInstalledAlways | `Spec => PlaysWhatIsInstalled` | |

Some theorems have a hypothesis about the constants, and each is what the property
needs: the two of LobbySession that the client's bound on selections is not smaller
than the server's; `AllOnBoard` is the Zombies board (section 5), `Differ(Configured)` a rotation
without equal neighbours (section 5), and `KeepsAll` that no receipt of an event has
had to leave the window of `Keep`, 2048 in the code.

### The inductive invariants

Hardly any of the properties is inductive. What each invariant adds is what the code
relies on without saying it.

**EconomyStore.** `IInv` adds:

* `OneWriter`: a thread inside a call holds the lock file and its process's
  mutex, so at most one thread of all processes is inside;
* `CopyFollowsDisk`: the copy that this thread carries was made from the file as
  it is now, and a temporary file that is written is that copy or torn;
* `CacheFollowsDisk`: a parsed copy is a published content with everything its own
  callers were told, no newer than the file and no older than what was shown of it;
* `Consistent(disk)`: effect and receipt agree in the file;
* `DiskIsNewest`, and that what was acknowledged is in the file.

The step that matters is `Publish`: since no one else can be inside
(`OneWriter`), the file is still the one the copy was made from
(`CopyFollowsDisk`), so the rename only adds receipts and one revision; every
other conjunct follows from that. Reads do not go back because a cached copy is
replaced only by the current file, or dropped; and a process reads its own work
because a refused or failed call leaves its copy as it was. The refinement maps a
`Publish` to `Apply` of the receipts it adds, an acknowledgement to
`Acknowledge`, and everything else to stuttering.

**EventRelay.** Room: `Reserving` and `Counting` say that the reserved room is exactly
that of the request under `pending_forward_mutex`, and that queue and reservation fit
together; so `Publish` never finds the queue full. `Closing` says that no request is
being handled once the queue was cleared, without which a late one would fill it
again. `Origin` ties accepted and local events to answered requests: with the
assumption that an event is one occurrence, a request that is sent again brings only
new events. Order: what the server has sent and not sent is one list (`Ahead`), what
the client has completed another (`Arrived`). `Follows` says that both are in the
order of acceptance and that arrived events are before those on their way. Keeping:
while nothing excuses a loss, `Joins` says that the client is inside an event whose
next fragment is the next to come, and `Keeps` that events are on their way whole and
everything wanted is in one of the two lists. Every action takes from one end of a list
and adds to the other; its step only says which lists it makes of which, and the lemmas
about a player's lists do the rest. A sum over the queue is the number of units of a
set (`Weight`), so that the library's theorems on cardinalities replace an induction.

**Orders.** `Paying` holds however calls overlap: an accepted order names no
transaction and has no payment of its activation (`Unpaid`), and a payment has its
receipt (`Receipted`), which a repeated claim finds. `Dated` adds what TypeOK says of
days and of the window of receipts. `Following` is for calls that follow
one another: a call that was reconciled finds the board on its own day (`Renewed`), the
copies it answers from are those of the board (`SeenIsThere`), accepted, finished and
offered orders fit in the limit together (`PlacesSuffice`), and payments lie in periods
that their order has left (`PaidBefore`, `BonusBefore`). `Earned` counts, instead of
progress, the receipts of events that count for the order since its activation.

**Contracts.** Tokens and money are counted as units of sets, and the activations of a
contract with its token are the purchases that name it (`TokensCounted`,
`MoneyCounted`). `TokensWait` says that a token's contract neither runs nor ended
today, `PlacesSuffice` that held contracts fit in the places. For the clock, `Clocked`
strengthens ChargedOnlyPlayTime by the time a live timer holds and the time that its next
sample will find; `Numbered` says that a timer's generation was its entry's at some
time, so that an old timer can never match a newer activation.

**DedicatedParty.** `ServerInMatch`: a server runs only from the countdown to the end of
the match. `SettingsStand`: in Zombies nothing writes the party's match once it is set.
`VoteSkips`: after a vote nothing is requested and the next entry of the rotation is
another match, unless an operator skipped one. `RotationIsConfigured` and `Unselected`
say where the rotation and its position came from.

**HostedLobby.** `MemberInv` says that once the intermission is over every answer on
its way is about the selected match, that a client which plays the selected match, and
can resolve it, shows it, and that in an intermission nobody plays the match to come.
**LobbySession** implements it: by the invariant of DedicatedParty a server runs only
from the countdown to the end of the match, so each stage it enters is a step of the
phase or none, and a new number of a selection comes only from the results or
the intermission.

**Connection.** `Aimed`: the tasks of the current attempt, its pending query and the
join asked of the engine all lead to the server the user asked for last; those of
earlier attempts are told apart by their number. `OneAtATime`: of the current attempt
either the query waits to be sent, or it is pending, or one task follows its answer, or
the engine is asked to join, and none of them once it has led to a connection.

**Headquarters.** The account is a statement about sums, which the library says nothing
of. `Total` counts units, so that its laws follow from the theorems on cardinalities: it
adds (TotalAdds), zeros count nothing (TotalOfPart), one value more adds that value
(TotalOfOneMore), and renaming the arguments changes nothing (TotalRenamed). Each
operation then either adds one receipt that was not there and exactly its worth, or adds
none and keeps the sum of purse and pawn values (`Makes`, one lemma per operation).
DealtWorth is the one that is not obvious: what a drop's cards bring is worth the same
whichever of them are duplicates, of what the player had or of each other, since a row
that does not stack is new at most once. `Current` says that what shows the file's
revision (the game's inventory, the parsed copy, a put under way) is its content; the
revision grows with every change, whoever makes it.

**ServerAdmin.** A dispatch's callback is scheduled, running or over, and what it may
still do follows from the state of its work item (`ScheduledFits`, `RunningFits`,
`ItemsFit`, `ServingFits`): a cancelled one has not acted and never will. `AnswersFit`
says of each answer what it rests on. `RemembersLast` says that the remembered answers
are the last ones, in order, so that an id comes again only further away (`Spaced`).
`TokensFit` says that a token stands for the connection of its roster. On the same
invariant rest the types of the registry and the bound of the queue: `queued_work` is
the number of callbacks that are scheduled, each counted down once, when its frame
starts it, and a dispatch that finds no room schedules none.

**Fleet.** `Exclusive`: a port's claim has one task. `StartFits`: what the scan of a
start excluded lasts until it launches, since only a claiming task launches, and the
creation time that a registration has pinned (`Pinned`) names its launch until the
record is written, whatever takes the process id meanwhile. `Unused`:
numbers of clicks to come are free, so that a nonce is never drawn twice.

**Updater.** `OwnsMutex`: an instance between the wait and the end of `update()` owns
the mutex, so at most one does. `FilesFit`: nothing is newer than what was released, nor
data newer than the executable that loads it. `WindowIsHeld` and `OldIsRunning`: while
s2x.exe is missing, the owner is in the window of its replacement, unless someone died
there, and everyone runs s2x.exe.old. `StageFits` and `ImageFits`: what an instance has
planned, done and loaded still holds at its stage.

### Only model-checked

* Liveness under fairness and ENABLED are out of the prover's reach: EventuallyHandled,
  DueIsCharged, GameCatchesUp, NoStageHangs, CardsTellTheTruth and StartsGoOn.
* Induction over data: that `ChunksOf` and `Applicable` are the concatenation and the
  filter of the code, that `Total` is the sum of a fold, and that `Dealt` is what dealing
  the cards one by one makes. `relay` compares the first two on all lists of up to four
  events, `headquarters` the others on functions of three values and drops of up to three
  cards.
* AsksUntilNextSelection is false (section 5); nothing is proved of it.

## 8. What is not modelled

Durations (a limit may fire at any moment while its stage lasts), the JSON codec
and the protocol codecs, the engine's own behaviour beyond the external actions,
the listen-server's map change and the polling of match limits (their outcome
depends on when the engine stops a server, which the repository does not show),
and the parts of section 1 without a module. A failing rename is one with
`SaveFails`; loss of a file that the operating system had confirmed is not
modelled.

Within the modelled parts:

* *Orders*: rewards of ranks, prestige and the social space; receipts that leave the
  window of 2048.
* *Contracts*: rewards that activate other contracts.
* *Headquarters*: expiring items, metadata, rows of another collision, consumables
  that stack on another row, the setting for unlimited consumables, the window of
  receipts for consumptions, the 13 slots of the wallet, the manual payroll claims of
  older stores, a clock that is set back, and the polling of the mail. The game is
  taken to change its own copies only by fetching and through the two loops.
* *Dedicated lobby*: player capacity, join policies and the parsing of the rotation.
* *Fleet*: one preset per port, the editor's other commands on a port that it has just
  saved, servers started and stopped together as tasks of
  their own, the stages of a server that is up (starting, running, not answering are
  one status, which no decision tells apart), and the contents of cfg files. A process
  id is not used again between the check of its command line and the kill.
* *Updater*: the runtime of Microsoft Store installations (one more verified file
  under the same mutex), leftovers of temporary files, and power failures.

## 9. Plan

In order of importance to users:

1. **ForwardQueue** (hidden_challenge_relay.cpp 501-563) and **AchievementStore**
   (monotone records, no lost refresh).
2. **The server browser and the cached address of the master server**: the row a user
   chose against answers that sort the list again.
3. **Refinements of the store's users**: that each operation of Orders, Contracts and
   Headquarters is a `transact` of EconomyStore, whose atomicity they take for granted
   today.
4. **Listen-server map changes**, once it is known when the engine stops a server.
