---------------------------- MODULE EconomyStore ----------------------------
(***************************************************************************)
(* The Headquarters economy store: one JSON file shared by every game      *)
(* instance on the machine (client/game/demonware/hq_economy.cpp).         *)
(*                                                                         *)
(* A process guards its parsed copy with state_mutex and the file with an  *)
(* exclusive lock file that it tries once and never waits for.  A          *)
(* transaction loads the file, runs the one-time migrations and the        *)
(* caller's mutation on the loaded copy, writes a temporary file and       *)
(* renames it over the store.  A process may die between any two of those  *)
(* steps; the operating system then closes the lock file.                  *)
(*                                                                         *)
(* A caller's mutation is abstracted to what every receipted operation     *)
(* (purchase, claim, supply drop, redemption) has in common: a request     *)
(* whose receipt is present is answered again without effect, any other    *)
(* request may be refused after part of the copy was changed, or adds its  *)
(* effect and its receipt together.                                        *)
(***************************************************************************)
EXTENDS Integers, FiniteSets, Sequences

CONSTANTS Proc,        \* game instances sharing the store
          Thread,      \* their threads that use the store
          Home,        \* the process of each thread
          Key,         \* receipt keys of callers' requests
          Marker,      \* receipt key of the one-time migrations
          None,
          MaxRevision, \* UINT64_MAX in the code
          MaxReceipts  \* 10000 in the code

AllKey == Key \union {Marker}

ASSUME ConstantsAssumption ==
    /\ Home \in [Thread -> Proc]
    /\ Marker \notin Key
    /\ MaxRevision \in Nat
    /\ MaxReceipts \in Nat
    /\ None \notin Proc \union Thread \union Key
    /\ IsFiniteSet(AllKey)

\* A parsed store: its revision, the receipts in it, and for each request how
\* often its effect (a balance or an item) is part of the stored values.
State == [revision : 0..MaxRevision, receipts : SUBSET AllKey,
          credit : [AllKey -> Nat]]

ASSUME NoneIsNoState == None \notin State

VARIABLES disk,    \* what hq_economy.json holds
          tmp,     \* what hq_economy.json.tmp holds, None when torn or absent
          lock,    \* thread whose process holds the lock file open
          mutex,   \* thread holding each process's state_mutex
          cached,  \* each process's parsed copy
          stage,   \* how far a thread is in snapshot() or transact()
          task,    \* the request it carries, None for snapshot()
          next,    \* its local copy of the store
          answer,  \* what the last call of the thread returned
          acked,   \* requests the callers of each process were told are done
          seen,    \* newest revision a snapshot() of the process returned
          history  \* every store content ever published, oldest first

vars == <<disk, tmp, lock, mutex, cached, stage, task, next, answer, acked,
          seen, history>>

Empty == [revision |-> 0, receipts |-> {}, credit |-> [k \in AllKey |-> 0]]

\* load(): a missing file is an empty store; a file left by an earlier session
\* has run the migrations.
Stored == [revision |-> 0, receipts |-> {Marker},
           credit |-> [k \in AllKey |-> IF k = Marker THEN 1 ELSE 0]]

TypeOK ==
    /\ disk \in State
    /\ tmp \in State \union {None}
    /\ lock \in Thread \union {None}
    /\ mutex \in [Proc -> Thread \union {None}]
    /\ cached \in [Proc -> State \union {None}]
    /\ stage \in [Thread -> {"idle", "loaded", "changed", "written", "renamed"}]
    /\ task \in [Thread -> Key \union {None}]
    /\ next \in [Thread -> State]
    /\ answer \in [Thread -> {"none", "ok", "failed"}]
    /\ acked \in [Proc -> SUBSET Key]
    /\ seen \in [Proc -> 0..MaxRevision]
    /\ history \in Seq(State)

Init ==
    /\ disk \in {Empty, Stored}
    /\ tmp = None
    /\ lock = None
    /\ mutex = [p \in Proc |-> None]
    /\ cached = [p \in Proc |-> None]
    /\ stage = [t \in Thread |-> "idle"]
    /\ task = [t \in Thread |-> None]
    /\ next = [t \in Thread |-> Empty]
    /\ answer = [t \in Thread |-> "none"]
    /\ acked = [p \in Proc |-> {}]
    /\ seen = [p \in Proc |-> 0]
    /\ history = <<disk>>

-----------------------------------------------------------------------------
(* Helpers *)

\* load(): the decoded file, an empty store when there is none.
Loaded == disk

\* The effect of a request enters a copy together with its receipt, once.
Credited(s, k) ==
    IF k \in s.receipts THEN s ELSE
    [revision |-> s.revision, receipts |-> s.receipts \union {k},
     credit |-> [s.credit EXCEPT ![k] = @ + 1]]

\* migrate_payroll, migrate_contracts, migrate_contract_tokens.
Migrated(s) == Credited(s, Marker)

\* The copy after the caller's mutation; snapshot() has none.
Mutated(s, k) == IF k = None THEN s ELSE Credited(s, k)

\* file_lock: opened without sharing, so a second open fails at once.
LockShared == TRUE
LockFree == lock = None

\* The revision is checked before it is advanced.
RevisionLeft(s) == s.revision < MaxRevision

NextRevision(s) == [s EXCEPT !.revision = @ + 1]

\* save() refuses a ledger above the lifetime receipt limit.
Saveable(s) == Cardinality(s.receipts) <= MaxReceipts

\* Only the success paths assign `cached`: the mutation works on a copy of its own.
ChangedInPlace(t) == [cached EXCEPT ![Home[t]] = next[t]]
CacheAfterFailure(t) == cached

\* What the caller takes for done: the verdict of the save, not that of the
\* mutation it handed in.
Told(t) == [acked EXCEPT ![Home[t]] = @ \union ({task[t]} \ {None})]
AckedByMutation(t, done) == Told(t)
AckedBySave(t, done) == IF done THEN Told(t) ELSE acked

\* ~file_lock closes the handle on every way out, exceptions included.
LockAfter(t, result) == None

Callable(t) == stage[t] = "idle" /\ mutex[Home[t]] = None

\* Leaving the function: the lock file is closed, then the mutex released.
Return(t, result) ==
    /\ lock' = LockAfter(t, result)
    /\ mutex' = [mutex EXCEPT ![Home[t]] = None]
    /\ stage' = [stage EXCEPT ![t] = "idle"]
    /\ answer' = [answer EXCEPT ![t] = result]
    /\ acked' = AckedBySave(t, result = "ok")
    /\ task' = [task EXCEPT ![t] = None]
    /\ next' = [next EXCEPT ![t] = Empty]

\* A success: `data` becomes the parsed copy, and snapshot() returns it.
Succeed(t, data) ==
    /\ Return(t, "ok")
    /\ cached' = [cached EXCEPT ![Home[t]] = data]
    /\ seen' = IF task[t] = None
               THEN [seen EXCEPT ![Home[t]] = data.revision]
               ELSE seen

Fail(t) ==
    /\ Return(t, "failed")
    /\ cached' = CacheAfterFailure(t)
    /\ UNCHANGED seen

-----------------------------------------------------------------------------
(* Actions *)

\* snapshot() with a parsed copy: no file is touched.
SnapshotHit(t) ==
    /\ Callable(t)
    /\ cached[Home[t]] # None
    /\ answer' = [answer EXCEPT ![t] = "ok"]
    /\ seen' = [seen EXCEPT ![Home[t]] = cached[Home[t]].revision]
    /\ UNCHANGED <<disk, tmp, lock, mutex, cached, stage, task, next, acked,
                   history>>

\* transact() always loads; snapshot() only without a parsed copy.
NeedsFile(t, k) == k = None => cached[Home[t]] = None

\* The mutex is taken, then the lock file, then the store is loaded and
\* migrated in memory: no other process can publish in between.
Begin(t, k) ==
    /\ Callable(t)
    /\ NeedsFile(t, k)
    /\ LockFree
    /\ lock' = t
    /\ mutex' = [mutex EXCEPT ![Home[t]] = t]
    /\ stage' = [stage EXCEPT ![t] = "loaded"]
    /\ task' = [task EXCEPT ![t] = k]
    /\ next' = [next EXCEPT ![t] = Migrated(Loaded)]
    /\ answer' = [answer EXCEPT ![t] = "none"]
    /\ UNCHANGED <<disk, tmp, cached, acked, seen, history>>

\* The lock file is held by another process, or the store cannot be read:
\* store_unavailable, before anything was changed.
Unavailable(t) ==
    /\ Callable(t)
    /\ answer' = [answer EXCEPT ![t] = "failed"]
    /\ UNCHANGED <<disk, tmp, lock, mutex, cached, stage, task, next, acked,
                   seen, history>>

\* The mutation returned false, whatever it did to the copy before that.
Refuse(t) ==
    /\ stage[t] = "loaded"
    /\ task[t] # None
    /\ task[t] \notin next[t].receipts
    /\ Fail(t)
    /\ UNCHANGED <<disk, tmp, history>>

\* The mutation returned true and the encoded store did not change.
AnswerUnchanged(t) ==
    /\ stage[t] = "loaded"
    /\ Mutated(next[t], task[t]) = disk
    /\ Succeed(t, Mutated(next[t], task[t]))
    /\ UNCHANGED <<disk, tmp, history>>

\* The mutation returned true and changed the store: a new revision.
Change(t) ==
    /\ stage[t] = "loaded"
    /\ Mutated(next[t], task[t]) # disk
    /\ RevisionLeft(next[t])
    /\ next' = [next EXCEPT ![t] = NextRevision(Mutated(@, task[t]))]
    /\ stage' = [stage EXCEPT ![t] = "changed"]
    /\ UNCHANGED <<disk, tmp, lock, mutex, cached, task, answer, acked, seen,
                   history>>

RevisionExhausted(t) ==
    /\ stage[t] = "loaded"
    /\ Mutated(next[t], task[t]) # disk
    /\ ~RevisionLeft(next[t])
    /\ Fail(t)
    /\ UNCHANGED <<disk, tmp, history>>

\* The temporary file is complete and flushed.
Write(t) ==
    /\ stage[t] = "changed"
    /\ Saveable(next[t])
    /\ tmp' = next[t]
    /\ stage' = [stage EXCEPT ![t] = "written"]
    /\ UNCHANGED <<disk, lock, mutex, cached, task, next, answer, acked, seen,
                   history>>

\* The receipt limit, or an error while writing or renaming: the temporary
\* file may be left behind untouched, torn or complete.
SaveFails(t) ==
    /\ stage[t] \in {"changed", "written"}
    /\ tmp' \in {tmp, None}
    /\ Fail(t)
    /\ UNCHANGED <<disk, history>>

\* MoveFileEx replaces the store by whatever the temporary file holds.
Publish(t) ==
    /\ stage[t] = "written"
    /\ tmp # None
    /\ disk' = tmp
    /\ tmp' = None
    /\ stage' = [stage EXCEPT ![t] = "renamed"]
    /\ history' = Append(history, tmp)
    /\ UNCHANGED <<lock, mutex, cached, task, next, answer, acked, seen>>

Finish(t) ==
    /\ stage[t] = "renamed"
    /\ Succeed(t, next[t])
    /\ UNCHANGED <<disk, tmp, history>>

\* invalidate(): `hqeconomy reload`.
Invalidate(t) ==
    /\ Callable(t)
    /\ cached[Home[t]] # None
    /\ cached' = [cached EXCEPT ![Home[t]] = None]
    /\ UNCHANGED <<disk, tmp, lock, mutex, stage, task, next, answer, acked,
                   seen, history>>

\* A process dies: its memory is gone and the system closes its lock file. A
\* temporary file that was being written stays as it was or torn.
Crash(p) ==
    /\ lock' = IF lock # None /\ Home[lock] = p THEN None ELSE lock
    /\ tmp' \in IF lock # None /\ Home[lock] = p THEN {tmp, None} ELSE {tmp}
    /\ mutex' = [mutex EXCEPT ![p] = None]
    /\ cached' = [cached EXCEPT ![p] = None]
    /\ stage' = [t \in Thread |-> IF Home[t] = p THEN "idle" ELSE stage[t]]
    /\ answer' = [t \in Thread |-> IF Home[t] = p THEN "none" ELSE answer[t]]
    /\ task' = [t \in Thread |-> IF Home[t] = p THEN None ELSE task[t]]
    /\ next' = [t \in Thread |-> IF Home[t] = p THEN Empty ELSE next[t]]
    /\ UNCHANGED <<disk, acked, seen, history>>

\* The steps a running call takes by itself.
Advance(t) ==
    \/ Refuse(t)
    \/ AnswerUnchanged(t)
    \/ Change(t)
    \/ RevisionExhausted(t)
    \/ Write(t)
    \/ SaveFails(t)
    \/ Publish(t)
    \/ Finish(t)

Next ==
    \/ \E t \in Thread :
        \/ SnapshotHit(t)
        \/ \E k \in Key \union {None} : Begin(t, k)
        \/ Unavailable(t)
        \/ Advance(t)
        \/ Invalidate(t)
    \/ \E p \in Proc : Crash(p)

Spec == Init /\ [][Next]_vars

-----------------------------------------------------------------------------
(* Properties *)

\* hq_economy.cpp:13-16: another instance's changes may be missing from a parsed
\* copy, an instance's own may not. Whatever saves fail, mutations are refused
\* halfway and other instances write, what a process reads is a content the file
\* had, and has in it every request its own callers were told is done.
ReadsOwnWork ==
    \A p \in Proc : cached[p] # None =>
        /\ acked[p] \subseteq cached[p].receipts
        /\ \E i \in 1..Len(history) : cached[p] = history[i]

\* A request some caller was told is done is in the file, and stays there when
\* processes die or other instances save: "the file lock prevents lost writes".
AckedIsDurable == \A p \in Proc : acked[p] \subseteq disk.receipts

\* Stale reads are allowed, going back is not: the revisions that the
\* snapshot() calls of one instance return never decrease, across a reload, a
\* failed call or a restart of the instance.
ReadsNeverGoBack == [][\A p \in Proc : seen'[p] >= seen[p]]_vars

\* The file only ever moves to the next revision, with every receipt it had.
PublishedInOrder ==
    [][disk' # disk => /\ disk'.revision = disk.revision + 1
                       /\ disk.receipts \subseteq disk'.receipts]_vars

\* What the callers of any process were told is done.
Done == UNION {acked[p] : p \in Proc}

\* The store implements the ledger its callers reason about.
Promise == INSTANCE Ledger WITH
    Request <- AllKey, applied <- disk.receipts, paid <- disk.credit,
    acked <- Done
ImplementsLedger == Promise!LedgerSpec

=============================================================================
