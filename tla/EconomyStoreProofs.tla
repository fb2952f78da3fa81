------------------------- MODULE EconomyStoreProofs -------------------------
(***************************************************************************)
(* Proofs about EconomyStore for any number of game instances, threads and *)
(* requests, and any limits on revisions and receipts.                     *)
(***************************************************************************)
EXTENDS EconomyStore, TLAPS

-----------------------------------------------------------------------------
(* The inductive invariant *)

Consistent(s) == \A k \in AllKey : s.credit[k] = IF k \in s.receipts THEN 1 ELSE 0

\* Only the holder of the lock file is inside a call, and it holds the mutex of
\* its process.
OneWriter ==
    \A t \in Thread : stage[t] # "idle" => lock = t /\ mutex[Home[t]] = t

\* The file did not move since the holder loaded it, so what it is about to
\* publish extends what is there; after the rename it is what is there.
CopyFollowsDisk ==
    \A t \in Thread :
        /\ stage[t] = "loaded" => next[t] = Migrated(disk)
        /\ stage[t] \in {"changed", "written"} =>
            /\ disk.revision < MaxRevision
            /\ next[t] = NextRevision(Mutated(Migrated(disk), task[t]))
        /\ stage[t] = "written" => tmp \in {next[t], None}
        /\ stage[t] = "renamed" =>
            /\ disk = next[t]
            /\ task[t] # None => task[t] \in disk.receipts

CacheFollowsDisk ==
    \A p \in Proc :
        /\ seen[p] <= disk.revision
        /\ cached[p] # None =>
            /\ acked[p] \subseteq cached[p].receipts
            /\ seen[p] <= cached[p].revision
            /\ cached[p].revision <= disk.revision
            /\ \E i \in 1..Len(history) : cached[p] = history[i]

DiskIsNewest == Len(history) > 0 /\ history[Len(history)] = disk

IInv ==
    /\ TypeOK
    /\ Consistent(disk)
    /\ OneWriter
    /\ CopyFollowsDisk
    /\ CacheFollowsDisk
    /\ DiskIsNewest
    /\ AckedIsDurable

-----------------------------------------------------------------------------
(* Lemmas about the operators *)

\* Crediting a request keeps a store well formed, its revision and the receipts
\* it had, and carries effect and receipt in step.
LEMMA CreditedStore ==
  ASSUME NEW s \in State, NEW k \in AllKey
  PROVE  /\ Credited(s, k) \in State
         /\ Credited(s, k).revision = s.revision
         /\ Credited(s, k).receipts = s.receipts \union {k}
         /\ Consistent(s) => Consistent(Credited(s, k))
<1>1. CASE k \in s.receipts
  BY <1>1 DEF Credited, State
<1>2. CASE k \notin s.receipts
  <2> DEFINE r == [revision |-> s.revision, receipts |-> s.receipts \union {k},
                     credit |-> [s.credit EXCEPT ![k] = @ + 1]]
  <2>1. Credited(s, k) = r
    BY <1>2 DEF Credited
  <2>2. /\ r \in State
        /\ r.revision = s.revision
        /\ r.receipts = s.receipts \union {k}
        /\ r.credit = [s.credit EXCEPT ![k] = @ + 1]
    BY DEF State
  <2>3. Consistent(s) => Consistent(r)
    BY <2>2, <1>2 DEF Consistent, State
  <2> QED BY <2>1, <2>2, <2>3
<1> QED BY <1>1, <1>2

\* The migrations and the caller's mutation together.
LEMMA MutatedStore ==
  ASSUME NEW s \in State, NEW k \in Key \union {None}
  PROVE  /\ Mutated(s, k) \in State
         /\ Mutated(s, k).revision = s.revision
         /\ s.receipts \subseteq Mutated(s, k).receipts
         /\ k # None => k \in Mutated(s, k).receipts
         /\ Consistent(s) => Consistent(Mutated(s, k))
BY CreditedStore, ConstantsAssumption DEF Mutated, AllKey

LEMMA MigratedStore ==
  ASSUME NEW s \in State
  PROVE  /\ Migrated(s) \in State
         /\ Migrated(s).revision = s.revision
         /\ s.receipts \subseteq Migrated(s).receipts
         /\ Consistent(s) => Consistent(Migrated(s))
BY CreditedStore DEF Migrated, AllKey

LEMMA NextRevisionStore ==
  ASSUME NEW s \in State, s.revision < MaxRevision
  PROVE  /\ NextRevision(s) \in State
         /\ NextRevision(s).revision = s.revision + 1
         /\ NextRevision(s).receipts = s.receipts
         /\ NextRevision(s).credit = s.credit
         /\ Consistent(s) => Consistent(NextRevision(s))
BY ConstantsAssumption DEF NextRevision, State, Consistent

LEMMA EmptyStore ==
  /\ Empty \in State /\ Consistent(Empty) /\ Empty.revision = 0
  /\ Stored \in State /\ Consistent(Stored) /\ Stored.revision = 0
BY ConstantsAssumption DEF Empty, Stored, State, Consistent, AllKey

-----------------------------------------------------------------------------
(* Type correctness *)

LEMMA ReturnType ==
  ASSUME TypeOK, NEW t \in Thread, NEW result \in {"ok", "failed"}, Return(t, result)
  PROVE  /\ lock' \in Thread \union {None}
         /\ mutex' \in [Proc -> Thread \union {None}]
         /\ stage' \in [Thread -> {"idle", "loaded", "changed", "written", "renamed"}]
         /\ answer' \in [Thread -> {"none", "ok", "failed"}]
         /\ acked' \in [Proc -> SUBSET Key]
         /\ task' \in [Thread -> Key \union {None}]
         /\ next' \in [Thread -> State]
<1>1. acked' \in [Proc -> SUBSET Key]
  <2>1. Home[t] \in Proc /\ acked \in [Proc -> SUBSET Key] /\ task[t] \in Key \union {None}
    BY ConstantsAssumption DEF TypeOK
  <2>2. acked' \in {Told(t), acked}
    BY DEF Return, AckedBySave
  <2> QED BY <2>1, <2>2 DEF Told
<1> QED BY <1>1, EmptyStore DEF TypeOK, Return, LockAfter

LEMMA SucceedType ==
  ASSUME TypeOK, NEW t \in Thread, NEW data \in State, Succeed(t, data)
  PROVE  /\ cached' \in [Proc -> State \union {None}]
         /\ seen' \in [Proc -> 0..MaxRevision]
BY ConstantsAssumption DEF TypeOK, Succeed, State

LEMMA TypeStep == TypeOK /\ [Next]_vars => TypeOK'
<1> SUFFICES ASSUME TypeOK, [Next]_vars PROVE TypeOK'
  OBVIOUS
<1> USE ConstantsAssumption
<1>1. ASSUME NEW t \in Thread, SnapshotHit(t) PROVE TypeOK'
  BY <1>1 DEF SnapshotHit, TypeOK, State
<1>2. ASSUME NEW t \in Thread, NEW k \in Key \union {None}, Begin(t, k) PROVE TypeOK'
  BY <1>2, MigratedStore DEF Begin, Loaded, TypeOK
<1>3. ASSUME NEW t \in Thread, Unavailable(t) PROVE TypeOK'
  BY <1>3 DEF Unavailable, TypeOK
<1>4. ASSUME NEW t \in Thread, Refuse(t) PROVE TypeOK'
  BY <1>4, ReturnType DEF Refuse, Fail, CacheAfterFailure, TypeOK
<1>5. ASSUME NEW t \in Thread, AnswerUnchanged(t) PROVE TypeOK'
  <2>1. Mutated(next[t], task[t]) \in State
    BY MutatedStore DEF TypeOK
  <2>2. Return(t, "ok") /\ Succeed(t, Mutated(next[t], task[t]))
    BY <1>5 DEF AnswerUnchanged, Succeed
  <2> QED BY <1>5, <2>1, <2>2, ReturnType, SucceedType DEF AnswerUnchanged, TypeOK
<1>6. ASSUME NEW t \in Thread, Change(t) PROVE TypeOK'
  <2>1. NextRevision(Mutated(next[t], task[t])) \in State
    BY <1>6, MutatedStore, NextRevisionStore DEF Change, RevisionLeft, TypeOK
  <2> QED BY <1>6, <2>1 DEF Change, TypeOK
<1>7. ASSUME NEW t \in Thread, RevisionExhausted(t) PROVE TypeOK'
  BY <1>7, ReturnType DEF RevisionExhausted, Fail, CacheAfterFailure, TypeOK
<1>8. ASSUME NEW t \in Thread, Write(t) PROVE TypeOK'
  BY <1>8 DEF Write, TypeOK
<1>9. ASSUME NEW t \in Thread, SaveFails(t) PROVE TypeOK'
  BY <1>9, ReturnType DEF SaveFails, Fail, CacheAfterFailure, TypeOK
<1>10. ASSUME NEW t \in Thread, Publish(t) PROVE TypeOK'
  <2>1. tmp \in State
    BY <1>10 DEF Publish, TypeOK
  <2>2. history' \in Seq(State)
    BY <1>10, <2>1 DEF Publish, TypeOK
  <2> QED BY <1>10, <2>1, <2>2 DEF Publish, TypeOK
<1>11. ASSUME NEW t \in Thread, Finish(t) PROVE TypeOK'
  <2>1. next[t] \in State /\ Return(t, "ok") /\ Succeed(t, next[t])
    BY <1>11 DEF Finish, Succeed, TypeOK
  <2> QED BY <1>11, <2>1, ReturnType, SucceedType DEF Finish, TypeOK
<1>12. ASSUME NEW t \in Thread, Invalidate(t) PROVE TypeOK'
  BY <1>12 DEF Invalidate, TypeOK
<1>13. ASSUME NEW p \in Proc, Crash(p) PROVE TypeOK'
  BY <1>13, EmptyStore DEF Crash, TypeOK
<1>14. CASE UNCHANGED vars
  BY <1>14 DEF TypeOK, vars
<1> QED
  BY <1>1, <1>2, <1>3, <1>4, <1>5, <1>6, <1>7, <1>8, <1>9, <1>10, <1>11, <1>12,
     <1>13, <1>14 DEF Next, Advance

LEMMA TypeInit == Init => TypeOK
BY EmptyStore, ConstantsAssumption DEF Init, TypeOK

\* Every variable keeps its type, for every instance: in particular the
\* revision never leaves the range the file format can hold.
THEOREM TypeCorrect == Spec => []TypeOK
BY TypeInit, TypeStep, PTL DEF Spec

-----------------------------------------------------------------------------
(* The inductive invariant is preserved *)

\* The only thread inside a call is the one that is about to leave it.
LEMMA Alone ==
  ASSUME TypeOK, OneWriter, NEW t \in Thread, stage[t] # "idle"
  PROVE  \A u \in Thread \ {t} : stage[u] = "idle"
BY DEF OneWriter

\* Leaving a call keeps the conjuncts about calls in progress.
LEMMA ReturnKeeps ==
  ASSUME IInv, NEW t \in Thread, stage[t] # "idle", NEW result \in {"ok", "failed"},
         Return(t, result), UNCHANGED disk
  PROVE  OneWriter' /\ CopyFollowsDisk'
<1>1. \A u \in Thread : stage'[u] = "idle"
  BY Alone DEF Return, IInv, TypeOK
<1> QED BY <1>1 DEF OneWriter, CopyFollowsDisk

LEMMA FailKeeps ==
  ASSUME IInv, NEW t \in Thread, stage[t] # "idle", Fail(t), UNCHANGED <<disk, history>>,
         TypeOK'
  PROVE  IInv'
<1>1. Return(t, "failed") /\ UNCHANGED <<cached, seen>> /\ UNCHANGED acked
  BY DEF Fail, Return, CacheAfterFailure, AckedBySave
<1>2. OneWriter' /\ CopyFollowsDisk'
  BY <1>1, ReturnKeeps
<1> QED BY <1>1, <1>2
        DEF IInv, Consistent, CacheFollowsDisk, DiskIsNewest, AckedIsDurable

\* A call that succeeds hands out the content of the file.
LEMMA SucceedKeeps ==
  ASSUME IInv, NEW t \in Thread, stage[t] # "idle", Succeed(t, disk),
         UNCHANGED <<disk, history>>, TypeOK',
         task[t] # None => task[t] \in disk.receipts
  PROVE  IInv'
<1>1. Return(t, "ok") /\ acked' = Told(t)
  BY DEF Succeed, Return, AckedBySave
<1>0. /\ acked' = [acked EXCEPT ![Home[t]] = @ \union ({task[t]} \ {None})]
      /\ acked \in [Proc -> SUBSET Key] /\ Home[t] \in Proc
  BY <1>1, ConstantsAssumption DEF Told, IInv, TypeOK
<1>2. OneWriter' /\ CopyFollowsDisk'
  BY <1>1, ReturnKeeps
<1>3. AckedIsDurable'
  BY <1>0 DEF IInv, AckedIsDurable
<1>4. CacheFollowsDisk'
  <2> SUFFICES ASSUME NEW p \in Proc
               PROVE  CacheFollowsDisk!(p)'
    BY DEF CacheFollowsDisk
  <2>1. CASE p = Home[t]
    <3>1. cached'[p] = disk /\ seen'[p] \in {seen[p], disk.revision}
      BY <2>1, ConstantsAssumption DEF Succeed, IInv, TypeOK
    <3>2. seen[p] <= disk.revision /\ disk.revision <= disk.revision
      BY DEF IInv, CacheFollowsDisk, TypeOK, State
    <3>3. \E i \in 1..Len(history) : disk = history[i]
      BY DEF IInv, DiskIsNewest, TypeOK
    <3>4. acked'[p] \subseteq disk.receipts
      BY <1>3 DEF AckedIsDurable
    <3> QED BY <3>1, <3>2, <3>3, <3>4
  <2>2. CASE p # Home[t]
    <3>1. cached'[p] = cached[p] /\ seen'[p] = seen[p] /\ acked'[p] = acked[p]
      BY <1>0, <2>2 DEF Succeed, IInv, TypeOK
    <3> QED BY <3>1 DEF IInv, CacheFollowsDisk
  <2> QED BY <2>1, <2>2
<1> QED BY <1>2, <1>3, <1>4 DEF IInv, Consistent, DiskIsNewest

LEMMA PublishKeeps ==
  ASSUME IInv, NEW t \in Thread, Publish(t), TypeOK'
  PROVE  /\ IInv'
         /\ disk'.revision = disk.revision + 1
         /\ disk.receipts \subseteq disk'.receipts
<1> DEFINE base == Migrated(disk)
           data == Mutated(base, task[t])
<1>1. /\ disk \in State /\ base \in State /\ task[t] \in Key \union {None}
      /\ base.revision = disk.revision /\ disk.receipts \subseteq base.receipts
      /\ Consistent(base)
  BY MigratedStore DEF IInv, TypeOK
<1>2. /\ data \in State /\ data.revision = disk.revision
      /\ disk.receipts \subseteq data.receipts
      /\ task[t] # None => task[t] \in data.receipts
      /\ Consistent(data)
  BY <1>1, MutatedStore
<1>3. disk' = NextRevision(data) /\ disk' = next[t] /\ disk.revision < MaxRevision
  BY DEF Publish, IInv, CopyFollowsDisk
<1>4. /\ disk' \in State /\ disk'.revision = disk.revision + 1
      /\ disk.receipts \subseteq disk'.receipts
      /\ task[t] # None => task[t] \in disk'.receipts
      /\ Consistent(disk')
  BY <1>2, <1>3, NextRevisionStore
<1>5. Consistent(disk)'
  BY <1>4 DEF Consistent
<1>6. OneWriter'
  BY DEF Publish, IInv, OneWriter, TypeOK
<1>7. CopyFollowsDisk'
  <2>1. \A u \in Thread : u # t => stage'[u] = "idle"
    BY Alone DEF Publish, IInv, TypeOK
  <2>2. stage'[t] = "renamed" /\ next'[t] = disk' /\ task' = task
    BY <1>3 DEF Publish, IInv, TypeOK
  <2> QED BY <2>1, <2>2, <1>4 DEF CopyFollowsDisk
<1>8. history' = Append(history, disk') /\ history \in Seq(State)
  BY DEF Publish, IInv, TypeOK
<1>9. /\ Len(history') = Len(history) + 1
      /\ history'[Len(history')] = disk'
      /\ \A i \in 1..Len(history) : history'[i] = history[i]
  BY <1>8, <1>4
<1>10. DiskIsNewest'
  BY <1>8, <1>9 DEF DiskIsNewest
<1>11. CacheFollowsDisk'
  <2> SUFFICES ASSUME NEW p \in Proc PROVE CacheFollowsDisk!(p)'
    BY DEF CacheFollowsDisk
  <2>1. /\ seen[p] \in Int /\ seen[p] <= disk.revision
        /\ seen'[p] = seen[p] /\ cached'[p] = cached[p] /\ acked'[p] = acked[p]
    BY DEF Publish, IInv, CacheFollowsDisk, TypeOK
  <2>2. disk.revision \in Int
    BY <1>1 DEF State
  <2>3. ASSUME cached[p] # None
        PROVE  /\ acked[p] \subseteq cached[p].receipts
               /\ cached[p].revision \in Int
               /\ seen[p] <= cached[p].revision
               /\ cached[p].revision <= disk.revision
    BY <2>3 DEF IInv, CacheFollowsDisk, TypeOK, State
  <2>4. ASSUME cached[p] # None
        PROVE  \E i \in 1..Len(history') : cached[p] = history'[i]
    <3>1. PICK i \in 1..Len(history) : cached[p] = history[i]
      BY <2>4 DEF IInv, CacheFollowsDisk
    <3>2. i \in 1..Len(history') /\ cached[p] = history'[i]
      BY <3>1, <1>8, <1>9
    <3> QED BY <3>2
  <2> QED BY <2>1, <2>2, <2>3, <2>4, <1>4
<1>12. AckedIsDurable'
  BY <1>4 DEF Publish, IInv, AckedIsDurable
<1> QED BY <1>4, <1>5, <1>6, <1>7, <1>10, <1>11, <1>12 DEF IInv

LEMMA InvariantStep == IInv /\ [Next]_vars => IInv'
<1> SUFFICES ASSUME IInv, [Next]_vars PROVE IInv'
  OBVIOUS
<1>1. TypeOK'
  BY TypeStep DEF IInv
<1>2. ASSUME NEW t \in Thread, SnapshotHit(t) PROVE IInv'
  <2>1. OneWriter' /\ CopyFollowsDisk'
    BY <1>2 DEF SnapshotHit, IInv, OneWriter, CopyFollowsDisk
  <2>2. CacheFollowsDisk'
    <3> SUFFICES ASSUME NEW p \in Proc PROVE CacheFollowsDisk!(p)'
      BY DEF CacheFollowsDisk
    <3>1. /\ UNCHANGED <<disk, cached, acked, history>> /\ CacheFollowsDisk!(p)
          /\ seen'[p] = seen[p] \/ (cached[p] # None /\ seen'[p] = cached[p].revision)
      BY <1>2, ConstantsAssumption DEF SnapshotHit, IInv, CacheFollowsDisk, TypeOK
    <3>2. cached[p] # None => cached[p].revision \in Int
      BY DEF IInv, TypeOK, State
    <3> QED BY <3>1, <3>2
  <2> QED BY <1>1, <1>2, <2>1, <2>2
          DEF SnapshotHit, IInv, Consistent, DiskIsNewest, AckedIsDurable
<1>3. ASSUME NEW t \in Thread, NEW k \in Key \union {None}, Begin(t, k) PROVE IInv'
  <2>1. OneWriter' /\ CopyFollowsDisk'
    <3>1. \A u \in Thread : stage[u] = "idle"
      BY <1>3, ConstantsAssumption DEF Begin, LockFree, Loaded, IInv, OneWriter, TypeOK
    <3>2. /\ \A u \in Thread : u # t => stage'[u] = "idle"
          /\ stage'[t] = "loaded" /\ next'[t] = Migrated(disk) /\ disk' = disk
          /\ lock' = t /\ mutex'[Home[t]] = t
      BY <1>3, <3>1, ConstantsAssumption DEF Begin, Loaded, IInv, TypeOK
    <3> QED BY <3>2 DEF OneWriter, CopyFollowsDisk
  <2>2. CacheFollowsDisk'
    BY <1>3 DEF Begin, IInv, CacheFollowsDisk, Consistent
  <2> QED BY <1>1, <1>3, <2>1, <2>2
          DEF Begin, IInv, Consistent, DiskIsNewest, AckedIsDurable
<1>4. ASSUME NEW t \in Thread, Unavailable(t) PROVE IInv'
  BY <1>1, <1>4 DEF Unavailable, IInv, Consistent, OneWriter, CopyFollowsDisk,
     CacheFollowsDisk, DiskIsNewest, AckedIsDurable
<1>5. ASSUME NEW t \in Thread, Refuse(t) PROVE IInv'
  BY <1>1, <1>5, FailKeeps DEF Refuse
<1>6. ASSUME NEW t \in Thread, AnswerUnchanged(t) PROVE IInv'
  <2>1. next[t] \in State /\ task[t] \in Key \union {None}
    BY DEF IInv, TypeOK
  <2>2. task[t] # None => task[t] \in disk.receipts
    BY <1>6, <2>1, MutatedStore DEF AnswerUnchanged
  <2>3. Succeed(t, disk) /\ stage[t] # "idle" /\ UNCHANGED <<disk, history>>
    BY <1>6 DEF AnswerUnchanged
  <2> QED BY <1>1, <2>2, <2>3, SucceedKeeps
<1>7. ASSUME NEW t \in Thread, Change(t) PROVE IInv'
  <2>1. OneWriter'
    BY <1>7 DEF Change, IInv, OneWriter, TypeOK
  <2>2. CopyFollowsDisk'
    <3>1. next[t] = Migrated(disk) /\ disk \in State
      BY <1>7 DEF Change, IInv, CopyFollowsDisk, TypeOK
    <3>2. disk.revision < MaxRevision
      BY <1>7, <3>1, MigratedStore DEF Change, RevisionLeft
    <3>3. \A u \in Thread : u # t => stage'[u] = "idle"
      BY <1>7, Alone DEF Change, IInv, TypeOK
    <3>4. /\ stage'[t] = "changed" /\ task' = task /\ disk' = disk
          /\ next'[t] = NextRevision(Mutated(next[t], task[t]))
      BY <1>7 DEF Change, IInv, TypeOK
    <3> QED BY <3>1, <3>2, <3>3, <3>4 DEF CopyFollowsDisk
  <2>3. CacheFollowsDisk'
    BY <1>7 DEF Change, IInv, CacheFollowsDisk, Consistent
  <2> QED BY <1>1, <1>7, <2>1, <2>2, <2>3
          DEF Change, IInv, Consistent, DiskIsNewest, AckedIsDurable
<1>8. ASSUME NEW t \in Thread, RevisionExhausted(t) PROVE IInv'
  BY <1>1, <1>8, FailKeeps DEF RevisionExhausted
<1>9. ASSUME NEW t \in Thread, Write(t) PROVE IInv'
  <2>1. OneWriter' /\ CopyFollowsDisk'
    <3>1. \A u \in Thread : u # t => stage'[u] = "idle"
      BY <1>9, Alone DEF Write, IInv, TypeOK
    <3> QED BY <1>9, <3>1 DEF Write, IInv, OneWriter, CopyFollowsDisk, TypeOK
  <2>2. CacheFollowsDisk'
    BY <1>9 DEF Write, IInv, CacheFollowsDisk, Consistent
  <2> QED BY <1>1, <1>9, <2>1, <2>2
          DEF Write, IInv, Consistent, DiskIsNewest, AckedIsDurable
<1>10. ASSUME NEW t \in Thread, SaveFails(t) PROVE IInv'
  BY <1>1, <1>10, FailKeeps DEF SaveFails
<1>11. ASSUME NEW t \in Thread, Publish(t) PROVE IInv'
  BY <1>1, <1>11, PublishKeeps
<1>12. ASSUME NEW t \in Thread, Finish(t) PROVE IInv'
  <2>1. next[t] = disk /\ (task[t] # None => task[t] \in disk.receipts)
    BY <1>12 DEF Finish, IInv, CopyFollowsDisk
  <2> QED BY <1>1, <1>12, <2>1, SucceedKeeps DEF Finish
<1>13. ASSUME NEW t \in Thread, Invalidate(t) PROVE IInv'
  <2>1. CacheFollowsDisk'
    BY <1>13, NoneIsNoState, ConstantsAssumption
       DEF Invalidate, IInv, CacheFollowsDisk, Consistent, TypeOK
  <2> QED BY <1>1, <1>13, <2>1 DEF Invalidate, IInv, Consistent, OneWriter,
          CopyFollowsDisk, DiskIsNewest, AckedIsDurable
<1>14. ASSUME NEW p \in Proc, Crash(p) PROVE IInv'
  <2>1. /\ \A u \in Thread : \/ stage'[u] = "idle"
                             \/ /\ Home[u] # p /\ stage'[u] = stage[u]
                                /\ next'[u] = next[u] /\ task'[u] = task[u]
        /\ UNCHANGED <<disk, acked, seen, history>>
    BY <1>14 DEF Crash
  <2>2. OneWriter'
    BY <1>14, <2>1, ConstantsAssumption DEF Crash, IInv, OneWriter, TypeOK
  <2>3. CopyFollowsDisk'
    <3>1. tmp' \in {tmp, None}
      BY <1>14 DEF Crash
    <3> QED BY <2>1, <3>1 DEF IInv, CopyFollowsDisk
  <2>4. CacheFollowsDisk'
    BY <1>14 DEF Crash, IInv, CacheFollowsDisk, Consistent, TypeOK
  <2> QED BY <1>1, <2>1, <2>2, <2>3, <2>4 DEF IInv, Consistent, DiskIsNewest, AckedIsDurable
<1>15. CASE UNCHANGED vars
  BY <1>1, <1>15 DEF vars, IInv, Consistent, OneWriter, CopyFollowsDisk,
     CacheFollowsDisk, DiskIsNewest, AckedIsDurable
<1> QED
  BY <1>2, <1>3, <1>4, <1>5, <1>6, <1>7, <1>8, <1>9, <1>10, <1>11, <1>12, <1>13,
     <1>14, <1>15 DEF Next, Advance

LEMMA InvariantInit == Init => IInv
<1> SUFFICES ASSUME Init PROVE IInv
  OBVIOUS
<1>1. disk \in State /\ Consistent(disk) /\ disk.revision = 0
  BY EmptyStore DEF Init
<1>2. DiskIsNewest
  BY <1>1 DEF Init, DiskIsNewest
<1> QED BY <1>1, <1>2, TypeInit
        DEF Init, IInv, OneWriter, CopyFollowsDisk, CacheFollowsDisk, AckedIsDurable

THEOREM InvariantHolds == Spec => []IInv
BY InvariantInit, InvariantStep, PTL DEF Spec

-----------------------------------------------------------------------------
(* The theorems *)

\* What a process reads was in the file and has in it everything its own callers
\* were told is done, however its calls overlap, fail and are refused, and whatever
\* other processes write.
THEOREM ReadsOwnWorkHolds == Spec => []ReadsOwnWork
<1>1. IInv => ReadsOwnWork
  BY DEF IInv, CacheFollowsDisk, ReadsOwnWork
<1> QED BY <1>1, InvariantHolds, PTL

\* A request reported done is never lost.
THEOREM AckedIsDurableHolds == Spec => []AckedIsDurable
<1>1. IInv => AckedIsDurable
  BY DEF IInv
<1> QED BY <1>1, InvariantHolds, PTL

\* The store moves one revision at a time and keeps its receipts.
THEOREM PublishedInOrderHolds == Spec => PublishedInOrder
<1>1. IInv /\ [Next]_vars => (disk' # disk =>
        disk'.revision = disk.revision + 1 /\ disk.receipts \subseteq disk'.receipts)
  <2> SUFFICES ASSUME IInv, [Next]_vars, disk' # disk
               PROVE  disk'.revision = disk.revision + 1
                      /\ disk.receipts \subseteq disk'.receipts
    OBVIOUS
  <2>1. PICK t \in Thread : Publish(t)
    BY DEF Next, Advance, vars, SnapshotHit, Begin, Unavailable, Refuse,
       AnswerUnchanged, Change, RevisionExhausted, Write, SaveFails, Finish,
       Invalidate, Crash
  <2>2. TypeOK'
    BY TypeStep DEF IInv
  <2> QED BY <2>1, <2>2, PublishKeeps
<1> QED BY <1>1, InvariantHolds, PTL DEF Spec, PublishedInOrder

\* No step of a caller answers a request or moves the file unless the call is
\* one that ends well or one that publishes.
LEMMA QuietSteps ==
  ASSUME IInv, [Next]_vars
  PROVE  \/ UNCHANGED <<disk, acked>>
         \/ \E t \in Thread : Publish(t) /\ UNCHANGED acked
         \/ \E t \in Thread : /\ UNCHANGED disk
                              /\ acked' = Told(t)
                              /\ AckedIsDurable'
<1>0. TypeOK' /\ IInv'
  BY TypeStep, InvariantStep DEF IInv
<1>1. ASSUME NEW t \in Thread, Publish(t) PROVE UNCHANGED acked
  BY <1>1 DEF Publish
<1>2. ASSUME NEW t \in Thread, AnswerUnchanged(t) \/ Finish(t)
      PROVE  /\ UNCHANGED disk
             /\ acked' = Told(t)
             /\ AckedIsDurable'
  BY <1>0, <1>2 DEF AnswerUnchanged, Finish, Succeed, Return, AckedBySave,
     IInv
<1>3. ASSUME NEW t \in Thread, Refuse(t) \/ RevisionExhausted(t) \/ SaveFails(t)
      PROVE  UNCHANGED <<disk, acked>>
  BY <1>3 DEF Refuse, RevisionExhausted, SaveFails, Fail, Return, AckedBySave
<1>4. ASSUME NEW t \in Thread, Change(t) \/ Write(t) \/ SnapshotHit(t)
                               \/ Unavailable(t) \/ Invalidate(t)
      PROVE  UNCHANGED <<disk, acked>>
  BY <1>4 DEF Change, Write, SnapshotHit, Unavailable, Invalidate
<1>5. ASSUME NEW t \in Thread, NEW k \in Key \union {None}, Begin(t, k)
      PROVE  UNCHANGED <<disk, acked>>
  BY <1>5 DEF Begin
<1>6. ASSUME NEW p \in Proc, Crash(p) PROVE UNCHANGED <<disk, acked>>
  BY <1>6 DEF Crash
<1>7. CASE UNCHANGED vars
  BY <1>7 DEF vars
<1> QED BY <1>1, <1>2, <1>3, <1>4, <1>5, <1>6, <1>7 DEF Next, Advance

\* Every step of the store is a step of the ledger or leaves it unchanged: the
\* rename is the moment a request is applied, the answer the moment it is
\* acknowledged.
THEOREM ImplementsLedgerHolds == Spec => ImplementsLedger
<1>1. Init => Promise!LedgerInit
  <2> SUFFICES ASSUME Init PROVE Promise!LedgerInit
    OBVIOUS
  <2>1. disk \in State /\ Consistent(disk)
    BY EmptyStore DEF Init
  <2>2. disk.receipts \in SUBSET AllKey /\ disk.credit \in [AllKey -> Nat]
    BY <2>1 DEF State
  <2>3. disk.credit = [r \in AllKey |-> IF r \in disk.receipts THEN 1 ELSE 0]
    BY <2>1, <2>2 DEF Consistent
  <2>4. Done = {}
    BY DEF Init, Done
  <2> QED BY <2>2, <2>3, <2>4 DEF Promise!LedgerInit
<1>2. IInv /\ [Next]_vars => [Promise!LedgerNext]_Promise!ledgerVars
  <2> SUFFICES ASSUME IInv, [Next]_vars
               PROVE  [Promise!LedgerNext]_Promise!ledgerVars
    OBVIOUS
  <2>0. IInv' /\ disk \in State /\ disk' \in State /\ acked \in [Proc -> SUBSET Key]
    BY InvariantStep DEF IInv, TypeOK
  <2>1. CASE UNCHANGED <<disk, acked>>
    BY <2>1 DEF Done, Promise!ledgerVars
  <2>2. ASSUME NEW t \in Thread, Publish(t), UNCHANGED acked
        PROVE  Promise!LedgerNext
    <3> DEFINE new == disk'.receipts \ disk.receipts
    <3>1. /\ disk.receipts \subseteq disk'.receipts
          /\ disk'.receipts \in SUBSET AllKey
          /\ disk.credit \in [AllKey -> Nat] /\ disk'.credit \in [AllKey -> Nat]
      BY <2>0, <2>2, PublishKeeps DEF IInv, State
    <3>2. Consistent(disk) /\ Consistent(disk')
      BY <2>0 DEF IInv, Consistent
    <3>3. new \in SUBSET AllKey /\ new \cap disk.receipts = {}
          /\ disk'.receipts = disk.receipts \union new
      BY <3>1
    <3>4. disk'.credit = [r \in AllKey |-> IF r \in new THEN disk.credit[r] + 1
                                           ELSE disk.credit[r]]
      BY <3>1, <3>2 DEF Consistent
    <3>5. Promise!Apply(new)
      BY <3>3, <3>4, <2>2 DEF Done, Promise!Apply
    <3> QED BY <3>3, <3>5 DEF Promise!LedgerNext
  <2>3. ASSUME NEW t \in Thread, UNCHANGED disk,
               acked' = Told(t), AckedIsDurable'
        PROVE  [Promise!LedgerNext]_Promise!ledgerVars
    <3>0. Home[t] \in Proc /\ acked' = [acked EXCEPT ![Home[t]] = @ \union ({task[t]} \ {None})]
      BY <2>3, ConstantsAssumption DEF Told
    <3>1. CASE task[t] = None
      <4>1. acked' = acked
        BY <2>0, <3>0, <3>1
      <4>2. Done' = Done
        BY <4>1 DEF Done
      <4> QED BY <2>3, <4>2 DEF Promise!ledgerVars
    <3>2. CASE task[t] # None
      <4>1. /\ task[t] \in AllKey /\ task[t] \in acked'[Home[t]]
            /\ acked'[Home[t]] = acked[Home[t]] \union {task[t]}
            /\ \A p \in Proc : p # Home[t] => acked'[p] = acked[p]
        BY <2>0, <3>0, <3>2 DEF IInv, TypeOK, AllKey
      <4>2. task[t] \in disk.receipts
        BY <2>3, <3>0, <4>1 DEF AckedIsDurable
      <4>3. Done' = Done \union {task[t]}
        BY <3>0, <4>1 DEF Done
      <4>4. Promise!Acknowledge(task[t])
        BY <2>3, <4>2, <4>3 DEF Promise!Acknowledge
      <4> QED BY <4>1, <4>4 DEF Promise!LedgerNext
    <3> QED BY <3>1, <3>2
  <2> QED BY <2>1, <2>2, <2>3, QuietSteps
<1> QED
  BY <1>1, <1>2, InvariantHolds, PTL DEF Spec, ImplementsLedger, Promise!LedgerSpec

\* What an instance was shown of the store never goes back.
THEOREM ReadsNeverGoBackHolds == Spec => ReadsNeverGoBack
<1>1. IInv /\ [Next]_vars => \A p \in Proc : seen'[p] >= seen[p]
  <2> SUFFICES ASSUME IInv, [Next]_vars, NEW p \in Proc PROVE seen'[p] >= seen[p]
    OBVIOUS
  <2>0. /\ seen \in [Proc -> 0..MaxRevision] /\ disk.revision \in Int
        /\ seen[p] <= disk.revision
        /\ cached[p] # None => /\ cached[p].revision \in Int
                               /\ seen[p] <= cached[p].revision
    BY DEF IInv, TypeOK, State, CacheFollowsDisk
  <2>1. ASSUME NEW t \in Thread, SnapshotHit(t) PROVE seen'[p] >= seen[p]
    BY <2>0, <2>1, ConstantsAssumption DEF SnapshotHit
  <2>2. ASSUME NEW t \in Thread, Succeed(t, disk) PROVE seen'[p] >= seen[p]
    BY <2>0, <2>2, ConstantsAssumption DEF Succeed
  <2>3. ASSUME NEW t \in Thread, Finish(t) PROVE Succeed(t, disk)
    BY <2>3 DEF Finish, IInv, CopyFollowsDisk
  <2>4. ASSUME NEW t \in Thread, AnswerUnchanged(t) PROVE Succeed(t, disk)
    BY <2>4 DEF AnswerUnchanged
  <2>5. CASE UNCHANGED seen
    BY <2>0, <2>5, ConstantsAssumption
  <2> QED
    BY <2>1, <2>2, <2>3, <2>4, <2>5
       DEF Next, Advance, vars, Begin, Unavailable, Refuse, Fail, Change,
           RevisionExhausted, Write, SaveFails, Publish, Invalidate, Crash
<1> QED BY <1>1, InvariantHolds, PTL DEF Spec, ReadsNeverGoBack

=============================================================================
