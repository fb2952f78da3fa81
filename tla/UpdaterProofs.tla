---------------------------- MODULE UpdaterProofs ----------------------------
(***************************************************************************)
(* Proofs about Updater for any number of instances, data files, releases  *)
(* and starts.                                                             *)
(***************************************************************************)
EXTENDS Updater, TLAPS

-----------------------------------------------------------------------------
(* The inductive invariant *)

Holding == {"clean", "plan", "rename", "fetch", "restore", "relaunch", "data", "error", "done"}

\* From the wait to the end of update() an instance owns the mutex.
Owned(i, s) == s.at \in Holding => mutex = i
OwnsMutex == \A i \in Instance : Alive(i) => Owned(i, instance[i])

\* No file is newer than what was released, nor a data file than the executable
\* that is to load it, which is s2x.exe.old while there is no s2x.exe.
FilesFit ==
    /\ exe # None => exe <= released /\ \A f \in Data : data[f] # None => data[f] <= exe
    /\ old # None => old <= released
    /\ exe = None => old # None /\ \A f \in Data : data[f] # None => data[f] <= old

OldIsRunning == exe = None => \A i \in Instance : Alive(i) => instance[i].image = "old"

WindowIsHeld == exe = None => lost \/ \E i \in Instance : mutex = i /\ (At(i, "fetch") \/ At(i, "restore"))

\* What an instance has found out or done so far still holds.
StageFits(s) ==
    /\ s.at \in {"rename", "fetch", "restore", "relaunch", "data"} =>
        /\ s.manifest # None /\ s.manifest <= released
        /\ exe # None => exe <= s.manifest
        /\ s.failed = "nothing"
    /\ s.at \in {"fetch", "restore"} => exe = None /\ old # None /\ old <= s.manifest
    /\ s.at \in {"relaunch", "data"} => exe = s.manifest
    /\ s.at = "data" => \A f \in Data \ s.todo : data[f] = Content[f][s.manifest]
    /\ s.at \in {"waiting", "clean", "plan"} => s.failed = "nothing"
    /\ s.at = "error" => s.failed # "nothing"
    /\ s.at = "done" /\ s.update /\ s.failed = "nothing" => s.manifest # None /\ IsInstalled(s.manifest)

\* An owner that s2x.exe has not left behind runs it, unless it replaced it.
ImageFits(s) ==
    s.at \in Holding \ {"relaunch"} /\ ~s.replaced /\ s.failed # "relaunch"
        => exe \in {IF s.image = "exe" THEN exe ELSE old, None}

EachFits == \A i \in Instance : Alive(i) => StageFits(instance[i]) /\ ImageFits(instance[i])

IInv == TypeOK /\ OwnsMutex /\ FilesFit /\ OldIsRunning /\ WindowIsHeld /\ EachFits

-----------------------------------------------------------------------------
(* Records of instances *)

LEMMA StartedInstance == \A update \in BOOLEAN : Started(update) \in State
BY UpdaterAssumption DEF Started, State, Stages

LEMMA Moved ==
  ASSUME NEW s \in State, NEW at \in Stages
  PROVE  LET r == [s EXCEPT !.at = at]
         IN  /\ r \in State /\ r.at = at /\ r.image = s.image /\ r.update = s.update
             /\ r.replaced = s.replaced /\ r.manifest = s.manifest /\ r.todo = s.todo
             /\ r.cancelled = s.cancelled /\ r.failed = s.failed
BY DEF State

LEMMA Failed ==
  ASSUME NEW s \in State, NEW what \in {"update", "relaunch", "end"}
  PROVE  LET r == [s EXCEPT !.at = "error", !.failed = what]
         IN  /\ r \in State /\ r.at = "error" /\ r.failed = what
             /\ r.image = s.image /\ r.replaced = s.replaced
BY DEF State, Stages

\* The slot of one instance takes a new value.
Becomes(i, s) == s \in State \union {None} /\ instance' = [instance EXCEPT ![i] = s]

LEMMA Becoming ==
  ASSUME TypeOK, NEW i \in Instance, NEW s, Becomes(i, s)
  PROVE  /\ instance' \in [Instance -> State \union {None}]
         /\ instance'[i] = s
         /\ \A k \in Instance \ {i} : instance'[k] = instance[k]
BY DEF Becomes, TypeOK

LEMMA LivingInstance ==
  ASSUME TypeOK, NEW i \in Instance, Alive(i)
  PROVE  /\ instance[i] \in State
         /\ instance[i].at \in Stages
         /\ instance[i].image \in {"exe", "old"}
         /\ instance[i].manifest \in Release \union {None}
         /\ instance[i].todo \subseteq Data
         /\ instance[i].update \in BOOLEAN /\ instance[i].replaced \in BOOLEAN
<1>1. instance[i] \in State
  BY DEF TypeOK, Alive
<1> QED BY <1>1 DEF State

LEMMA GoesBecomes ==
  ASSUME TypeOK, NEW i \in Instance, Alive(i), NEW stage \in Stages, Goes(i, stage)
  PROVE  Becomes(i, [instance[i] EXCEPT !.at = stage])
BY LivingInstance, Moved DEF Goes, Becomes

LEMMA FailsBecomes ==
  ASSUME TypeOK, NEW i \in Instance, Alive(i), NEW what \in {"update", "relaunch", "end"}, Fails(i, what)
  PROVE  Becomes(i, [instance[i] EXCEPT !.at = "error", !.failed = what])
<1>1. instance' = [instance EXCEPT ![i] = [instance[i] EXCEPT !.at = "error", !.failed = what]]
  BY DEF Fails, TypeOK
<1> QED BY <1>1, LivingInstance, Failed DEF Becomes

LEMMA EndBecomes ==
  ASSUME TypeOK, NEW i \in Instance, Alive(i), Terminates(i) \/ Relaunches(i)
  PROVE  \E s \in {None, Started(instance[i].update)} : Becomes(i, s)
BY StartedInstance, LivingInstance DEF Terminates, Relaunches, Becomes

-----------------------------------------------------------------------------
(* Steps that leave the files alone *)

LEMMA QuietStep ==
  ASSUME IInv, NEW i \in Instance, NEW s, Becomes(i, s),
         UNCHANGED <<released, files>>, starts' \in 0..MaxStarts, lost' \in BOOLEAN,
         mutex' \in {mutex, i, None, Abandoned},
         mutex' = mutex \/ mutex \in {i, None, Abandoned},
         s # None => /\ s.at \in Holding => mutex' = i
                     /\ StageFits(s) /\ ImageFits(s)
                     /\ exe = None => s.image = "old",
         \/ exe # None \/ lost'
         \/ lost' = lost /\ ~At(i, "fetch") /\ ~At(i, "restore")
         \/ s # None /\ s.at = "restore" /\ mutex' = i
  PROVE  IInv'
<1> USE UpdaterAssumption
<1>1. /\ instance' \in [Instance -> State \union {None}]
      /\ instance'[i] = s
      /\ \A k \in Instance \ {i} : instance'[k] = instance[k]
  BY Becoming DEF IInv
<1>2. TypeOK'
  BY <1>1 DEF IInv, TypeOK, files
<1>3. OwnsMutex'
  <2>1. ASSUME NEW k \in Instance, k # i, Alive(k)' PROVE Owned(k, instance[k])'
    BY <1>1, <2>1 DEF IInv, OwnsMutex, Owned, Alive
  <2> QED BY <1>1, <2>1 DEF OwnsMutex, Owned, Alive
<1>4. FilesFit' /\ OldIsRunning'
  BY <1>1 DEF IInv, FilesFit, OldIsRunning, Alive, files
<1>5. WindowIsHeld'
  <2>1. CASE exe # None \/ lost'
    BY <2>1 DEF WindowIsHeld, files
  <2>2. CASE lost' = lost /\ ~At(i, "fetch") /\ ~At(i, "restore")
    BY <1>1, <2>2 DEF IInv, WindowIsHeld, At, Alive, files
  <2>3. CASE s # None /\ s.at = "restore" /\ mutex' = i
    BY <1>1, <2>3 DEF WindowIsHeld, At, Alive
  <2> QED BY <2>1, <2>2, <2>3
<1>6. EachFits'
  <2>1. ASSUME NEW r PROVE (StageFits(r)' <=> StageFits(r)) /\ (ImageFits(r)' <=> ImageFits(r))
    BY DEF StageFits, ImageFits, IsInstalled, files
  <2> QED BY <1>1, <2>1 DEF IInv, EachFits, Alive
<1> QED BY <1>2, <1>3, <1>4, <1>5, <1>6 DEF IInv

LEMMA QuietFailure ==
  ASSUME IInv, NEW i \in Instance, NEW what \in {"update", "relaunch", "end"}, Alive(i), Fails(i, what),
         UNCHANGED <<released, files, mutex, starts>>, lost' \in BOOLEAN,
         instance[i].at \in Holding,
         what # "relaunch" => instance[i].at # "relaunch" /\ instance[i].failed # "relaunch",
         lost' \/ (lost' = lost /\ ~At(i, "fetch") /\ ~At(i, "restore"))
  PROVE  IInv'
<1> DEFINE s == [instance[i] EXCEPT !.at = "error", !.failed = what]
<1>0. instance[i] \in State
  BY LivingInstance DEF IInv
<1>1. /\ s \in State /\ s.at = "error" /\ s.failed = what
      /\ s.image = instance[i].image /\ s.replaced = instance[i].replaced
  BY <1>0, Failed
<1>2. Becomes(i, s)
  BY FailsBecomes DEF IInv
<1>3. StageFits(s) /\ ImageFits(s)
  BY <1>1 DEF IInv, EachFits, StageFits, ImageFits, Holding
<1>4. mutex = i /\ (exe = None => s.image = "old")
  BY <1>1 DEF IInv, OwnsMutex, Owned, OldIsRunning
<1>5. starts' \in 0..MaxStarts
  BY DEF IInv, TypeOK
<1> HIDE DEF s
<1> QED BY <1>1, <1>2, <1>3, <1>4, <1>5, QuietStep

LEMMA QuietEnd ==
  ASSUME IInv, NEW i \in Instance, Alive(i), NEW s \in {None, Started(instance[i].update)},
         Becomes(i, s), mutex' = Released(i), s # None => exe # None,
         UNCHANGED <<released, files, starts>>, lost' \in BOOLEAN,
         lost' \/ (lost' = lost /\ ~At(i, "fetch") /\ ~At(i, "restore"))
  PROVE  IInv'
<1>1. s # None => s.at = "waiting" /\ s.failed = "nothing" /\ StageFits(s) /\ ImageFits(s)
  BY DEF Started, StageFits, ImageFits, Holding
<1>2. starts' \in 0..MaxStarts
  BY DEF IInv, TypeOK
<1> QED BY <1>1, <1>2, QuietStep DEF Released, Holding

LEMMA LockKeeps == ASSUME IInv, NEW i \in Instance, Lock(i) PROVE IInv'
<1> DEFINE s == [instance[i] EXCEPT !.at = "clean", !.replaced = WasReplaced(i)]
<1>1. Alive(i) /\ instance[i].at = "waiting" /\ instance[i] \in State
  BY LivingInstance DEF Lock, At, IInv
<1>2. instance' = [instance EXCEPT ![i] = s]
  BY DEF Lock, IInv, TypeOK
<1>3. /\ s \in State /\ s.at = "clean" /\ s.failed = instance[i].failed /\ s.image = instance[i].image
      /\ s.replaced = WasReplaced(i)
  BY <1>1 DEF State, Stages, WasReplaced
<1>4. StageFits(s) /\ ImageFits(s)
  BY <1>1, <1>3 DEF IInv, EachFits, StageFits, ImageFits, WasReplaced, Image
<1>5. exe = None => s.image = "old"
  BY <1>1, <1>3 DEF IInv, OldIsRunning
<1> HIDE DEF s
<1> QED BY <1>1, <1>2, <1>3, <1>4, <1>5, QuietStep DEF Lock, Obtainable, Becomes, At, IInv, TypeOK

LEMMA PlanKeeps == ASSUME IInv, NEW i \in Instance, Plan(i) PROVE IInv'
<1> DEFINE outdated == {f \in Data : Outdated(f)}
           s == [instance[i] EXCEPT !.at = FirstStep(outdated), !.manifest = released, !.todo = outdated]
<1>1. Alive(i) /\ instance[i].at = "plan" /\ instance[i] \in State
  BY LivingInstance DEF Plan, At, IInv
<1>2. instance' = [instance EXCEPT ![i] = s]
  BY DEF Plan, IInv, TypeOK
<1>3. FirstStep(outdated) \in {"rename", "data", "done"}
  BY DEF FirstStep
<1>4. /\ s \in State /\ s.at = FirstStep(outdated) /\ s.failed = instance[i].failed
      /\ s.image = instance[i].image /\ s.replaced = instance[i].replaced
      /\ s.manifest = released /\ s.todo = outdated
  BY <1>1, <1>3 DEF State, Stages, IInv, TypeOK
<1>5. StageFits(s)
  BY <1>1, <1>4, UpdaterAssumption
     DEF IInv, TypeOK, FilesFit, EachFits, StageFits, FirstStep, Outdated, IsInstalled, Release
<1>6. ImageFits(s)
  BY <1>1, <1>3, <1>4 DEF IInv, EachFits, ImageFits, Holding
<1>7. mutex = i /\ (exe = None => s.image = "old")
  BY <1>1, <1>4 DEF IInv, OwnsMutex, Owned, OldIsRunning, Holding
<1> HIDE DEF s
<1> QED BY <1>1, <1>2, <1>4, <1>5, <1>6, <1>7, QuietStep DEF Plan, Becomes, At, IInv, TypeOK

LEMMA FetchExeFailsKeeps == ASSUME IInv, NEW i \in Instance, FetchExeFails(i) PROVE IInv'
<1> PICK cancelled \in BOOLEAN :
        instance' = [instance EXCEPT ![i].at = AfterFailure(cancelled), ![i].cancelled = cancelled]
  BY DEF FetchExeFails
<1> DEFINE s == [instance[i] EXCEPT !.at = "restore", !.cancelled = cancelled]
<1>1. Alive(i) /\ instance[i].at = "fetch" /\ instance[i] \in State
  BY LivingInstance DEF FetchExeFails, At, IInv
<1>2. instance' = [instance EXCEPT ![i] = s]
  BY DEF AfterFailure, IInv, TypeOK
<1>3. /\ s \in State /\ s.at = "restore" /\ s.failed = instance[i].failed
      /\ s.image = instance[i].image /\ s.replaced = instance[i].replaced
      /\ s.manifest = instance[i].manifest
  BY <1>1 DEF State, Stages
<1>4. StageFits(s) /\ ImageFits(s)
  BY <1>1, <1>3 DEF IInv, EachFits, StageFits, ImageFits, Holding
<1>5. mutex = i /\ (exe = None => s.image = "old")
  BY <1>1, <1>3 DEF IInv, OwnsMutex, Owned, OldIsRunning, Holding
<1>6. Becomes(i, s) /\ starts' \in 0..MaxStarts /\ lost' \in BOOLEAN
  BY <1>2, <1>3 DEF FetchExeFails, Becomes, IInv, TypeOK
<1> HIDE DEF s
<1> QED BY <1>3, <1>4, <1>5, <1>6, QuietStep, NoneIsNoState DEF FetchExeFails

LEMMA RelaunchKeeps == ASSUME IInv, NEW i \in Instance, Relaunch(i) PROVE IInv'
<1>1. Alive(i) /\ instance[i].at = "relaunch"
  BY DEF Relaunch, At
<1>2. exe # None
  BY <1>1 DEF IInv, EachFits, StageFits
<1>3. PICK s \in {None, Started(instance[i].update)} : Becomes(i, s)
  BY <1>1, EndBecomes DEF Relaunch, IInv
<1>4. mutex' = Released(i)
  BY DEF Relaunch, Relaunches, Terminates
<1> QED BY <1>1, <1>2, <1>3, <1>4, QuietEnd DEF Relaunch, At, IInv, TypeOK

LEMMA DoneKeeps == ASSUME IInv, NEW i \in Instance, Done(i) PROVE IInv'
<1>1. Alive(i) /\ instance[i].at = "done" /\ ~At(i, "fetch") /\ ~At(i, "restore")
  BY DEF Done, At
<1>2. starts' \in 0..MaxStarts /\ lost' \in BOOLEAN /\ lost' = lost
  BY DEF Done, IInv, TypeOK
<1>3. CASE exe # None /\ Relaunches(i)
  <2>1. PICK s \in {None, Started(instance[i].update)} : Becomes(i, s)
    BY <1>1, <1>3, EndBecomes DEF IInv
  <2> QED BY <1>1, <1>2, <1>3, <2>1, QuietEnd DEF Done, Relaunches
<1>4. CASE instance[i].replaced /\ Fails(i, "end") /\ UNCHANGED mutex
  <2> DEFINE s == [instance[i] EXCEPT !.at = "error", !.failed = "end"]
  <2>1. instance[i] \in State
    BY <1>1, LivingInstance DEF IInv
  <2>2. /\ s \in State /\ s.at = "error" /\ s.failed = "end"
        /\ s.image = instance[i].image /\ s.replaced = instance[i].replaced
    BY <2>1, Failed
  <2>3. Becomes(i, s)
    BY <1>1, <1>4, FailsBecomes DEF IInv
  <2>4. StageFits(s) /\ ImageFits(s)
    BY <1>4, <2>2 DEF StageFits, ImageFits
  <2>5. mutex = i /\ (exe = None => s.image = "old")
    BY <1>1, <2>2 DEF IInv, OwnsMutex, Owned, OldIsRunning, Holding
  <2> HIDE DEF s
  <2> QED BY <1>1, <1>2, <1>4, <2>2, <2>3, <2>4, <2>5, QuietStep DEF Done
<1>5. CASE Goes(i, "game") /\ mutex' = IF mutex = i THEN None ELSE mutex
  <2> DEFINE s == [instance[i] EXCEPT !.at = "game"]
  <2>1. instance[i] \in State
    BY <1>1, LivingInstance DEF IInv
  <2>2. s \in State /\ s.at = "game" /\ s.image = instance[i].image
    BY <2>1, Moved DEF Stages
  <2>3. Becomes(i, s)
    BY <1>1, <1>5, GoesBecomes DEF IInv, Stages
  <2>4. StageFits(s) /\ ImageFits(s)
    BY <2>2 DEF StageFits, ImageFits, Holding
  <2>5. exe = None => s.image = "old"
    BY <1>1, <2>2 DEF IInv, OldIsRunning
  <2> HIDE DEF s
  <2> QED BY <1>1, <1>2, <1>5, <2>2, <2>3, <2>4, <2>5, QuietStep DEF Done, Holding
<1> QED BY <1>3, <1>4, <1>5 DEF Done

LEMMA AcknowledgeKeeps == ASSUME IInv, NEW i \in Instance, Acknowledge(i) PROVE IInv'
<1>1. Alive(i) /\ instance[i].at = "error" /\ ~At(i, "fetch") /\ ~At(i, "restore")
  BY DEF Acknowledge, At
<1>2. starts' \in 0..MaxStarts /\ lost' \in BOOLEAN /\ lost' = lost
  BY DEF Acknowledge, IInv, TypeOK
<1>3. CASE Terminates(i)
  <2>1. Becomes(i, None)
    BY <1>3 DEF Terminates, Becomes
  <2> QED BY <1>1, <1>2, <1>3, <2>1, QuietEnd DEF Acknowledge, Terminates
<1>4. CASE Goes(i, "done") /\ UNCHANGED mutex
  <2> DEFINE s == [instance[i] EXCEPT !.at = "done"]
  <2>1. instance[i] \in State
    BY <1>1, LivingInstance DEF IInv
  <2>2. /\ s \in State /\ s.at = "done" /\ s.image = instance[i].image
        /\ s.failed = instance[i].failed /\ s.replaced = instance[i].replaced
    BY <2>1, Moved DEF Stages
  <2>3. Becomes(i, s)
    BY <1>1, <1>4, GoesBecomes DEF IInv, Stages
  <2>4. StageFits(s) /\ ImageFits(s)
    BY <1>1, <2>2 DEF IInv, EachFits, StageFits, ImageFits, Holding
  <2>5. mutex = i /\ (exe = None => s.image = "old")
    BY <1>1, <2>2 DEF IInv, OwnsMutex, Owned, OldIsRunning, Holding
  <2> HIDE DEF s
  <2> QED BY <1>1, <1>2, <1>4, <2>2, <2>3, <2>4, <2>5, QuietStep DEF Acknowledge
<1> QED BY <1>3, <1>4 DEF Acknowledge

LEMMA EndsKeeps == ASSUME IInv, NEW i \in Instance, Ends(i) PROVE IInv'
<1>1. Becomes(i, None) /\ Alive(i)
  BY DEF Ends, Terminates, Becomes
<1>2. lost' \in BOOLEAN /\ (lost' \/ (lost' = lost /\ ~At(i, "fetch") /\ ~At(i, "restore")))
  BY DEF Ends, At, IInv, TypeOK
<1>3. mutex' = Released(i) /\ UNCHANGED <<released, files, starts>>
  BY DEF Ends, Terminates
<1> QED BY <1>1, <1>2, <1>3, QuietEnd

LEMMA StartKeeps == ASSUME IInv, NEW i \in Instance, NEW update \in BOOLEAN, Start(i, update) PROVE IInv'
<1> DEFINE s == Started(update)
<1>1. Becomes(i, s)
  BY StartedInstance DEF Start, Becomes
<1>2. s.at = "waiting" /\ StageFits(s) /\ ImageFits(s)
  BY DEF Started, StageFits, ImageFits, Holding
<1>3. starts' \in 0..MaxStarts /\ lost' \in BOOLEAN
  BY UpdaterAssumption DEF Start, IInv, TypeOK
<1> HIDE DEF s
<1> QED BY <1>1, <1>2, <1>3, QuietStep DEF Start, Holding

-----------------------------------------------------------------------------
(* Steps of the owner that change files *)

\* While one instance owns the mutex every other one waits for it or plays.
LEMMA OthersIdle ==
  ASSUME IInv, NEW i \in Instance, mutex = i, NEW k \in Instance \ {i}, Alive(k)
  PROVE  instance[k].at \in {"waiting", "game"} /\ instance[k].at \notin Holding
BY LivingInstance DEF IInv, OwnsMutex, Owned, Holding, Stages

\* Only the owner's slot and the files change.
LEMMA OwnerStep ==
  ASSUME IInv, NEW i \in Instance, Alive(i), mutex = i, NEW s \in State, Becomes(i, s),
         UNCHANGED <<released, mutex, starts, lost>>,
         {exe', old'} \subseteq Release \union {None}, data' \in [Data -> Release \union {None}],
         StageFits(s)', ImageFits(s)', FilesFit',
         exe' = None => /\ exe = None /\ s.image = instance[i].image
                        /\ s.at \in {"fetch", "restore"} \/ (~At(i, "fetch") /\ ~At(i, "restore"))
  PROVE  IInv'
<1>1. /\ instance' \in [Instance -> State \union {None}]
      /\ instance'[i] = s /\ s # None
      /\ \A k \in Instance \ {i} : instance'[k] = instance[k]
  BY Becoming, NoneIsNoState DEF IInv
<1>2. TypeOK'
  BY <1>1 DEF IInv, TypeOK
<1>3. OwnsMutex'
  BY <1>1, OthersIdle DEF OwnsMutex, Owned, Alive
<1>4. ASSUME NEW k \in Instance \ {i}, Alive(k)'
      PROVE  StageFits(instance[k])' /\ ImageFits(instance[k])'
  <2> DEFINE r == instance[k]
  <2>1. Alive(k) /\ instance'[k] = r
    BY <1>1, <1>4 DEF Alive
  <2>2. r.at \in {"waiting", "game"} /\ StageFits(r)
    BY <2>1, OthersIdle DEF IInv, EachFits
  <2> QED BY <2>1, <2>2 DEF StageFits, ImageFits, Holding
<1>5. EachFits'
  <2>1. StageFits(instance[i])' /\ ImageFits(instance[i])'
    BY <1>1 DEF StageFits, ImageFits, IsInstalled
  <2> QED BY <1>4, <2>1 DEF EachFits
<1>6. OldIsRunning' /\ WindowIsHeld'
  BY <1>1 DEF IInv, OldIsRunning, WindowIsHeld, Alive, At
<1> QED BY <1>2, <1>3, <1>5, <1>6 DEF IInv

LEMMA CleanupKeeps == ASSUME IInv, NEW i \in Instance, Cleanup(i) PROVE IInv'
<1>1. Alive(i) /\ instance[i].at = "clean" /\ instance[i] \in State /\ mutex = i
  BY LivingInstance DEF Cleanup, At, IInv, OwnsMutex, Owned, Holding
<1>2. PICK s \in State :
         /\ Becomes(i, s)
         /\ s.at = IF instance[i].update THEN "plan" ELSE "done"
         /\ s.image = instance[i].image /\ s.update = instance[i].update
         /\ s.replaced = instance[i].replaced /\ s.failed = instance[i].failed
  <2> DEFINE stage == IF instance[i].update THEN "plan" ELSE "done"
  <2>1. stage \in Stages
    BY DEF Stages
  <2>2. Becomes(i, [instance[i] EXCEPT !.at = stage])
    BY <1>1, <2>1, GoesBecomes DEF Cleanup, IInv
  <2> HIDE DEF stage
  <2>3. PICK s \in State :
           /\ Becomes(i, s) /\ s.at = stage
           /\ s.image = instance[i].image /\ s.update = instance[i].update
           /\ s.replaced = instance[i].replaced /\ s.failed = instance[i].failed
    <3>1. PICK r : r = [instance[i] EXCEPT !.at = stage]
      OBVIOUS
    <3>2. /\ r \in State /\ r.at = stage /\ r.image = instance[i].image /\ r.update = instance[i].update
          /\ r.replaced = instance[i].replaced /\ r.failed = instance[i].failed
      BY <1>1, <2>1, <3>1, Moved
    <3> QED BY <2>2, <3>1, <3>2
  <2> QED BY <2>3 DEF stage
<1>4. exe = None => old' = old
  BY <1>1 DEF Cleanup, RunningOld, IInv, OldIsRunning
<1>5. StageFits(s)'
  BY <1>1, <1>2 DEF IInv, EachFits, StageFits
<1>6. ImageFits(s)'
  BY <1>1, <1>2, LivingInstance DEF IInv, EachFits, ImageFits, Holding, Cleanup, RunningOld
<1>7. FilesFit' /\ {exe', old'} \subseteq Release \union {None} /\ data' \in [Data -> Release \union {None}]
  BY <1>4 DEF IInv, FilesFit, TypeOK, Cleanup
<1> QED BY <1>1, <1>2, <1>5, <1>6, <1>7, OwnerStep DEF Cleanup, At

LEMMA RenameFailsKeeps == ASSUME IInv, NEW i \in Instance, RenameFails(i) PROVE IInv'
<1>1. Alive(i) /\ instance[i].at = "rename" /\ instance[i] \in State /\ mutex = i
  BY LivingInstance DEF RenameFails, At, IInv, OwnsMutex, Owned, Holding
<1>2. PICK s \in State :
         /\ Becomes(i, s) /\ s.at = "error" /\ s.failed = "update"
         /\ s.image = instance[i].image /\ s.replaced = instance[i].replaced
  BY <1>1, Failed, FailsBecomes DEF RenameFails, IInv
<1>4. exe = None => old' = old
  BY <1>1 DEF RenameFails, RunningOld, IInv, OldIsRunning
<1>5. StageFits(s)'
  BY <1>2 DEF StageFits
<1>6. ImageFits(s)'
  BY <1>1, <1>2, LivingInstance DEF IInv, EachFits, ImageFits, StageFits, Holding, RenameFails, RunningOld
<1>7. FilesFit' /\ {exe', old'} \subseteq Release \union {None} /\ data' \in [Data -> Release \union {None}]
  BY <1>4 DEF IInv, FilesFit, TypeOK, RenameFails
<1> QED BY <1>1, <1>2, <1>5, <1>6, <1>7, OwnerStep DEF RenameFails, At

LEMMA FetchExeKeeps == ASSUME IInv, NEW i \in Instance, FetchExe(i) PROVE IInv'
<1>1. Alive(i) /\ instance[i].at = "fetch" /\ instance[i] \in State /\ mutex = i
  BY LivingInstance DEF FetchExe, At, IInv, OwnsMutex, Owned, Holding
<1>2. PICK s \in State :
         /\ Becomes(i, s) /\ s.at = "relaunch"
         /\ s.manifest = instance[i].manifest /\ s.failed = instance[i].failed
  <2>1. "relaunch" \in Stages
    BY DEF Stages
  <2>2. Becomes(i, [instance[i] EXCEPT !.at = "relaunch"])
    BY <1>1, <2>1, GoesBecomes DEF FetchExe, IInv
  <2>3. PICK r : r = [instance[i] EXCEPT !.at = "relaunch"]
    OBVIOUS
  <2>4. /\ r \in State /\ r.at = "relaunch"
        /\ r.manifest = instance[i].manifest /\ r.failed = instance[i].failed
    BY <1>1, <2>1, <2>3, Moved
  <2> QED BY <2>2, <2>3, <2>4
<1>4. /\ exe = None /\ old # None /\ old <= s.manifest
      /\ s.manifest \in Release /\ s.failed = "nothing"
      /\ exe' = s.manifest /\ released = s.manifest /\ old' = old /\ data' = data
  BY <1>1, <1>2, LivingInstance DEF IInv, EachFits, StageFits, FetchExe
<1>5. StageFits(s)' /\ ImageFits(s)'
  BY <1>2, <1>4, UpdaterAssumption DEF StageFits, ImageFits, FetchExe, Release
<1>6. FilesFit' /\ {exe', old'} \subseteq Release \union {None} /\ data' \in [Data -> Release \union {None}]
  BY <1>4, UpdaterAssumption DEF IInv, FilesFit, TypeOK, FetchExe, Release
<1>7. exe' # None
  BY <1>4, UpdaterAssumption DEF Release
<1> QED BY <1>1, <1>2, <1>5, <1>6, <1>7, OwnerStep DEF FetchExe

LEMMA UpdateFileKeeps ==
  ASSUME IInv, NEW i \in Instance, NEW f \in Data, UpdateFile(i, f)
  PROVE  IInv'
<1>1. Alive(i) /\ instance[i].at = "data" /\ instance[i] \in State /\ mutex = i
  BY LivingInstance DEF UpdateFile, At, IInv, OwnsMutex, Owned, Holding
<1>2. PICK s \in State :
         /\ Becomes(i, s)
         /\ s.at = IF instance[i].todo = {f} THEN "done" ELSE "data"
         /\ s.todo = instance[i].todo \ {f}
         /\ s.image = instance[i].image /\ s.update = instance[i].update
         /\ s.replaced = instance[i].replaced /\ s.failed = instance[i].failed
         /\ s.manifest = instance[i].manifest
  <2> DEFINE r == [instance[i] EXCEPT !.todo = instance[i].todo \ {f},
                                      !.at = IF instance[i].todo = {f} THEN "done" ELSE "data"]
  <2>1. instance' = [instance EXCEPT ![i] = r]
    BY DEF UpdateFile, IInv, TypeOK
  <2>2. /\ r \in State /\ r.at = IF instance[i].todo = {f} THEN "done" ELSE "data"
        /\ r.todo = instance[i].todo \ {f}
        /\ r.image = instance[i].image /\ r.update = instance[i].update
        /\ r.replaced = instance[i].replaced /\ r.failed = instance[i].failed
        /\ r.manifest = instance[i].manifest
    BY <1>1 DEF State, Stages
  <2> HIDE DEF r
  <2> QED BY <2>1, <2>2 DEF Becomes
<1>4. exe = s.manifest /\ s.manifest \in Release /\ s.todo \subseteq Data
  BY <1>1, <1>2, LivingInstance DEF IInv, EachFits, StageFits
<1>5. /\ data' = [data EXCEPT ![f] = Content[f][s.manifest]]
      /\ Content[f][s.manifest] \in Release /\ Content[f][s.manifest] <= s.manifest
  BY <1>2, <1>4, UpdaterAssumption DEF UpdateFile
<1>6. /\ data' \in [Data -> Release \union {None}]
      /\ \A g \in Data \ s.todo : data'[g] = Content[g][s.manifest]
  BY <1>1, <1>2, <1>5 DEF IInv, TypeOK, EachFits, StageFits
<1>7. s.at = "done" => IsInstalled(s.manifest)'
  BY <1>2, <1>4, <1>6 DEF IsInstalled, UpdateFile
<1>8. StageFits(s)'
  BY <1>1, <1>2, <1>4, <1>6, <1>7 DEF IInv, EachFits, StageFits, UpdateFile
<1>9. ImageFits(s)'
  BY <1>1, <1>2 DEF IInv, EachFits, ImageFits, Holding, UpdateFile
<1>10. FilesFit' /\ {exe', old'} \subseteq Release \union {None}
  BY <1>4, <1>5, UpdaterAssumption DEF IInv, FilesFit, TypeOK, UpdateFile
<1>11. exe' # None
  BY <1>4, UpdaterAssumption DEF UpdateFile
<1> QED BY <1>1, <1>2, <1>6, <1>8, <1>9, <1>10, <1>11, OwnerStep DEF UpdateFile

-----------------------------------------------------------------------------
(* Renaming, undoing it, and the surroundings *)

\* Every running image follows its file.
LEMMA RenameKeeps == ASSUME IInv, NEW i \in Instance, Rename(i) PROVE IInv'
<1>1. Alive(i) /\ instance[i].at = "rename" /\ instance[i] \in State /\ mutex = i
  BY LivingInstance DEF Rename, At, IInv, OwnsMutex, Owned, Holding
<1>2. /\ exe \in Release /\ exe # None /\ old' = exe /\ exe' = None
      /\ UNCHANGED <<released, data, mutex, starts, lost>>
      /\ instance[i].manifest # None /\ exe <= instance[i].manifest /\ instance[i].manifest <= released
      /\ instance[i].failed = "nothing"
  BY <1>1 DEF Rename, IInv, TypeOK, EachFits, StageFits
<1>3. ASSUME NEW k \in Instance
      PROVE  IF Alive(k) THEN /\ instance'[k] \in State /\ instance'[k].image = "old"
                              /\ instance'[k].at = IF k = i THEN "fetch" ELSE instance[k].at
                              /\ instance'[k].manifest = instance[k].manifest
                              /\ instance'[k].failed = instance[k].failed
                         ELSE instance'[k] = None
  <2>1. CASE Alive(k)
    <3>1. instance[k] \in State
      BY <2>1, LivingInstance DEF IInv
    <3>2. instance'[k] = [instance[k] EXCEPT !.image = "old", !.at = IF k = i THEN "fetch" ELSE instance[k].at]
      BY <2>1 DEF Rename
    <3> QED BY <2>1, <3>1, <3>2 DEF State, Stages
  <2>2. CASE ~Alive(k)
    BY <2>2 DEF Rename
  <2> QED BY <2>1, <2>2
<1>4. TypeOK'
  <2>1. instance' \in [Instance -> State \union {None}]
    BY <1>3 DEF Rename
  <2> QED BY <1>2, <2>1 DEF IInv, TypeOK
<1>5. ASSUME NEW k \in Instance, Alive(k)'
      PROVE  /\ Owned(k, instance[k])' /\ instance'[k].image = "old"
             /\ StageFits(instance[k])' /\ ImageFits(instance[k])'
  <2>1. Alive(k) /\ instance'[k].image = "old"
    BY <1>3, <1>5 DEF Alive
  <2>2. CASE k = i
    BY <1>1, <1>2, <1>3, <2>1, <2>2 DEF Owned, StageFits, ImageFits
  <2>3. CASE k # i
    <3>1. instance'[k].at \in {"waiting", "game"} /\ instance'[k].failed = instance[k].failed
      BY <1>1, <1>3, <2>1, <2>3, OthersIdle
    <3>2. StageFits(instance[k]) /\ instance'[k].at = instance[k].at
      BY <1>3, <2>1, <2>3 DEF IInv, EachFits
    <3> QED BY <2>1, <3>1, <3>2 DEF Owned, StageFits, ImageFits, Holding
  <2> QED BY <2>1, <2>2, <2>3
<1>6. FilesFit'
  BY <1>2 DEF IInv, FilesFit, TypeOK
<1>7. WindowIsHeld'
  BY <1>1, <1>2, <1>3, NoneIsNoState DEF WindowIsHeld, At, Alive
<1> QED BY <1>4, <1>5, <1>6, <1>7 DEF IInv, OwnsMutex, OldIsRunning, EachFits

LEMMA RestoreKeeps == ASSUME IInv, NEW i \in Instance, Restore(i) PROVE IInv'
<1>1. Alive(i) /\ instance[i].at = "restore" /\ instance[i] \in State /\ mutex = i
  BY LivingInstance DEF Restore, At, IInv, OwnsMutex, Owned, Holding
<1>2. /\ exe = None /\ old \in Release /\ old # None /\ exe' = old /\ old' = None
      /\ UNCHANGED <<released, data, starts, lost>>
      /\ mutex' \in {i, Abandoned}
      /\ mutex' = i \/ instance[i].cancelled
  BY <1>1 DEF Restore, IInv, TypeOK, EachFits, StageFits
<1>3. instance' \in [Instance -> State \union {None}]
  <2>1. ASSUME NEW k \in Instance
        PROVE  (IF ~Alive(k) \/ (k = i /\ instance[i].cancelled) THEN None
                ELSE IF k = i THEN [instance[k] EXCEPT !.image = "exe", !.at = "error", !.failed = "update"]
                ELSE [instance[k] EXCEPT !.image = "exe"]) \in State \union {None}
    <3>1. Alive(k) => instance[k] \in State
      BY LivingInstance DEF IInv
    <3>2. ASSUME NEW s \in State
          PROVE  /\ [s EXCEPT !.image = "exe", !.at = "error", !.failed = "update"] \in State
                 /\ [s EXCEPT !.image = "exe"] \in State
      BY DEF State, Stages
    <3> QED BY <3>1, <3>2
  <2> QED BY <2>1 DEF Restore
<1>4. ASSUME NEW k \in Instance, Alive(k)'
      PROVE  /\ Alive(k) /\ instance'[k].image = "exe"
             /\ k = i => mutex' = i /\ instance'[k].at = "error" /\ instance'[k].failed = "update"
             /\ k # i => instance'[k].at = instance[k].at /\ instance'[k].failed = instance[k].failed
  <2>1. Alive(k) /\ ~(k = i /\ instance[i].cancelled)
    BY <1>4 DEF Restore, Alive
  <2>2. instance[k] \in State
    BY <2>1, LivingInstance DEF IInv
  <2>3. CASE k = i
    <3>1. instance'[k] = [instance[k] EXCEPT !.image = "exe", !.at = "error", !.failed = "update"]
      BY <2>1, <2>3 DEF Restore
    <3> QED BY <1>2, <2>1, <2>2, <2>3, <3>1 DEF State
  <2>4. CASE k # i
    <3>1. instance'[k] = [instance[k] EXCEPT !.image = "exe"]
      BY <2>1, <2>4 DEF Restore
    <3> QED BY <2>1, <2>2, <2>4, <3>1 DEF State
  <2> QED BY <2>3, <2>4
<1>5. ASSUME NEW k \in Instance, Alive(k)'
      PROVE  Owned(k, instance[k])' /\ StageFits(instance[k])' /\ ImageFits(instance[k])'
  <2>1. CASE k = i
    BY <1>2, <1>4, <1>5, <2>1 DEF Owned, StageFits, ImageFits
  <2>2. CASE k # i
    <3>1. instance'[k].at \in {"waiting", "game"} /\ StageFits(instance[k])
      BY <1>1, <1>4, <1>5, <2>2, OthersIdle DEF IInv, EachFits
    <3> QED BY <1>4, <1>5, <2>2, <3>1 DEF Owned, StageFits, ImageFits, Holding
  <2> QED BY <2>1, <2>2
<1>6. FilesFit' /\ OldIsRunning' /\ WindowIsHeld'
  BY <1>2 DEF IInv, FilesFit, OldIsRunning, WindowIsHeld
<1>7. TypeOK'
  BY <1>2, <1>3 DEF IInv, TypeOK
<1> QED BY <1>5, <1>6, <1>7 DEF IInv, OwnsMutex, EachFits

LEMMA PublishKeeps == ASSUME IInv, Publish PROVE IInv'
<1> USE UpdaterAssumption
<1>1. /\ released' \in Release /\ released <= released'
      /\ UNCHANGED <<exe, old, data, mutex, instance, starts, lost>>
  BY DEF Publish, files, Release, IInv, TypeOK
<1>2. ASSUME NEW i \in Instance, Alive(i)
      PROVE  StageFits(instance[i])' /\ ImageFits(instance[i])'
  <2>1. instance[i].manifest # None => instance[i].manifest \in Nat
    BY <1>2, LivingInstance DEF IInv, Release
  <2> QED BY <1>1, <1>2, <2>1 DEF IInv, EachFits, StageFits, ImageFits, IsInstalled, TypeOK, Release
<1>3. FilesFit'
  BY <1>1 DEF IInv, FilesFit, TypeOK, Release
<1> QED BY <1>1, <1>2, <1>3
        DEF IInv, TypeOK, OwnsMutex, Owned, OldIsRunning, WindowIsHeld, EachFits, Alive, At

\* Nobody is inside update() then.
LEMMA ReinstallKeeps == ASSUME IInv, Reinstall PROVE IInv'
<1> USE UpdaterAssumption
<1>1. /\ exe' = released /\ released \in Release
      /\ UNCHANGED <<released, old, data, mutex, instance, starts>> /\ lost' = FALSE
  BY DEF Reinstall, IInv, TypeOK
<1>2. ASSUME NEW i \in Instance, Alive(i)
      PROVE  StageFits(instance[i])' /\ ImageFits(instance[i])'
  <2>1. instance[i].at \in {"waiting", "game"} /\ StageFits(instance[i])
    BY <1>2, LivingInstance DEF IInv, OwnsMutex, Owned, EachFits, Holding, Stages, Reinstall
  <2> QED BY <1>1, <2>1 DEF StageFits, ImageFits, Holding
<1>3. FilesFit'
  <2>1. ASSUME NEW f \in Data, data[f] # None PROVE data[f] <= released
    <3>1. data[f] \in Nat /\ released \in Nat
      BY <2>1 DEF IInv, TypeOK, Release
    <3>2. PICK file \in {exe, old} : file # None /\ data[f] <= file /\ file <= released
      BY <2>1 DEF IInv, FilesFit
    <3>3. file \in Nat
      BY <3>2 DEF IInv, TypeOK, Release
    <3> QED BY <3>1, <3>2, <3>3
  <2>2. old # None => old <= released
    BY DEF IInv, FilesFit
  <2>3. exe' # None
    BY <1>1
  <2> QED BY <1>1, <2>1, <2>2, <2>3 DEF FilesFit, Release
<1>4. exe' # None
  BY <1>1
<1> QED BY <1>1, <1>2, <1>3, <1>4
        DEF IInv, TypeOK, OwnsMutex, Owned, OldIsRunning, WindowIsHeld, EachFits, Alive

-----------------------------------------------------------------------------
(* The invariant and what follows from it *)

LEMMA InvInit == Init => IInv
<1> SUFFICES ASSUME Init PROVE IInv
  OBVIOUS
<1>1. 1 \in Release /\ 1 # None
  BY UpdaterAssumption DEF Release
<1>2. TypeOK
  <2>0. starts = 0 /\ lost = FALSE /\ MaxStarts \in Nat
    BY UpdaterAssumption DEF Init
  <2>1. starts \in 0..MaxStarts
    BY <2>0
  <2>2. data \in [Data -> Release \union {None}] /\ instance \in [Instance -> State \union {None}]
    BY DEF Init
  <2>3. lost \in BOOLEAN
    BY <2>0
  <2> QED BY <1>1, <2>1, <2>2, <2>3 DEF Init, TypeOK
<1> QED BY <1>1, <1>2
        DEF Init, IInv, OwnsMutex, FilesFit, OldIsRunning, WindowIsHeld, EachFits, Alive

LEMMA InvStep == IInv /\ [Next]_vars => IInv'
<1> SUFFICES ASSUME IInv, [Next]_vars PROVE IInv'
  OBVIOUS
<1>1. starts \in 0..MaxStarts /\ lost \in BOOLEAN
  BY DEF IInv, TypeOK
<1>2. ASSUME NEW i \in Instance,
             PlanFails(i) \/ RestoreFails(i) \/ RelaunchFails(i)
             \/ (At(i, "data") /\ Fails(i, "update") /\ UNCHANGED <<mutex, released, files, starts, lost>>)
      PROVE  IInv'
  <2>1. Alive(i) /\ instance[i].at \in Holding
    BY <1>2 DEF PlanFails, RestoreFails, RelaunchFails, At, Holding
  <2>2. instance[i].at # "relaunch" => instance[i].failed = "nothing"
    BY <1>2, <2>1 DEF IInv, EachFits, StageFits, PlanFails, RestoreFails, RelaunchFails, At
  <2>3. CASE PlanFails(i)
    BY <1>1, <2>1, <2>2, <2>3, QuietFailure DEF PlanFails, At
  <2>4. CASE RestoreFails(i)
    BY <1>1, <2>1, <2>2, <2>4, QuietFailure DEF RestoreFails, At
  <2>5. CASE RelaunchFails(i)
    BY <1>1, <2>1, <2>5, QuietFailure DEF RelaunchFails, At
  <2>6. CASE At(i, "data") /\ Fails(i, "update") /\ UNCHANGED <<mutex, released, files, starts, lost>>
    BY <1>1, <2>1, <2>2, <2>6, QuietFailure DEF At
  <2> QED BY <1>2, <2>3, <2>4, <2>5, <2>6
<1>3. ASSUME NEW i \in Instance, UpdateFilesFails(i) PROVE IInv'
  <2>1. CASE Terminates(i)
    <3>1. Alive(i) /\ ~At(i, "fetch") /\ ~At(i, "restore") /\ Becomes(i, None)
      BY <1>3, <2>1 DEF UpdateFilesFails, At, Terminates, Becomes
    <3>2. mutex' = Released(i) /\ UNCHANGED <<released, files, starts, lost>>
      BY <1>3, <2>1 DEF UpdateFilesFails, Terminates
    <3> QED BY <1>1, <3>1, <3>2, QuietEnd
  <2> QED BY <1>2, <1>3, <2>1 DEF UpdateFilesFails
<1>4. ASSUME NEW i \in Instance, Proceed(i) PROVE IInv'
  BY <1>2, <1>3, <1>4, LockKeeps, CleanupKeeps, PlanKeeps, RenameKeeps, RenameFailsKeeps, FetchExeKeeps,
     FetchExeFailsKeeps, RestoreKeeps, RelaunchKeeps, UpdateFileKeeps, DoneKeeps DEF Proceed
<1>5. CASE UNCHANGED vars
  BY <1>5 DEF vars, files, IInv, TypeOK, OwnsMutex, Owned, FilesFit, OldIsRunning, WindowIsHeld,
              EachFits, StageFits, ImageFits, IsInstalled, Alive, At
<1> QED BY <1>4, <1>5, AcknowledgeKeeps, StartKeeps, EndsKeeps, PublishKeeps, ReinstallKeeps DEF Next

LEMMA Invariant == Spec => []IInv
BY InvInit, InvStep, PTL DEF Spec

\* Every variable keeps its type; what is installed is a release or nothing.
THEOREM TypeCorrect == Spec => []TypeOK
<1>1. IInv => TypeOK
  BY DEF IInv
<1> QED BY <1>1, Invariant, PTL

\* s2x.exe is missing only in the window of a replacement, or after a death in it
\* that nothing repairs (file_updater.cpp update_host_binary), and no data file is
\* newer than the executable that loads it.
THEOREM InstallationHoldsAlways == Spec => []InstallationHolds
<1>1. IInv => InstallationHolds
  BY DEF IInv, FilesFit, WindowIsHeld, InstallationHolds
<1> QED BY <1>1, Invariant, PTL

Entered(i) == ~At(i, "game") /\ At(i, "game")'

LEMMA NotByBecoming ==
  ASSUME TypeOK, NEW k \in Instance, NEW s, Becomes(k, s), s # None => s.at # "game"
  PROVE  \A i \in Instance : ~Entered(i)
BY Becoming DEF Entered, At, Alive

LEMMA NotByFailing ==
  ASSUME TypeOK, NEW k \in Instance, Alive(k), NEW what \in {"update", "relaunch", "end"}, Fails(k, what)
  PROVE  \A i \in Instance : ~Entered(i)
<1> DEFINE s == [instance[k] EXCEPT !.at = "error", !.failed = what]
<1>1. Becomes(k, s) /\ s.at = "error"
  BY FailsBecomes, LivingInstance, Failed
<1> HIDE DEF s
<1> QED BY <1>1, NotByBecoming

LEMMA NotByGoing ==
  ASSUME TypeOK, NEW k \in Instance, Alive(k), NEW stage \in Stages \ {"game"}, Goes(k, stage)
  PROVE  \A i \in Instance : ~Entered(i)
<1> DEFINE s == [instance[k] EXCEPT !.at = stage]
<1>1. Becomes(k, s) /\ s.at = stage
  BY GoesBecomes, LivingInstance, Moved
<1> HIDE DEF s
<1> QED BY <1>1, NotByBecoming

LEMMA NotByEnding ==
  ASSUME TypeOK, NEW k \in Instance, Alive(k), Terminates(k) \/ Relaunches(k)
  PROVE  \A i \in Instance : ~Entered(i)
<1>1. PICK s \in {None, Started(instance[k].update)} : Becomes(k, s)
  BY EndBecomes
<1> QED BY <1>1, NotByBecoming DEF Started

\* The way into the game leads through the end of update() only.
LEMMA OnlyDoneStartsTheGame ==
  ASSUME TypeOK, Next, NEW i \in Instance, Entered(i)
  PROVE  At(i, "done") /\ ~instance[i].replaced
<1>1. ASSUME NEW k \in Instance, Lock(k) \/ Plan(k) \/ FetchExeFails(k) \/ (\E f \in Data : UpdateFile(k, f))
      PROVE  FALSE
  <2>1. Alive(k) /\ instance[k] \in State
    BY <1>1, LivingInstance DEF Lock, Plan, FetchExeFails, UpdateFile, At
  <2>2. \A j \in Instance \ {k} : instance'[j] = instance[j]
    BY <1>1 DEF Lock, Plan, FetchExeFails, UpdateFile, TypeOK
  <2>3. CASE Lock(k)
    <3>1. instance'[k] = [instance[k] EXCEPT !.at = "clean", !.replaced = WasReplaced(k)]
      BY <2>3 DEF Lock, TypeOK
    <3>2. instance'[k].at = "clean"
      BY <2>1, <3>1 DEF State
    <3> QED BY <2>2, <3>2 DEF Entered, At, Alive
  <2>4. CASE Plan(k)
    <3> DEFINE outdated == {f \in Data : Outdated(f)}
    <3>1. FirstStep(outdated) \in {"rename", "data", "done"}
      BY DEF FirstStep
    <3>2. instance' = [instance EXCEPT ![k].at = FirstStep(outdated), ![k].manifest = released,
                                       ![k].todo = outdated]
      BY <2>4 DEF Plan
    <3>3. PICK at \in {"rename", "data", "done"}, todo \in SUBSET Data :
             instance' = [instance EXCEPT ![k].at = at, ![k].manifest = released, ![k].todo = todo]
      BY <3>1, <3>2
    <3>4. instance'[k] = [instance[k] EXCEPT !.at = at, !.manifest = released, !.todo = todo]
      BY <3>3 DEF TypeOK
    <3>5. instance'[k].at = at
      BY <2>1, <3>4 DEF State
    <3> QED BY <2>2, <3>5 DEF Entered, At, Alive
  <2>5. CASE FetchExeFails(k)
    <3>1. PICK cancelled \in BOOLEAN :
             instance'[k] = [instance[k] EXCEPT !.at = "restore", !.cancelled = cancelled]
      BY <2>5 DEF FetchExeFails, AfterFailure, TypeOK
    <3>2. instance'[k].at = "restore"
      BY <2>1, <3>1 DEF State
    <3> QED BY <2>2, <3>2 DEF Entered, At, Alive
  <2>6. ASSUME NEW f \in Data, UpdateFile(k, f) PROVE FALSE
    <3>1. instance'[k] = [instance[k] EXCEPT !.todo = instance[k].todo \ {f},
                                             !.at = IF instance[k].todo = {f} THEN "done" ELSE "data"]
      BY <2>6 DEF UpdateFile, TypeOK
    <3>2. instance'[k].at \in {"done", "data"}
      BY <2>1, <3>1 DEF State
    <3> QED BY <2>2, <3>2 DEF Entered, At, Alive
  <2> QED BY <1>1, <2>3, <2>4, <2>5, <2>6
<1>2. ASSUME NEW k \in Instance, Cleanup(k) PROVE FALSE
  <2> DEFINE stage == IF instance[k].update THEN "plan" ELSE "done"
  <2>1. stage \in Stages \ {"game"} /\ Goes(k, stage) /\ Alive(k)
    BY <1>2 DEF Cleanup, At, Stages
  <2> HIDE DEF stage
  <2> QED BY <2>1, NotByGoing
<1>3. ASSUME NEW k \in Instance, FetchExe(k) PROVE FALSE
  BY <1>3, NotByGoing DEF FetchExe, At, Stages
<1>4. ASSUME NEW k \in Instance,
             PlanFails(k) \/ RenameFails(k) \/ RestoreFails(k) \/ RelaunchFails(k)
      PROVE  FALSE
  BY <1>4, NotByFailing DEF PlanFails, RenameFails, RestoreFails, RelaunchFails, At
<1>5. ASSUME NEW k \in Instance, UpdateFilesFails(k) PROVE FALSE
  BY <1>5, NotByFailing, NotByEnding DEF UpdateFilesFails, At
<1>6. ASSUME NEW k \in Instance, Relaunch(k) \/ Ends(k) PROVE FALSE
  BY <1>6, NotByEnding DEF Relaunch, Ends, At
<1>7. ASSUME NEW k \in Instance, Acknowledge(k) PROVE FALSE
  BY <1>7, NotByEnding, NotByGoing DEF Acknowledge, At, Stages
<1>8. ASSUME NEW k \in Instance, NEW update \in BOOLEAN, Start(k, update) PROVE FALSE
  <2>1. Becomes(k, Started(update)) /\ Started(update).at = "waiting"
    BY <1>8, StartedInstance DEF Start, Becomes, Started
  <2> QED BY <2>1, NotByBecoming
<1>9. ASSUME NEW k \in Instance, Rename(k) PROVE FALSE
  <2>1. Alive(i) /\ instance'[i] = [instance[i] EXCEPT !.image = "old", !.at = IF i = k THEN "fetch" ELSE instance[i].at]
    BY <1>9 DEF Rename, Entered, At, Alive
  <2> QED BY <2>1, LivingInstance DEF Entered, At, State
<1>10. ASSUME NEW k \in Instance, Restore(k) PROVE FALSE
  <2>1. /\ Alive(i) /\ instance[i] \in State
        /\ instance'[i] \in {[instance[i] EXCEPT !.image = "exe", !.at = "error", !.failed = "update"],
                             [instance[i] EXCEPT !.image = "exe"]}
    BY <1>10, LivingInstance DEF Restore, Entered, At, Alive
  <2> QED BY <2>1 DEF Entered, At, State
<1>11. ASSUME NEW k \in Instance, Done(k) PROVE At(i, "done") /\ ~instance[i].replaced
  <2>1. Alive(k)
    BY <1>11 DEF Done, At
  <2>2. ~instance[k].replaced /\ Goes(k, "game")
    BY <1>11, <2>1, NotByFailing, NotByEnding DEF Done
  <2>3. i = k
    BY <2>2 DEF Goes, Entered, At, Alive, TypeOK
  <2> QED BY <1>11, <2>2, <2>3 DEF Done
<1>12. CASE Publish \/ Reinstall
  BY <1>12 DEF Publish, Reinstall, Entered, At, Alive
<1> QED BY <1>1, <1>2, <1>3, <1>4, <1>5, <1>6, <1>7, <1>8, <1>9, <1>10, <1>11, <1>12 DEF Next, Proceed

\* An instance goes on into the game only with the executable that is installed
\* then and, after an update without an error, with all files of its manifest
\* (component/updater.cpp update): what the owner of the mutex found out still holds.
THEOREM PlaysWhatIsInstalledAlways == Spec => PlaysWhatIsInstalled
<1>1. ASSUME IInv, [Next]_vars, NEW i \in Instance, ~At(i, "game"), At(i, "game")'
      PROVE  /\ instance[i].failed # "relaunch" => exe \in {Image(i), None}
             /\ instance[i].update /\ instance[i].failed = "nothing" => IsInstalled(instance[i].manifest)
  <2>1. Next
    BY <1>1 DEF vars, At, Alive
  <2>2. At(i, "done") /\ ~instance[i].replaced
    BY <1>1, <2>1, OnlyDoneStartsTheGame DEF IInv, Entered
  <2>3. Alive(i) /\ StageFits(instance[i]) /\ ImageFits(instance[i])
    BY <1>1, <2>2 DEF IInv, EachFits, At
  <2>4. instance[i].failed # "relaunch" => exe \in {Image(i), None}
    BY <2>2, <2>3 DEF ImageFits, Image, At, Holding
  <2>5. instance[i].update /\ instance[i].failed = "nothing" => IsInstalled(instance[i].manifest)
    BY <2>2, <2>3 DEF StageFits, At
  <2> QED BY <2>4, <2>5
<1> DEFINE Plays == \A i \in Instance : ~At(i, "game") /\ At(i, "game")' =>
        /\ instance[i].failed # "relaunch" => exe \in {Image(i), None}
        /\ instance[i].update /\ instance[i].failed = "nothing" => IsInstalled(instance[i].manifest)
<1>2. IInv /\ [Next]_vars => [Plays]_vars
  BY <1>1
<1> QED BY <1>2, Invariant, PTL DEF Spec, PlaysWhatIsInstalled
=============================================================================
