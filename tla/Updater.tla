------------------------------- MODULE Updater -------------------------------
(***************************************************************************)
(* Updating an installation that several instances of S2x start from:      *)
(* component/updater.cpp on the thread it runs at every start, and         *)
(* updater/file_updater.cpp.                                               *)
(*                                                                         *)
(* s2x.exe is replaced while it runs: Windows lets a running image be      *)
(* renamed, to s2x.exe.old, but neither deleted nor written.  One global   *)
(* mutex lets one instance at a time look at the files.  Downloads, users  *)
(* who cancel, starts of processes and files that are in use may fail, and *)
(* an instance may die at any moment.                                      *)
(***************************************************************************)
EXTENDS Integers, FiniteSets

CONSTANTS Instance,   \* instances of S2x that may run at a time
          Data,       \* files under data/ in the manifest
          Content,    \* the release in which each file last changed, per release
          MaxRelease, MaxStarts,   \* bounds
          Abandoned, None

Release == 1..MaxRelease

ASSUME UpdaterAssumption ==
    /\ MaxRelease \in Nat \ {0} /\ MaxStarts \in Nat
    /\ Content \in [Data -> [Release -> Release]]
    /\ \A f \in Data, r \in Release : Content[f][r] <= r
    /\ {Abandoned, None} \cap (Instance \union Release) = {} /\ Abandoned # None

VARIABLES
    released,   \* the newest release on the update server
    exe,        \* s2x.exe: the release it was built from; None: no such file
    old,        \* s2x.exe.old
    data,       \* the files under data/
    mutex,      \* "Global\s2x-updater-...": its owner
    instance,   \* of each instance, where it is in update() or the game
    starts,     \* starts by users
    lost        \* history: an instance died, or could not restore, with s2x.exe renamed

files == <<exe, old, data>>
vars == <<released, files, mutex, instance, starts, lost>>

Stages == {"waiting", "clean", "plan", "rename", "fetch", "restore", "relaunch", "data", "error", "done", "game"}
State == [at : Stages,
          image : {"exe", "old"},    \* the file it was loaded from, by today's name
          update : BOOLEAN,          \* -update
          replaced : BOOLEAN,        \* binary_was_replaced
          manifest : Release \union {None},
          todo : SUBSET Data,
          cancelled : BOOLEAN,
          failed : {"nothing", "update", "relaunch", "end"}]   \* what was reported

ASSUME NoneIsNoState == None \notin State

TypeOK ==
    /\ released \in Release
    /\ {exe, old} \subseteq Release \union {None}
    /\ data \in [Data -> Release \union {None}]
    /\ mutex \in Instance \union {Abandoned, None}
    /\ instance \in [Instance -> State \union {None}]
    /\ starts \in 0..MaxStarts /\ lost \in BOOLEAN

Started(update) == [at |-> "waiting", image |-> "exe", update |-> update, replaced |-> FALSE,
                    manifest |-> None, todo |-> {}, cancelled |-> FALSE, failed |-> "nothing"]

\* An installation of the first release, its data not downloaded yet.
Init ==
    /\ released = 1 /\ exe = 1 /\ old = None
    /\ data = [f \in Data |-> None]
    /\ mutex = None
    /\ instance = [i \in Instance |-> None]
    /\ starts = 0 /\ lost = FALSE

-----------------------------------------------------------------------------
(* Steps of an instance *)

Alive(i) == instance[i] # None
At(i, stage) == Alive(i) /\ instance[i].at = stage
Image(i) == IF instance[i].image = "exe" THEN exe ELSE old
RunningOld == \E i \in Instance : Alive(i) /\ instance[i].image = "old"

Goes(i, stage) == instance' = [instance EXCEPT ![i].at = stage]
Fails(i, what) == instance' = [instance EXCEPT ![i].at = "error", ![i].failed = what]

\* TerminateProcess while it owns the mutex; the slot is free again.
Released(i) == IF mutex = i THEN Abandoned ELSE mutex
Terminates(i) == instance' = [instance EXCEPT ![i] = None] /\ mutex' = Released(i)
\* relaunch_self() and the end of this process: its place is taken by one with the
\* same arguments.
Relaunches(i) == instance' = [instance EXCEPT ![i] = Started(instance[i].update)] /\ mutex' = Released(i)

ObtainableIfFree == mutex = None
ObtainableAlways == TRUE
\* The result of the wait is not looked at: an abandoned mutex is obtained too.
Obtainable == mutex \in {None, Abandoned}

\* running_binary_was_replaced(): FALSE when s2x.exe cannot be read.
WasReplaced(i) == exe # None /\ exe # Image(i)

Lock(i) ==
    /\ At(i, "waiting") /\ Obtainable
    /\ mutex' = i
    /\ instance' = [instance EXCEPT ![i].at = "clean", ![i].replaced = WasReplaced(i)]
    /\ UNCHANGED <<released, files, starts, lost>>

\* cleanup_previous_binary(): whether s2x.exe.old could be removed or not.
Cleanup(i) ==
    /\ At(i, "clean")
    /\ old' \in {old} \union (IF RunningOld THEN {} ELSE {None})
    /\ Goes(i, IF instance[i].update THEN "plan" ELSE "done")
    /\ UNCHANGED <<released, exe, data, mutex, starts, lost>>

Outdated(f) == data[f] # Content[f][released]

DataFirst(outdated) == IF outdated # {} THEN "data" ELSE IF exe # released THEN "rename" ELSE "done"
\* update_host_binary() comes before update_files(), and never returns.
FirstStep(outdated) == IF exe # released THEN "rename" ELSE IF outdated # {} THEN "data" ELSE "done"

\* file_updater::run(): the manifest, and what differs from it.
Plan(i) ==
    /\ At(i, "plan")
    /\ LET outdated == {f \in Data : Outdated(f)}
       IN  instance' = [instance EXCEPT ![i].at = FirstStep(outdated), ![i].manifest = released,
                                        ![i].todo = outdated]
    /\ UNCHANGED <<released, files, mutex, starts, lost>>

PlanFails(i) ==
    /\ At(i, "plan")
    /\ Fails(i, "update")
    /\ UNCHANGED <<released, files, mutex, starts, lost>>

\* move_current_process_file(): an instance that still runs s2x.exe.old forbids it.
Rename(i) ==
    /\ At(i, "rename") /\ ~RunningOld /\ exe # None
    /\ old' = exe /\ exe' = None
    /\ instance' = [k \in Instance |->
            IF ~Alive(k) THEN None
            ELSE [instance[k] EXCEPT !.image = "old", !.at = IF k = i THEN "fetch" ELSE @]]
    /\ UNCHANGED <<released, data, mutex, starts, lost>>

RenameFails(i) ==
    /\ At(i, "rename")
    /\ old' \in {old} \union (IF RunningOld THEN {} ELSE {None})
    /\ Fails(i, "update")
    /\ UNCHANGED <<released, exe, data, mutex, starts, lost>>

\* update_file() of s2x.exe: what the server has must be what the manifest says.
FetchExe(i) ==
    /\ At(i, "fetch") /\ released = instance[i].manifest
    /\ exe' = instance[i].manifest
    /\ Goes(i, "relaunch")
    /\ UNCHANGED <<released, old, data, mutex, starts, lost>>

\* catch (...): a user who cancels is one of the exceptions.
AfterFailure(cancelled) == "restore"

FetchExeFails(i) ==
    /\ At(i, "fetch")
    /\ \E cancelled \in BOOLEAN :
           instance' = [instance EXCEPT ![i].at = AfterFailure(cancelled), ![i].cancelled = cancelled]
    /\ UNCHANGED <<released, files, mutex, starts, lost>>

\* restore_current_process_file(); what was thrown is then rethrown.
Restore(i) ==
    /\ At(i, "restore")
    /\ exe' = old /\ old' = None
    /\ instance' = [k \in Instance |->
            IF ~Alive(k) \/ (k = i /\ instance[i].cancelled) THEN None
            ELSE IF k = i THEN [instance[k] EXCEPT !.image = "exe", !.at = "error", !.failed = "update"]
            ELSE [instance[k] EXCEPT !.image = "exe"]]
    /\ mutex' = IF instance[i].cancelled THEN Abandoned ELSE mutex
    /\ UNCHANGED <<released, data, starts, lost>>

RestoreFails(i) ==
    /\ At(i, "restore")
    /\ Fails(i, "update") /\ lost' = TRUE
    /\ UNCHANGED <<released, files, mutex, starts>>

\* The new executable goes on with the data, unless -norelaunch leaves that to the
\* next start.
Relaunch(i) ==
    /\ At(i, "relaunch")
    /\ Relaunches(i) \/ Terminates(i)
    /\ UNCHANGED <<released, files, starts, lost>>

\* Reported only: the replaced executable goes on.
RelaunchFails(i) ==
    /\ At(i, "relaunch")
    /\ Fails(i, "relaunch")
    /\ UNCHANGED <<released, files, mutex, starts, lost>>

\* update_files(), one after the other or, on a dedicated server, side by side.
UpdateFile(i, f) ==
    /\ At(i, "data") /\ f \in instance[i].todo
    /\ Content[f][released] = Content[f][instance[i].manifest]
    /\ data' = [data EXCEPT ![f] = Content[f][instance[i].manifest]]
    /\ instance' = [instance EXCEPT ![i].todo = @ \ {f},
                                    ![i].at = IF instance[i].todo = {f} THEN "done" ELSE "data"]
    /\ UNCHANGED <<released, exe, old, mutex, starts, lost>>

\* A user who cancels ends the instance.
UpdateFilesFails(i) ==
    /\ At(i, "data")
    /\ \/ Fails(i, "update") /\ UNCHANGED mutex
       \/ Terminates(i)
    /\ UNCHANGED <<released, files, starts, lost>>

\* report_error(): a message box, except on a dedicated server.
Acknowledge(i) ==
    /\ At(i, "error")
    /\ IF instance[i].failed = "end" THEN Terminates(i) ELSE Goes(i, "done") /\ UNCHANGED mutex
    /\ UNCHANGED <<released, files, starts, lost>>

\* The end of update(): relaunch_installed_binary(), or the lock is released and
\* the game goes on.
Done(i) ==
    /\ At(i, "done")
    /\ IF instance[i].replaced
       THEN (exe # None /\ Relaunches(i)) \/ (Fails(i, "end") /\ UNCHANGED mutex)
       ELSE Goes(i, "game") /\ mutex' = IF mutex = i THEN None ELSE mutex
    /\ UNCHANGED <<released, files, starts, lost>>

-----------------------------------------------------------------------------
(* The surroundings *)

Start(i, update) ==
    /\ ~Alive(i) /\ exe # None /\ starts < MaxStarts
    /\ instance' = [instance EXCEPT ![i] = Started(update)] /\ starts' = starts + 1
    /\ UNCHANGED <<released, files, mutex, lost>>

\* A player quits, or an instance dies or is killed.
Ends(i) ==
    /\ Alive(i)
    /\ Terminates(i)
    /\ lost' = (lost \/ instance[i].at \in {"fetch", "restore"})
    /\ UNCHANGED <<released, files, starts>>

Publish ==
    /\ released < MaxRelease /\ released' = released + 1
    /\ UNCHANGED <<files, mutex, instance, starts, lost>>

\* A user installs the newest executable by hand, which no instance may run.
Reinstall ==
    /\ mutex \in {None, Abandoned} /\ exe # released
    /\ \A i \in Instance : Alive(i) => instance[i].image = "old"
    /\ exe' = released /\ lost' = FALSE
    /\ UNCHANGED <<released, old, data, mutex, instance, starts>>

Proceed(i) ==
    \/ Lock(i) \/ Cleanup(i) \/ Plan(i) \/ PlanFails(i) \/ Rename(i) \/ RenameFails(i)
    \/ FetchExe(i) \/ FetchExeFails(i) \/ Restore(i) \/ RestoreFails(i) \/ Relaunch(i) \/ RelaunchFails(i)
    \/ (\E f \in Data : UpdateFile(i, f)) \/ UpdateFilesFails(i) \/ Done(i)

Next ==
    \/ \E i \in Instance : Proceed(i) \/ Acknowledge(i) \/ (\E update \in BOOLEAN : Start(i, update)) \/ Ends(i)
    \/ Publish \/ Reinstall

Spec == Init /\ [][Next]_vars

\* Every download ends: http.cpp gives up after 30 s without data.  Nothing is
\* assumed of users, who may leave a message box open.
FairSpec == Spec /\ \A i \in Instance : WF_vars(Proceed(i))

-----------------------------------------------------------------------------
(* Properties *)

\* Whoever cancels, fails or comes second: s2x.exe is missing only while an
\* instance replaces it, or after one died or could not undo its renaming just
\* then, and in that case s2x.exe.old is still there to be renamed by hand.  And
\* no data file is ever newer than the executable that is to load it.
InstallationHolds ==
    /\ exe = None =>
          /\ old # None
          /\ lost \/ \E i \in Instance : mutex = i /\ (At(i, "fetch") \/ At(i, "restore"))
    /\ exe # None => \A f \in Data : data[f] # None => data[f] <= exe

\* The installed files are the ones of this release.
IsInstalled(release) == exe = release /\ \A f \in Data : data[f] = Content[f][release]

\* An instance that goes on into the game runs the executable that is installed
\* then, however long it waited for another's update, unless its own relaunch
\* failed; and with -update and no error, all files are of the manifest it read.
PlaysWhatIsInstalled ==
    [][\A i \in Instance : ~At(i, "game") /\ At(i, "game")' =>
        /\ instance[i].failed # "relaunch" => exe \in {Image(i), None}
        /\ instance[i].update /\ instance[i].failed = "nothing" =>
              IsInstalled(instance[i].manifest)]_vars

\* No start hangs in the mutex because another instance died or was ended with it:
\* it gets on, unless some instance shows its user an error.
StartsGoOn ==
    \A i \in Instance : At(i, "waiting") ~>
        ~At(i, "waiting") \/ \E k \in Instance : At(k, "error")
=============================================================================
