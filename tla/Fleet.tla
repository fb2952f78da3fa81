------------------------------- MODULE Fleet -------------------------------
(***************************************************************************)
(* The Server Manager (tools/ServerManager): the tasks that start, stop,   *)
(* restart and delete servers (ServerController.cs, FleetViewModel.cs),    *)
(* the record that ties a running process to the launch that made it       *)
(* (ManagedServerOwnershipStore.cs), and the poll that keeps the cards.    *)
(*                                                                         *)
(* The Manager shares the game folder, and with it the pid file of each    *)
(* port, with the PowerShell launcher (tools/server-launcher.ps1).  What   *)
(* it knows of processes it reads from Windows, whose list may be          *)
(* incomplete and whose process ids are used again.                        *)
(***************************************************************************)
EXTENDS Integers, FiniteSets

CONSTANTS Port,
          Preset,           \* the ports that the presets are saved with at first
          OtherPort,        \* what other processes listen on
          Pid,              \* 1..n; interchangeable
          MaxClicks, MaxBirths, MaxLauncher,    \* bounds
          MaxMoved,         \* bound on clicks and launches together, once a card has moved
          Null

ASSUME FleetAssumption ==
    /\ Preset \subseteq Port /\ OtherPort \notin Port /\ Null \notin Pid \union Port
    /\ Pid \subseteq Nat \ {0}
    /\ {MaxClicks, MaxBirths, MaxLauncher, MaxMoved} \subseteq Nat

VARIABLES
    process,    \* of each pid in use: when and by whom it was created, its port and nonce
    births,     \* processes created; numbers them and the launches
    pidFile,    \* s2x\server-<port>.pid
    record,     \* managed-servers\<port>.json
    busy,       \* ServerController._busy
    job,        \* the tasks, numbered by the click that began them
    coming,     \* servers that a profile's script will still bring up
    cards,      \* of each port with a preset, the port whose state its card shows
    status,     \* ServerState of each port
    round,      \* the poll round under way
    launcher,   \* the launcher's window
    clicks, launches

files == <<pidFile, record>>
windows == <<process, births, coming>>
bounds == <<clicks, launches>>
fleetVars == <<windows, files, busy, job, cards, status, round, launcher, bounds>>

Status == {"stopped", "up", "crashed"}    \* up: starting, running or not answering
Job == 0..MaxClicks - 1
Via == {"direct", "profile", "plainProfile"}

TypeOK ==
    /\ \A i \in Pid : process[i] # Null => process[i].born \in 1..births
    /\ births \in 0..MaxBirths
    /\ pidFile \in [Port -> Pid \union {Null}]
    /\ busy \subseteq Port /\ cards \in [Port -> Port \union {Null}]
    /\ status \in [Port -> Status]
    /\ \A j \in Job : job[j] # Null => job[j].port \in Port
    /\ clicks \in 0..MaxClicks /\ launches \in 0..MaxLauncher

FleetInit ==
    /\ process = [i \in Pid |-> Null] /\ births = 0 /\ coming = {}
    /\ pidFile = [p \in Port |-> Null] /\ record = [p \in Port |-> Null]
    /\ busy = {} /\ job = [j \in Job |-> Null]
    /\ cards = [p \in Port |-> IF p \in Preset THEN p ELSE Null]
    /\ status = [p \in Port |-> "stopped"]
    /\ round = Null
    /\ launcher = [at |-> "idle", port |-> Null, pid |-> Null]
    /\ clicks = 0 /\ launches = 0

HasCard(p) == cards[p] # Null
WithinBound == (\E p \in Port \ Preset : HasCard(p)) => clicks + launches < MaxMoved

-----------------------------------------------------------------------------
(* Windows *)

Serves(i, p) == process[i] # Null /\ process[i].port = p
Serving(p) == {i \in Pid : Serves(i, p)}
\* Two servers on one port: the scan reports the older one.
Oldest(p) == CHOOSE i \in Serving(p) : \A k \in Serving(p) : process[i].born <= process[k].born
\* ProcessInspector.DedicatedServers().  One whose list could not be read in full
\* may still name the server.
Seen(p, complete) == IF Serving(p) = {} THEN {Null}
                     ELSE IF complete THEN {Oldest(p)} ELSE Serving(p) \union {Null}

\* Start keeps the process object of the server it made, so its pid is not used again.
Held == {job[j].pid : j \in {k \in Job : job[k] # Null /\ job[k].via = "direct"}}
FreePid == {i \in Pid : process[i] = Null} \ Held

Create(i, p, nonce, by) ==
    /\ births < MaxBirths /\ i \in FreePid
    /\ i <= births + 1     \* of the pids never used before any will do
    /\ births' = births + 1
    /\ process' = [process EXCEPT ![i] = [born |-> births + 1, port |-> p, nonce |-> nonce, by |-> by]]

\* A server crashes or shuts down, a player leaves the game.
Exit(i) ==
    /\ process[i] # Null
    /\ process' = [process EXCEPT ![i] = Null]
    /\ UNCHANGED <<births, coming, files, busy, job, cards, status, round, launcher, bounds>>

\* A game client, or a server of another port.  Only one that takes a pid which was
\* used before can be mistaken for another.
OtherStarts(i) ==
    /\ i <= births /\ Create(i, OtherPort, Null, "other")
    /\ UNCHANGED <<coming, files, busy, job, cards, status, round, launcher, bounds>>

\* A script's server appears.
ComesUp(l, i) ==
    /\ l \in coming
    /\ Create(i, l.port, l.nonce, "script")
    /\ coming' = coming \ {l}
    /\ UNCHANGED <<files, busy, job, cards, status, round, launcher, bounds>>

-----------------------------------------------------------------------------
(* Tasks.  A task of the Manager runs beside the others; the port is        *)
(* claimed for the whole of it.                                             *)

CanStart(p) == status[cards[p]] \in {"stopped", "crashed"}

\* A restart is a stop that starts a server `again`, Null for the other tasks.
Begin(j, p, at, via, again) ==
    /\ j = clicks /\ HasCard(p) /\ WithinBound
    /\ job' = [job EXCEPT ![j] = [port |-> p, at |-> at, via |-> via, again |-> again,
                                  pid |-> Null, born |-> 0, nonce |-> Null, targets |-> {}, failed |-> FALSE]]
    /\ clicks' = clicks + 1
    /\ UNCHANGED <<windows, files, busy, status, round, launcher, launches>>

ClickStart(j, p) ==
    HasCard(p) /\ CanStart(p) /\ \E via \in Via : Begin(j, p, "startClaim", via, Null) /\ UNCHANGED cards
ClickStop(j, p) ==
    HasCard(p) /\ ~CanStart(p) /\ Begin(j, p, "stopClaim", "direct", Null) /\ UNCHANGED cards
ClickDelete(j, p) == Begin(j, p, "deleteScan", "direct", Null) /\ UNCHANGED cards

\* The editor saves first, and a port that was typed while no server ran moves the
\* card; the server is stopped where it is and started where the preset is now.  Of
\* the new port nothing is shown before the next round.
ClickRestart(j, p, q) ==
    /\ HasCard(p) /\ ~CanStart(p)
    /\ q = p \/ (~HasCard(q) /\ clicks + launches < MaxMoved)
    /\ \E via \in Via : Begin(j, p, "stopClaim", via, q)
    /\ cards' = [cards EXCEPT ![p] = Null, ![q] = cards[p]]

At(j, stage) == job[j] # Null /\ job[j].at = stage
Goes(j, stage) == job' = [job EXCEPT ![j].at = stage]
Ends(j) == job' = [job EXCEPT ![j] = Null] /\ busy' = busy \ {job[j].port}

AlwaysFree(p) == TRUE
Claimable(p) == p \notin busy

\* A claim that fails ends the task, and leaves the claim of the other.
Claim(j) ==
    /\ At(j, "startClaim") \/ At(j, "stopClaim")
    /\ IF Claimable(job[j].port)
       THEN /\ busy' = busy \union {job[j].port}
            /\ Goes(j, IF At(j, "startClaim") THEN "startScan" ELSE "look")
       ELSE job' = [job EXCEPT ![j] = Null] /\ busy' = busy
    /\ UNCHANGED <<windows, files, cards, status, round, launcher, bounds>>

\* Never a second server on a port, and no guess when the list is incomplete.
StartScan(j) ==
    /\ At(j, "startScan")
    /\ \E complete \in BOOLEAN, seen \in Seen(job[j].port, TRUE) :
           IF complete /\ seen = Null
           THEN Goes(j, IF job[j].via = "direct" THEN "launch" ELSE "script") /\ busy' = busy
           ELSE Ends(j)
    /\ UNCHANGED <<windows, files, cards, status, round, launcher, bounds>>

\* A launch carries a fresh nonce; a task launches once, so its number will do.
Launch(j) ==
    /\ At(j, "launch")
    /\ \E i \in Pid :
        /\ Create(i, job[j].port, j, "start")
        /\ job' = [job EXCEPT ![j].at = "write", ![j].pid = i, ![j].nonce = j]
    /\ UNCHANGED <<coming, files, busy, cards, status, round, launcher, bounds>>

\* StartProfile: the script may stage a server that comes up later; the list is
\* then searched until it is there or ten seconds have passed.
RunScript(j) ==
    /\ At(j, "script")
    /\ LET nonce == IF job[j].via = "profile" THEN j ELSE Null
       IN  /\ coming' = coming \union {[port |-> job[j].port, nonce |-> nonce]}
           /\ job' = [job EXCEPT ![j].at = "find", ![j].nonce = nonce]
    /\ UNCHANGED <<process, births, files, busy, cards, status, round, launcher, bounds>>

Find(j) ==
    /\ At(j, "find")
    /\ \E complete \in BOOLEAN : \E i \in Seen(job[j].port, complete) \ {Null} :
        /\ job[j].nonce \in {Null, process[i].nonce}
        /\ job' = [job EXCEPT ![j].at = "write", ![j].pid = i]
    /\ UNCHANGED <<windows, files, busy, cards, status, round, launcher, bounds>>

WritePid(j) ==
    /\ At(j, "write")
    /\ pidFile' = [pidFile EXCEPT ![job[j].port] = job[j].pid]
    /\ IF job[j].nonce = Null THEN Ends(j) ELSE Goes(j, "register") /\ busy' = busy
    /\ UNCHANGED <<windows, record, cards, status, round, launcher, bounds>>

\* Register(): the process is pinned by its creation time, then checked.
ValidByPort(j) == Serves(job[j].pid, job[j].port)
Valid(j) == Serves(job[j].pid, job[j].port) /\ process[job[j].pid].nonce = job[j].nonce

Validate(j) ==
    /\ At(j, "register") /\ Valid(j)
    /\ job' = [job EXCEPT ![j].at = "record", ![j].born = process[job[j].pid].born]
    /\ UNCHANGED <<windows, files, busy, cards, status, round, launcher, bounds>>

\* The process is not looked at again before the record replaces the old one.
Register(j) ==
    /\ At(j, "record")
    /\ record' = [record EXCEPT ![job[j].port] =
                     [pid |-> job[j].pid, born |-> job[j].born, instance |-> job[j].nonce]]
    /\ Ends(j)
    /\ UNCHANGED <<windows, pidFile, cards, status, round, launcher, bounds>>

\* A refusal, a script that fails or times out, a file that cannot be written: the
\* task reports and gives the port back, and leaves what it has done.
StartFails(j) ==
    /\ \E stage \in {"launch", "script", "find", "write", "register", "record"} : At(j, stage)
    /\ Ends(j)
    /\ UNCHANGED <<windows, files, cards, status, round, launcher, bounds>>

-----------------------------------------------------------------------------
(* Stop and Restart *)

\* The server that the scan names and the one of the pid file.
Look(j) ==
    /\ At(j, "look")
    /\ \E complete \in BOOLEAN : \E seen \in Seen(job[j].port, complete) :
           job' = [job EXCEPT ![j].at = "kill", ![j].targets = {seen, pidFile[job[j].port]} \ {Null}]
    /\ UNCHANGED <<windows, files, busy, cards, status, round, launcher, bounds>>

\* The command line is read again before the kill.  (A pid is not used again
\* between these two.)  Windows may refuse either.
Kill(j, i) ==
    /\ At(j, "kill") /\ i \in job[j].targets
    /\ \/ /\ Serves(i, job[j].port)
          /\ process' = [process EXCEPT ![i] = Null]
          /\ job' = [job EXCEPT ![j].targets = @ \ {i}]
       \/ \E failed \in BOOLEAN :
              job' = [job EXCEPT ![j].targets = @ \ {i}, ![j].failed = @ \/ failed] /\ UNCHANGED process
    /\ UNCHANGED <<births, coming, files, busy, cards, status, round, launcher, bounds>>

\* The pid file goes whatever was killed, unless it is in use; a restart goes on
\* when nothing failed.
DropPid(j) ==
    /\ At(j, "kill") /\ job[j].targets = {}
    /\ \E dropped \in BOOLEAN :
        /\ pidFile' = IF dropped THEN [pidFile EXCEPT ![job[j].port] = Null] ELSE pidFile
        /\ job' = [job EXCEPT ![j] =
                IF job[j].again # Null /\ dropped /\ ~job[j].failed
                THEN [job[j] EXCEPT !.at = "startClaim", !.port = job[j].again, !.again = Null] ELSE Null]
    /\ busy' = busy \ {job[j].port}
    /\ UNCHANGED <<windows, record, cards, status, round, launcher, bounds>>

-----------------------------------------------------------------------------
(* DeletePreset: a scan of its own, without a claim *)

DeleteScan(j) ==
    /\ At(j, "deleteScan")
    /\ \E complete \in BOOLEAN, seen \in Seen(job[j].port, TRUE) :
           IF complete /\ seen = Null THEN Goes(j, "deleteFiles") ELSE job' = [job EXCEPT ![j] = Null]
    /\ UNCHANGED <<windows, files, busy, cards, status, round, launcher, bounds>>

\* The preset's own file goes last, so that one which cannot be deleted stays whole.
DeleteFiles(j) ==
    /\ At(j, "deleteFiles")
    /\ pidFile' \in {pidFile, [pidFile EXCEPT ![job[j].port] = Null]}
    /\ \/ UNCHANGED cards
       \/ pidFile'[job[j].port] = Null /\ cards' = [cards EXCEPT ![job[j].port] = Null]
    /\ job' = [job EXCEPT ![j] = Null]
    /\ UNCHANGED <<windows, record, busy, status, round, launcher, bounds>>

-----------------------------------------------------------------------------
(* The poll *)

\* The ports of the cards are listed, then the processes.
PollScan(complete) ==
    /\ round = Null
    /\ \E seen \in SUBSET Port :
        LET asked == {p \in Port : HasCard(p)}
        IN  /\ asked # {} /\ seen \subseteq asked
            /\ \A p \in asked : IF p \in seen THEN Serving(p) # {} ELSE Null \in Seen(p, complete)
            /\ round' = [complete |-> complete, asked |-> asked, seen |-> seen, answers |-> {}]
    /\ UNCHANGED <<windows, files, busy, job, cards, status, launcher, bounds>>

\* The servers are asked after the scan; one that is up may answer in time, which of
\* one that was seen tells nothing more.
PollHears(p) ==
    /\ round # Null /\ p \in round.asked \ (round.seen \union round.answers)
    /\ Serving(p) # {}
    /\ round' = [round EXCEPT !.answers = @ \union {p}]
    /\ UNCHANGED <<windows, files, busy, job, cards, status, launcher, bounds>>

\* What a round makes of one port.  Whether a server that is up answers only
\* tells starting, running and not answering apart, which no decision rests on.
GoneWhileShown(p) == IF status[p] = "up" THEN "crashed" ELSE status[p]
Gone(p) == IF pidFile[p] # Null THEN "crashed" ELSE "stopped"
Applied(p) ==
    CASE p \notin round.asked -> status[p]
      [] p \in round.answers \union round.seen -> "up"
      [] ~round.complete /\ status[p] # "stopped" -> status[p]
      [] OTHER -> Gone(p)

\* The pid files are read now.  A card that has moved since the ports were listed
\* may be at one that no round knows yet: then no card is told.
Apply ==
    /\ round # Null
    /\ status' = [p \in Port |-> Applied(p)]
    /\ \/ cards' = [p \in Port |-> IF HasCard(p) THEN p ELSE Null]
       \/ (\E p \in Port : HasCard(p) /\ p \notin round.asked) /\ UNCHANGED cards
    /\ round' = Null
    /\ UNCHANGED <<windows, files, busy, job, launcher, bounds>>

\* A round that throws is dropped, and the flag it holds with it.
PollFails ==
    /\ round # Null
    /\ round' = Null
    /\ UNCHANGED <<windows, files, busy, job, cards, status, launcher, bounds>>

-----------------------------------------------------------------------------
(* The PowerShell launcher, on the same folder *)

\* Stop-S2xServer, on the way to a launch or alone.
LauncherStops(p) ==
    /\ launcher.at = "idle" /\ launches < MaxLauncher /\ WithinBound
    /\ launches' = launches + 1
    /\ process' = [i \in Pid |-> IF i \in {launcher.pid, pidFile[p]} /\ Serves(i, p) THEN Null ELSE process[i]]
    /\ pidFile' = [pidFile EXCEPT ![p] = Null]
    /\ launcher' \in {[at |-> "idle", port |-> Null, pid |-> Null],
                      [at |-> "launch", port |-> p, pid |-> Null]}
    /\ UNCHANGED <<births, coming, record, busy, job, cards, status, round, clicks>>

LauncherLaunches ==
    /\ launcher.at = "launch"
    /\ \E i \in Pid :
        /\ Create(i, launcher.port, Null, "launcher")
        /\ launcher' = [launcher EXCEPT !.at = "write", !.pid = i]
    /\ UNCHANGED <<coming, files, busy, job, cards, status, round, bounds>>

LauncherWritesPid ==
    /\ launcher.at = "write"
    /\ pidFile' = [pidFile EXCEPT ![launcher.port] = launcher.pid]
    /\ launcher' = [launcher EXCEPT !.at = "idle", !.port = Null]
    /\ UNCHANGED <<windows, record, busy, job, cards, status, round, bounds>>

Poll ==
    \/ \E complete \in BOOLEAN : PollScan(complete)
    \/ \E p \in Port : PollHears(p)
    \/ Apply \/ PollFails

FleetNext ==
    \/ \E i \in Pid : Exit(i) \/ OtherStarts(i) \/ \E l \in coming : ComesUp(l, i)
    \/ \E j \in Job :
        \/ \E p \in Port : ClickStart(j, p) \/ ClickStop(j, p) \/ ClickDelete(j, p)
        \/ \E p, q \in Port : ClickRestart(j, p, q)
        \/ Claim(j) \/ StartScan(j) \/ Launch(j) \/ RunScript(j) \/ Find(j) \/ WritePid(j)
        \/ Validate(j) \/ Register(j) \/ StartFails(j)
        \/ Look(j) \/ \E i \in Pid : Kill(j, i)
        \/ DropPid(j)
        \/ DeleteScan(j) \/ DeleteFiles(j)
    \/ Poll
    \/ (\E p \in Port : LauncherStops(p)) \/ LauncherLaunches \/ LauncherWritesPid

FleetSpec == FleetInit /\ [][FleetNext]_fleetVars

\* The timer polls every three seconds, and a round that may succeed again and
\* again, on a list that is complete, does at some time.
FleetFairSpec ==
    /\ FleetSpec
    /\ WF_fleetVars(Poll)
    /\ SF_fleetVars(PollScan(TRUE)) /\ SF_fleetVars(Apply /\ round.complete)

-----------------------------------------------------------------------------
(* Properties *)

\* ServerController.cs _busy and the scan: however starts, restarts and the
\* launcher overlap, the Manager's own launches never put two servers on a port.
OneServerPerPort == \A p \in Port : \A i, k \in Serving(p) : process[i].by = "start" /\ process[k].by = "start" => i = k

\* ManagedServerOwnershipStore.cs: when the process that a record names is alive, it
\* is the server of that launch on that port, not another that took its pid.
OwnershipIsTrue ==
    \A p \in Port : record[p] # Null /\ process[record[p].pid] # Null =>
        (process[record[p].pid].born = record[p].born
            => Serves(record[p].pid, p) /\ process[record[p].pid].nonce = record[p].instance)

\* FleetViewModel.cs: whatever a poll saw halfway through a start, a stop or an
\* unreadable list, every card comes to say what is the case at its own port again
\* and again.
Truth(p) == IF Serving(p) # {} THEN "up" ELSE IF pidFile[p] # Null THEN "crashed" ELSE "stopped"
CardsTellTheTruth == []<>(\A p \in Port : HasCard(p) => cards[p] = p /\ status[p] = Truth(p))
=============================================================================
