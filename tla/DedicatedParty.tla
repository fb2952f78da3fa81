--------------------------- MODULE DedicatedParty ---------------------------
(***************************************************************************)
(* The hosted lobby of a dedicated server (client/component/               *)
(* dedicated_party.cpp): which match plays next, and the lifecycle that    *)
(* takes the game engine from the lobby into each match and back.          *)
(*                                                                         *)
(* Everything in the file runs on the game's main thread: the console      *)
(* commands, the once-a-frame run_lifecycle() and the hooks the engine     *)
(* calls, each one step here.  The engine itself (party, session, server)  *)
(* is external: it does what it was asked at a moment of its own, late or  *)
(* never, and between matches its playlist may change the lobby's map.     *)
(***************************************************************************)
EXTENDS Integers, Sequences

CONSTANTS Match,      \* pairs of a map and a gametype that resolve
          Configured, \* sv_maprotation after parse_map_rotation; <<>> if invalid
          MaxSelections, \* bound on match_sequence
          None, Garbage  \* Garbage: an s2x_nextmap value that is no match

ASSUME DedicatedPartyAssumption ==
    /\ Configured \in Seq(Match)
    /\ MaxSelections \in Nat
    /\ None \notin Match /\ Garbage \notin Match /\ None # Garbage

VARIABLES
    zombies,   \* the mode of the process
    stage,     \* dedicated_party_state.stage; "terminated": the process ended
    rotation,  \* .rotation
    next,      \* .next_rotation_index
    override,  \* .requested_next_match: the `map` command
    rotated,   \* .requested_rotation_match: the `map_rotate` command
    current,   \* .current_match
    sequence,  \* .match_sequence
    rotateRequested, \* map_rotate_requested
    vote,      \* s2x_nextmap
    preview,   \* s2x_nextmap_preview: <<match, fixed>>
    \* the engine
    hub,       \* virtual_lobby_loaded()
    private,   \* the private party exists and is ready
    hostState, \* PartyData.hostState: 4 is "prematch", 32 "teams"
    party,     \* map and gametype in the game lobby's settings
    server,    \* sv_running and SV_Loaded
    launched,  \* the match the server was started with
    go,        \* an xpartygo command is queued
    \* history
    source,    \* what the current match was selected from
    nudged     \* map_rotate was used since

choice == <<rotation, next, override, rotated, current, sequence, vote, preview, source>>
engine == <<hub, private, hostState, party, server, launched, go>>
vars == <<zombies, stage, choice, rotateRequested, engine, nudged>>

Stage == {"inactive", "private_party", "game_lobby", "settings", "intermission",
          "countdown", "running", "ending", "lobby", "terminated"}

TypeOK ==
    /\ zombies \in BOOLEAN
    /\ stage \in Stage
    /\ rotation \in Seq(Match)
    /\ next \in Nat /\ (next = 0 \/ next < Len(rotation))
    /\ override \in Match \union {None} /\ rotated \in Match \union {None}
    /\ current \in Match \union {None} /\ sequence \in 0..MaxSelections
    /\ rotateRequested \in BOOLEAN
    /\ vote \in Match \union {None, Garbage}
    /\ preview \in (Match \X BOOLEAN) \union {None}
    /\ {hub, private, go, nudged} \subseteq BOOLEAN
    /\ hostState \in {"none", "prematch", "teams", "other"}
    /\ party \in Match \union {None} /\ launched \in Match \union {None}
    /\ server \in {"down", "loading", "up"}
    /\ source \in {"none", "operator", "vote", "rotation"}
    /\ stage \notin {"inactive", "terminated"} => rotation # <<>>
    /\ stage \in {"settings", "intermission", "countdown", "running", "ending"} => current # None

\* +map_rotate on the command line, or the command before the dvars exist,
\* leaves rotateRequested set.
Init ==
    /\ zombies \in BOOLEAN
    /\ stage = "inactive"
    /\ rotation = <<>> /\ next = 0
    /\ override = None /\ rotated = None /\ current = None /\ sequence = 0
    /\ rotateRequested \in BOOLEAN
    /\ vote = None /\ preview = None
    /\ hub = FALSE /\ private = FALSE /\ hostState = "none"
    /\ party = None /\ server = "down" /\ launched = None /\ go = FALSE
    /\ source = "none" /\ nudged = FALSE

Alive == stage # "terminated"
IsActive == stage # "inactive"

-----------------------------------------------------------------------------
(* The choice of the next match *)

After(i) == (i + 1) % Len(rotation)

\* publish_next_preview
Preview(rot, ov, rt, i) ==
    IF ov # None THEN <<ov, TRUE>>
    ELSE IF rt # None THEN <<rt, FALSE>>
    ELSE IF rot # <<>> THEN <<rot[(i % Len(rot)) + 1], FALSE>>
    ELSE None

Chosen(m, from, ov, rt, i) ==
    [match |-> m, source |-> from, override |-> ov, rotated |-> rt, next |-> i]

VotedBesidePending(rt, i) == Chosen(vote, "vote", None, rt, After(i))
VotedOnly(rt, i) == Chosen(vote, "vote", None, None, IF rt # None THEN i ELSE After(i))
\* A vote takes the place of the next entry, and of the one after it when that
\* is the same match.
Voted(rt, i) ==
    LET j == IF rt # None THEN i ELSE After(i)
    IN  Chosen(vote, "vote", None, None, IF rotation[j + 1] = vote THEN After(j) ELSE j)

\* take_next_match
TakeNext(rt, i) ==
    IF override # None THEN Chosen(override, "operator", None, rt, i)
    ELSE IF vote \in Match THEN Voted(rt, i)
    ELSE IF rt # None THEN Chosen(rt, "rotation", None, None, i)
    ELSE Chosen(rotation[i + 1], "rotation", None, None, After(i))

\* apply_match
Apply(c) ==
    /\ sequence < MaxSelections
    /\ stage' = "settings"
    /\ current' = c.match /\ source' = c.source
    /\ sequence' = sequence + 1
    /\ override' = c.override /\ rotated' = c.rotated /\ next' = c.next
    /\ vote' = None
    /\ preview' = Preview(rotation, c.override, c.rotated, c.next)
    /\ hostState' = "prematch"
    /\ UNCHANGED <<rotation, rotateRequested, hub, private, party, server, launched, go>>

-----------------------------------------------------------------------------
(* Console commands and scripts *)

\* start(), with the rotation and the override its caller has set.
Start(rot, ov, requested) ==
    LET parsed == IF rot = <<>> /\ requested THEN Configured ELSE rot
        full == IF parsed = <<>> /\ ov # None THEN <<ov>> ELSE parsed
    IN  IF hub /\ full # <<>>
        THEN /\ stage' = "private_party"
             /\ rotation' = full
             /\ rotateRequested' = (requested /\ rot # <<>>)
             /\ next' = 0 /\ rotated' = None /\ current' = None /\ sequence' = 0
        ELSE /\ rotation' = rot /\ rotateRequested' = requested
             /\ UNCHANGED <<stage, next, rotated, current, sequence>>

\* The callback of dedicated.cpp, when the frontend is ready.
StartUp ==
    /\ stage = "inactive" /\ hub
    /\ Start(rotation, override, rotateRequested)
    /\ UNCHANGED <<override, vote, preview, source, engine, nudged>>

\* map_rotate while there is no lobby.
MapRotateFirst ==
    /\ stage = "inactive" /\ Configured # <<>>
    /\ Start(Configured, override, FALSE)
    /\ UNCHANGED <<override, vote, preview, source, engine, nudged>>

\* Before the countdown the lobby switches at once.
AppliesAtOnce == server = "down" /\ stage \in {"settings", "intermission"}

PreviewKept(rt, i) == preview
PreviewAfterRotate(rt, i) == Preview(rotation, override, rt, i)

\* map_rotate: rotate()
MapRotate ==
    /\ Alive /\ IsActive
    /\ LET taken == rotation[next + 1]
           i == After(next)
       IN  IF AppliesAtOnce
           THEN Apply(TakeNext(taken, i))
           ELSE /\ rotated' = taken /\ next' = i
                /\ preview' = PreviewAfterRotate(taken, i)
                /\ UNCHANGED <<stage, rotation, override, current, sequence, vote, source,
                               rotateRequested, engine>>
    /\ nudged' = TRUE

\* `map`: set_next_match(), and start() when there is no lobby yet.
MapCommand(m) ==
    /\ Alive
    /\ override' = m
    /\ preview' = Preview(rotation, m, rotated, next)
    /\ IF IsActive
       THEN UNCHANGED <<stage, rotation, next, rotated, current, sequence, rotateRequested>>
       ELSE Start(rotation, m, rotateRequested)
    /\ UNCHANGED <<vote, source, engine, nudged>>

\* endMatch: the engine is asked to end the match; it takes its time.
EndMatch ==
    /\ stage = "running" /\ server # "down"
    /\ stage' = "ending"
    /\ UNCHANGED <<choice, rotateRequested, engine, nudged>>

\* A script or a config sets s2x_nextmap.
SetNextMap(v) ==
    /\ Alive
    /\ vote' = v
    /\ UNCHANGED <<stage, rotation, next, override, rotated, current, sequence, preview,
                   source, rotateRequested, engine, nudged>>

-----------------------------------------------------------------------------
(* run_lifecycle *)

PrivatePartyReady == private
GameLobbyReady == hostState = "prematch"
MatchIsUp == server = "up" /\ ~hub /\ launched = current
MatchIsOver == server = "down"
LobbyIsBack == server = "down" /\ hub /\ hostState = "prematch"

PrivatePartyCreated ==
    /\ stage = "private_party" /\ PrivatePartyReady
    /\ stage' = "game_lobby"
    /\ UNCHANGED <<choice, rotateRequested, engine, nudged>>

GameLobbyCreated ==
    /\ stage = "game_lobby" /\ GameLobbyReady
    /\ Apply(TakeNext(rotated, next))
    /\ nudged' = FALSE

ApplySettings ==
    /\ stage = "settings"
    /\ party' = current
    /\ stage' = "intermission"
    /\ UNCHANGED <<choice, rotateRequested, hub, private, hostState, server, launched, go, nudged>>

\* party_matchStartDelay has passed.  Multiplayer first assigns the teams,
\* which the engine may not manage at once.
PrepareTeams ==
    /\ stage = "intermission" /\ ~zombies /\ hostState = "prematch"
    /\ hostState' \in {"prematch", "teams"}
    /\ IF hostState' = "teams" THEN stage' = "countdown" /\ go' = TRUE
       ELSE UNCHANGED <<stage, go>>
    /\ UNCHANGED <<choice, rotateRequested, hub, private, party, server, launched, nudged>>

StartCountdown ==
    /\ stage = "intermission"
    /\ hostState = IF zombies THEN "prematch" ELSE "teams"
    /\ stage' = "countdown"
    /\ go' \in IF zombies THEN BOOLEAN ELSE {TRUE}  \* not while a member is joining
    /\ UNCHANGED <<choice, rotateRequested, hub, private, hostState, party, server, launched, nudged>>

\* Zombies repeats the request until the engine has taken it.
RequestStart ==
    /\ stage = "countdown" /\ zombies
    /\ hub /\ server = "down" /\ hostState = "prematch"
    /\ go' = TRUE
    /\ UNCHANGED <<stage, choice, rotateRequested, hub, private, hostState, party, server,
                   launched, nudged>>

MatchStarted ==
    /\ stage = "countdown" /\ MatchIsUp
    /\ stage' = "running"
    /\ UNCHANGED <<choice, rotateRequested, engine, nudged>>

\* prepare_postmatch_lobby returns the party to its prematch state.
MatchEnded ==
    /\ stage \in {"running", "ending"} /\ MatchIsOver
    /\ stage' = "lobby"
    /\ hostState' = "prematch"
    /\ UNCHANGED <<choice, rotateRequested, hub, private, party, server, launched, go, nudged>>

BackInLobby ==
    /\ stage = "lobby" /\ LobbyIsBack
    /\ Apply(TakeNext(rotated, next))
    /\ nudged' = FALSE

WaitsForEngineOnly == stage \in {"private_party", "game_lobby", "countdown"} /\ server = "down"
\* What a stage waits for has a limit: 90, 30, 60, 30 and 30 seconds.
WaitsTooLong ==
    \/ stage = "private_party" /\ ~PrivatePartyReady
    \/ stage = "game_lobby" /\ ~GameLobbyReady
    \/ stage = "countdown" /\ ~MatchIsUp
    \/ stage = "ending" /\ ~MatchIsOver
    \/ stage = "lobby" /\ ~LobbyIsBack

\* fail_lifecycle: the process ends; a supervisor may start another.
Fail ==
    /\ WaitsTooLong
    /\ stage' = "terminated"
    /\ UNCHANGED <<choice, rotateRequested, engine, nudged>>

Lifecycle ==
    \/ PrivatePartyCreated \/ GameLobbyCreated \/ ApplySettings
    \/ PrepareTeams \/ StartCountdown \/ RequestStart
    \/ MatchStarted \/ MatchEnded \/ BackInLobby

-----------------------------------------------------------------------------
(* The engine, with the hooks it calls *)

HubLoads ==
    /\ Alive /\ ~hub /\ server = "down"
    /\ hub' = TRUE
    /\ UNCHANGED <<stage, choice, rotateRequested, private, hostState, party, server,
                   launched, go, nudged>>

CreatesPrivateParty ==
    /\ Alive /\ hub /\ ~private
    /\ private' = TRUE
    /\ UNCHANGED <<stage, choice, rotateRequested, hub, hostState, party, server,
                   launched, go, nudged>>

CreatesGameLobby ==
    /\ stage = "game_lobby" /\ hostState = "none"
    /\ hostState' = "prematch"
    /\ UNCHANGED <<stage, choice, rotateRequested, hub, private, party, server,
                   launched, go, nudged>>

\* Multiplayer's public lobby: the playlist may write its own map.
Playlist(m) ==
    /\ Alive /\ ~zombies /\ hostState # "none" /\ server = "down"
    /\ party' = m
    /\ UNCHANGED <<stage, choice, rotateRequested, hub, private, hostState, server,
                   launched, go, nudged>>

\* PartyHost_Frame moves the lobby between its states.
PartyFrame(state) ==
    /\ Alive /\ hostState # "none" /\ server = "down"
    /\ hostState' = state
    /\ UNCHANGED <<stage, choice, rotateRequested, hub, private, party, server,
                   launched, go, nudged>>

LaunchAsIs == party
\* party_host_start_match_stub: the selected match is written once more before
\* the go message is sent.
LaunchSettings == IF zombies THEN party ELSE current

\* PartyHost_StartMatch, from xpartygo or from the engine's own auto-start,
\* which party_host_auto_start_stub allows only in the countdown.
StartsMatch ==
    /\ stage = "countdown" /\ hub /\ server = "down"
    /\ go \/ hostState = "teams"
    /\ party' = LaunchSettings
    /\ server' = "loading" /\ hub' = FALSE /\ launched' = party'
    /\ hostState' = "other" /\ go' = FALSE
    /\ UNCHANGED <<stage, choice, rotateRequested, private, nudged>>

ServerLoads ==
    /\ Alive /\ server = "loading"
    /\ server' = "up"
    /\ UNCHANGED <<stage, choice, rotateRequested, hub, private, hostState, party,
                   launched, go, nudged>>

\* The match ends by itself, on request, or fails to load.
ServerStops ==
    /\ Alive /\ server # "down"
    /\ server' = "down"
    /\ UNCHANGED <<stage, choice, rotateRequested, hub, private, hostState, party,
                   launched, go, nudged>>

Engine ==
    \/ HubLoads \/ CreatesPrivateParty \/ CreatesGameLobby
    \/ \E m \in Match : Playlist(m)
    \/ \E state \in {"prematch", "teams", "other"} : PartyFrame(state)
    \/ StartsMatch \/ ServerLoads \/ ServerStops

Next ==
    /\ UNCHANGED zombies
    /\ \/ Lifecycle \/ Fail
       \/ StartUp \/ MapRotateFirst \/ MapRotate \/ EndMatch
       \/ \E m \in Match : MapCommand(m)
       \/ \E v \in Match \union {Garbage} : SetNextMap(v)
       \/ Engine

Spec == Init /\ [][Next]_vars

\* Frames go on and time passes.  Nothing is assumed of the engine.
FairSpec == Spec /\ WF_vars((Lifecycle \/ Fail) /\ stage' # stage /\ UNCHANGED zombies)

-----------------------------------------------------------------------------
(* Properties *)

\* The server plays the match the lobby selected and advertises, whatever the
\* playlist wrote and whatever commands arrive while it loads or runs.
LaunchedIsSelected ==
    server # "down" /\ stage \in {"countdown", "running", "ending"} => launched = current

\* "s2x_nextmap_preview says what plays next": what scripts read in a match is
\* what is selected after it unless a vote or a later command changes it.
PreviewIsNext ==
    stage \in {"settings", "intermission", "countdown", "running", "ending", "lobby"} =>
        LET kept == IF override # None THEN override
                    ELSE IF rotated # None THEN rotated ELSE rotation[next + 1]
        IN  preview = <<kept, override # None>>

\* Where the rotation goes on once a pending map_rotate has been played.
Position == (next - IF rotated # None THEN 1 ELSE 0) % Len(rotation)

\* "The rotation still moves one slot per match": an operator's match takes no
\* entry, every other match one, and a vote one more only to avoid a repeat.
RotationMovesOneSlot ==
    [][(stage \in {"game_lobby", "lobby"}) /\ stage' = "settings" =>
        LET moved == (Position' - Position) % Len(rotation)
            slots == CASE source' = "operator" -> {0}
                       [] source' = "rotation" -> {1}
                       [] source' = "vote" ->
                            IF rotation[After(Position) + 1] = current' THEN {2} ELSE {1}
        IN  moved \in {s % Len(rotation) : s \in slots}]_vars

\* "A voted match never plays twice in a row", in a rotation of at least two
\* entries whose neighbours differ and unless the operator skips entries with map_rotate.
VotedNotRepeated ==
    [][sequence' # sequence /\ source = "vote" /\ source' = "rotation" /\ ~nudged' /\ ~nudged
         /\ Len(rotation) > 1 => current' # current]_vars

\* Whatever the engine does or fails to do, no stage that waits for it lasts
\* for ever: the lifecycle goes on, or the process ends.  (The intermission
\* alone has no limit.)
NoStageHangs ==
    IsActive ~> stage \in {"intermission", "running", "terminated"} \/ sequence = MaxSelections

=============================================================================
