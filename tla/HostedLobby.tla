---------------------------- MODULE HostedLobby ----------------------------
(***************************************************************************)
(* What a client that joined a dedicated server's lobby believes about the *)
(* match it waits for or plays (client/component/                          *)
(* dedicated_party_client.cpp).  The server (DedicatedParty) numbers its   *)
(* selections; a selection stands here for its map and gametype.  The      *)
(* client learns them from the go message of the party, and between        *)
(* matches by querying the server over UDP each time a partystate arrives. *)
(***************************************************************************)
EXTENDS Naturals

CONSTANTS MaxMatches, MaxQueries, \* bounds on the sequence and on challenges
          Lacking  \* selections whose map or gametype the client does not have

\* try_handle_join refuses a lobby whose selection the client does not have.
ASSUME HostedLobbyAssumption ==
    /\ MaxMatches \in Nat \ {0} /\ MaxQueries \in Nat
    /\ Lacking \subseteq Nat \ {0, 1}

VARIABLES
    \* the server
    selected,  \* match_sequence
    phase,     \* "intermission", "countdown", "match" from its go message on,
               \* "results"; "over": the process has ended
    \* the client: hosted_dedicated_party_state
    known,     \* match_sequence
    shown,     \* map_name and gametype
    armed,     \* sync_after_next_go
    syncChallenge, \* numbered by the query that drew it; 0 is none
    \* its engine
    playing,   \* the match it loads or plays; 0 in the virtual lobby
    \* the network
    syncQueries, syncAnswers,
    \* history
    played     \* the last match whose go message it took

hosting == <<selected, phase>>
member == <<known, shown, armed, syncChallenge>>
hostedVars == <<hosting, member, playing, syncQueries, syncAnswers, played>>

\* The client has joined with the selection of the server's answer, which is
\* the current one or will be outdated by the next.
HostedInit ==
    /\ selected = 1 /\ phase \in {"intermission", "countdown", "match", "results"}
    /\ known = 1 /\ shown = 1 /\ armed = TRUE /\ syncChallenge = 0
    /\ playing = 0 /\ syncQueries = 0 /\ syncAnswers = {} /\ played = 0

-----------------------------------------------------------------------------
(* The server: the steps of DedicatedParty that a client can observe *)

\* BackInLobby, and in the intermission MapRotate
Select ==
    /\ phase \in {"results", "intermission"}
    /\ selected < MaxMatches
    /\ selected' = selected + 1
    /\ phase' = "intermission"
    /\ UNCHANGED <<member, playing, syncQueries, syncAnswers, played>>

\* PrepareTeams or StartCountdown.  An intermission, which starts anew with
\* every selection (60 s by default), lasts longer than any answer takes: none
\* given before the selection arrives after it.
Countdown ==
    /\ phase = "intermission"
    /\ phase' = "countdown"
    /\ syncAnswers' = {a \in syncAnswers : a.sequence = selected}
    /\ UNCHANGED <<selected, member, playing, syncQueries, played>>

\* StartsMatch sends the members the go message.
Launch ==
    /\ phase = "countdown"
    /\ phase' = "match"
    /\ UNCHANGED <<selected, member, playing, syncQueries, syncAnswers, played>>

\* The server stopped before its match was up.  It may be started once more,
\* with the same selection.
LaunchFails ==
    /\ phase = "match"
    /\ phase' = "countdown"
    /\ UNCHANGED <<selected, member, playing, syncQueries, syncAnswers, played>>

\* MatchEnded
MatchEnds ==
    /\ phase = "match"
    /\ phase' = "results"
    /\ UNCHANGED <<selected, member, playing, syncQueries, syncAnswers, played>>

\* fail_lifecycle
ServerEnds ==
    /\ phase # "over"
    /\ phase' = "over"
    /\ UNCHANGED <<selected, member, playing, syncQueries, syncAnswers, played>>

\* send_info_response.  A query that is lost, late or doubled is one that is
\* answered never, late or twice.
Answer(c) ==
    /\ phase # "over"
    /\ syncAnswers' = syncAnswers \union {[challenge |-> c, sequence |-> selected]}
    /\ UNCHANGED <<hosting, member, playing, syncQueries, played>>

-----------------------------------------------------------------------------
(* The client *)

\* party_client_process_party_state_stub in the virtual lobby, with
\* request_hosted_dedicated_party_sync; a newer query supersedes an older.
PartyState ==
    /\ playing = 0 /\ armed
    /\ syncQueries < MaxQueries
    /\ syncQueries' = syncQueries + 1
    /\ syncChallenge' = syncQueries'
    /\ UNCHANGED <<hosting, known, shown, armed, playing, syncAnswers, played>>

\* An answer, whatever it says, ends its query.
AfterAnswer == 0
IsNewer(sequence) == sequence > known
\* update_hosted_dedicated_party_match resolves the map and the gametype.
Resolved(match) == match \notin Lacking

\* try_handle_sync_response; a match that is not resolved leaves all as it was.
SyncResponse(a) ==
    /\ syncChallenge # 0 /\ a.challenge = syncChallenge
    /\ syncChallenge' = AfterAnswer
    /\ IF IsNewer(a.sequence) /\ Resolved(a.sequence)
       THEN known' = a.sequence /\ shown' = a.sequence /\ armed' = FALSE
       ELSE UNCHANGED <<known, shown, armed>>
    /\ UNCHANGED <<hosting, playing, syncQueries, syncAnswers, played>>

GoUpdatesNothing == UNCHANGED <<shown, armed>>
\* What a go message says is shown at once, and the query after it is armed.
GoUpdates ==
    IF Resolved(selected) THEN shown' = selected /\ armed' = TRUE
                          ELSE UNCHANGED <<shown, armed>>

\* party_client_handle_go_stub.  The engine gets the message in any case; it may
\* ignore or defer it while its lobby loads, or without the map.
HandleGo ==
    /\ phase = "match" /\ playing = 0
    /\ GoUpdates
    /\ \/ playing' = selected /\ played' = selected
       \/ UNCHANGED <<playing, played>>
    /\ UNCHANGED <<hosting, known, syncChallenge, syncQueries, syncAnswers>>

\* The engine returns to the virtual lobby when the server's match is over or
\* does not come about.
ReturnToLobby ==
    /\ playing # 0
    /\ selected # playing \/ phase # "match"
    /\ playing' = 0
    /\ UNCHANGED <<hosting, member, syncQueries, syncAnswers, played>>

HostedNext ==
    \/ Select \/ Countdown \/ Launch \/ LaunchFails \/ MatchEnds \/ ServerEnds
    \/ \E c \in 1..syncQueries : Answer(c)
    \/ PartyState \/ HandleGo \/ ReturnToLobby
    \/ \E a \in syncAnswers : SyncResponse(a)

HostedSpec == HostedInit /\ [][HostedNext]_hostedVars

-----------------------------------------------------------------------------
(* Properties *)

\* While the server's match is on, a client in it shows that match, whichever
\* answers come late within the time of an intermission and whichever selections
\* before it the client could not resolve.  Nothing is said of a match whose own
\* map or gametype it does not have.
ShownIsPlayed ==
    phase = "match" /\ playing = selected /\ Resolved(selected) => shown = playing

\* dedicated_party_client.cpp:400-402, "Party state can arrive during post-match
\* results before the host has selected the next rotation entry. Keep this
\* armed until that selection": the client stops asking only when it knows a
\* selection newer than the match it has played.  It does not hold: a go
\* message leaves match_sequence behind, so an answer about the match that is
\* being played, or has just been, counts as the next selection.
AsksUntilNextSelection == ~armed => known > played

=============================================================================
