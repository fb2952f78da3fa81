---------------------------- MODULE LobbySession ----------------------------
(***************************************************************************)
(* A dedicated server (DedicatedParty) and a client in its lobby           *)
(* (HostedLobby), together: the server takes its own steps, the client     *)
(* its own, and it learns of the server's which match is selected and how  *)
(* far it is.  The client is in the lobby from the first selection on.     *)
(***************************************************************************)
EXTENDS DedicatedParty, HostedLobby

sessionVars == <<vars, hostedVars>>

\* party_match_sequence, from the first selection on.
Told == IF sequence = 0 THEN 1 ELSE sequence

\* From the go message on the match is on, until the lobby takes over again.
Phase ==
    CASE stage = "terminated" -> "over"
      [] stage \in {"running", "ending"} -> "match"
      [] stage = "countdown" -> IF server = "down" THEN "countdown" ELSE "match"
      [] stage = "lobby" -> "results"
      [] OTHER -> "intermission"

SessionInit ==
    /\ Init
    /\ selected = Told /\ phase = Phase
    /\ known = 1 /\ shown = 1 /\ armed = TRUE /\ syncChallenge = 0
    /\ playing = 0 /\ syncQueries = 0 /\ syncAnswers = {} /\ played = 0

\* An intermission outlasts the answers on their way (see HostedLobby).
ServerStep ==
    /\ Next
    /\ selected' = Told' /\ phase' = Phase'
    /\ syncAnswers' = IF stage = "intermission" /\ stage' = "countdown"
                      THEN {a \in syncAnswers : a.sequence = Told} ELSE syncAnswers
    /\ UNCHANGED <<member, playing, syncQueries, played>>

MemberStep ==
    /\ sequence > 0
    /\ \/ \E c \in 1..syncQueries : Answer(c)
       \/ PartyState \/ HandleGo \/ ReturnToLobby
       \/ \E a \in syncAnswers : SyncResponse(a)
    /\ UNCHANGED vars

SessionSpec == SessionInit /\ [][ServerStep \/ MemberStep]_sessionVars

=============================================================================
