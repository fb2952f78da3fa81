----------------------------- MODULE LobbyProofs -----------------------------
(***************************************************************************)
(* Proofs about the dedicated lobby, for any matches, any rotation and any *)
(* number of selections; about the client in it, for any number of queries *)
(* and with the lobby's own steps; and about how a client gets there, for  *)
(* any servers, sessions and number of attempts.                           *)
(***************************************************************************)
EXTENDS LobbySession, Connection, TLAPS

-----------------------------------------------------------------------------
(* Going round a rotation of n entries *)

LEMMA Modulo ==
  ASSUME NEW n \in Nat \ {0}, NEW i \in 0..n-1
  PROVE  /\ i % n = i
         /\ (i + 1) % n = IF i + 1 = n THEN 0 ELSE i + 1
         /\ (i - 1) % n = IF i = 0 THEN n - 1 ELSE i - 1
         /\ (i - 0) % n = i
         /\ 0 % n = 0 /\ 1 % n = IF n = 1 THEN 0 ELSE 1
         /\ 2 % n = IF n <= 2 THEN 0 ELSE 2
<1>1. i % n = i /\ (i - 0) % n = i
  BY SMT
<1>2. (i + 1) % n = IF i + 1 = n THEN 0 ELSE i + 1
  BY SMT
<1>3. (i - 1) % n = IF i = 0 THEN n - 1 ELSE i - 1
  BY SMT
<1>4. 0 % n = 0 /\ 1 % n = IF n = 1 THEN 0 ELSE 1
  BY SMT
<1>5. 2 % n = IF n <= 2 THEN 0 ELSE 2
  BY SMT
<1> QED BY <1>1, <1>2, <1>3, <1>4, <1>5

LEMMA Successor ==
  ASSUME NEW n \in Nat \ {0}, NEW i \in 0..n-1
  PROVE  (i + 1) % n \in 0..n-1
BY SMT

LEMMA ModuloDifference ==
  ASSUME NEW n \in Nat \ {0}, NEW i \in 0..n-1, NEW j \in 0..n-1
  PROVE  (i - j) % n = IF j <= i THEN i - j ELSE i - j + n
BY SMT

-----------------------------------------------------------------------------
(* The inductive invariant *)

\* A server is started in the countdown only, and the lobby goes on when it is down.
ServerInMatch == server # "down" => stage \in {"countdown", "running", "ending", "terminated"}

\* In Zombies nothing writes the party's match between its settings and the start.
SettingsStand == zombies /\ stage \in {"intermission", "countdown"} => party = current

\* The neighbours of a rotation differ, also across its end.
Differ(r) == \A i \in 0..Len(r) - 1 : r[i + 1] # r[((i + 1) % Len(r)) + 1]

\* After a voted match no map_rotate is pending and the next entry is another match,
\* until an operator uses map_rotate.
VoteSkips ==
    source = "vote" /\ ~nudged =>
        /\ stage # "inactive" /\ rotated = None
        /\ Len(rotation) > 1 /\ Differ(rotation) => rotation[next + 1] # current

RotationIsConfigured == Len(rotation) <= 1 \/ rotation = Configured
Unselected == stage = "inactive" => source = "none" /\ next = 0

IInv ==
    /\ TypeOK
    /\ ServerInMatch /\ SettingsStand /\ LaunchedIsSelected
    /\ PreviewIsNext
    /\ VoteSkips /\ RotationIsConfigured /\ Unselected

-----------------------------------------------------------------------------
(* The choice of the next match *)

Selected == Match \union {None}

LEMMA RotationEntries ==
  ASSUME TypeOK, rotation # <<>>
  PROVE  /\ Len(rotation) \in Nat \ {0}
         /\ next \in 0..Len(rotation) - 1
         /\ \A i \in 0..Len(rotation) - 1 : rotation[i + 1] \in Match /\ After(i) \in 0..Len(rotation) - 1
<1>1. Len(rotation) \in Nat \ {0}
  BY DEF TypeOK
<1>2. next \in 0..Len(rotation) - 1
  BY <1>1 DEF TypeOK
<1>3. ASSUME NEW i \in 0..Len(rotation) - 1
      PROVE  rotation[i + 1] \in Match /\ After(i) \in 0..Len(rotation) - 1
  <2>1. i + 1 \in 1..Len(rotation)
    BY <1>1
  <2>2. rotation[i + 1] \in Match
    BY <2>1 DEF TypeOK
  <2>3. PICK n \in Nat \ {0} : n = Len(rotation)
    BY <1>1
  <2>4. i \in 0..n-1 /\ (i + 1) % n \in 0..n-1
    BY <2>3, Successor
  <2> QED BY <2>2, <2>3, <2>4 DEF After
<1> QED BY <1>1, <1>2, <1>3

\* What a choice is, from a pending match of map_rotate and a position.
LEMMA TakenMatch ==
  ASSUME TypeOK, rotation # <<>>, NEW rt \in Selected, NEW i \in 0..Len(rotation) - 1
  PROVE  LET c == TakeNext(rt, i)
         IN  /\ c.match \in Match /\ c.source \in {"operator", "vote", "rotation"}
             /\ c.override = None
             /\ c.rotated = None \/ (c.rotated = rt /\ c.source = "operator")
             /\ c.next \in 0..Len(rotation) - 1
             /\ c.source = "operator" => c.rotated = rt /\ c.next = i
             /\ c.source = "rotation" =>
                    /\ c.match = IF rt # None THEN rt ELSE rotation[i + 1]
                    /\ c.next = IF rt # None THEN i ELSE After(i)
             /\ c.source = "vote" =>
                    /\ c.rotated = None /\ c.match = vote
                    /\ LET j == IF rt # None THEN i ELSE After(i)
                       IN  c.next = IF rotation[j + 1] = vote THEN After(j) ELSE j
<1>1. CASE override # None
  BY <1>1 DEF TakeNext, Chosen, TypeOK, Selected
<1>2. CASE override = None /\ vote \in Match
  <2> DEFINE j == IF rt # None THEN i ELSE After(i)
             n == IF rotation[j + 1] = vote THEN After(j) ELSE j
  <2>1. TakeNext(rt, i) = [match |-> vote, source |-> "vote", override |-> None, rotated |-> None, next |-> n]
    BY <1>2 DEF TakeNext, Voted, Chosen
  <2>2. j \in 0..Len(rotation) - 1
    BY RotationEntries
  <2>3. n \in 0..Len(rotation) - 1
    BY <2>2, RotationEntries
  <2> HIDE DEF n
  <2>4. LET c == TakeNext(rt, i)
        IN  /\ c.match = vote /\ c.source = "vote" /\ c.override = None /\ c.rotated = None /\ c.next = n
    BY <2>1
  <2> QED BY <1>2, <2>3, <2>4 DEF n
<1>3. CASE override = None /\ vote \notin Match /\ rt # None
  BY <1>3 DEF TakeNext, Chosen, Selected
<1>4. CASE override = None /\ vote \notin Match /\ rt = None
  BY <1>4, RotationEntries DEF TakeNext, Chosen
<1> QED BY <1>1, <1>2, <1>3, <1>4

\* The preview names the entry itself: the position is already one of the rotation.
LEMMA PreviewOfEntry ==
  ASSUME NEW r, Len(r) \in Nat \ {0}, r # <<>>, NEW ov, NEW rt, NEW i \in 0..Len(r) - 1
  PROVE  Preview(r, ov, rt, i) = <<IF ov # None THEN ov ELSE IF rt # None THEN rt ELSE r[i + 1], ov # None>>
<1>1. PICK n \in Nat \ {0} : n = Len(r)
  OBVIOUS
<1>2. i % Len(r) = i
  <2>1. i \in 0..n-1
    BY <1>1
  <2>2. i % n = i
    BY <2>1, Modulo
  <2> QED BY <1>1, <2>2
<1> QED BY <1>2 DEF Preview

LEMMA SelectionKeeps ==
  ASSUME IInv, rotation # <<>>, server = "down", zombies' = zombies, nudged' \in BOOLEAN,
         NEW rt \in Selected, NEW i \in 0..Len(rotation) - 1, Apply(TakeNext(rt, i))
  PROVE  IInv'
<1> USE DedicatedPartyAssumption
<1>1. PICK c :
         /\ Apply(c)
         /\ c.match \in Match /\ c.source \in {"operator", "vote", "rotation"}
         /\ c.override = None
         /\ c.rotated \in Selected
         /\ c.next \in 0..Len(rotation) - 1
         /\ c.source = "vote" => /\ c.rotated = None
                                 /\ \E j \in 0..Len(rotation) - 1 :
                                       c.next = IF rotation[j + 1] = c.match THEN After(j) ELSE j
  <2> DEFINE d == TakeNext(rt, i)
             j == IF rt # None THEN i ELSE After(i)
  <2>1. j \in 0..Len(rotation) - 1
    BY RotationEntries DEF IInv
  <2>2. /\ d.match \in Match /\ d.source \in {"operator", "vote", "rotation"}
        /\ d.override = None
        /\ d.rotated \in {None, rt}
        /\ d.next \in 0..Len(rotation) - 1
        /\ d.source = "vote" => /\ d.rotated = None /\ d.match = vote
                                /\ d.next = IF rotation[j + 1] = vote THEN After(j) ELSE j
    BY TakenMatch DEF IInv
  <2>3. Apply(d)
    OBVIOUS
  <2> HIDE DEF d, j
  <2> QED BY <2>1, <2>2, <2>3 DEF Selected
<1>2. Len(rotation) \in Nat \ {0} /\ rotation \in Seq(Match)
  BY RotationEntries DEF IInv, TypeOK
<1>3. /\ stage' = "settings" /\ current' = c.match /\ source' = c.source
      /\ sequence' = sequence + 1 /\ sequence < MaxSelections
      /\ override' = None /\ rotated' = c.rotated /\ next' = c.next /\ vote' = None
      /\ preview' = Preview(rotation, None, c.rotated, c.next)
      /\ hostState' = "prematch"
      /\ UNCHANGED <<rotation, rotateRequested, hub, private, party, server, launched, go>>
  BY <1>1 DEF Apply
<1>4. preview' = <<IF c.rotated # None THEN c.rotated ELSE rotation[c.next + 1], FALSE>>
  <2>1. Preview(rotation, None, c.rotated, c.next)
          = <<IF None # None THEN None ELSE IF c.rotated # None THEN c.rotated ELSE rotation[c.next + 1],
              None # None>>
    BY <1>1, <1>2, PreviewOfEntry
  <2> QED BY <1>3, <2>1
<1>5. rotation[c.next + 1] \in Match
  BY <1>1, RotationEntries DEF IInv
<1>6. TypeOK'
  <2>1. preview' \in Match \X BOOLEAN
    BY <1>1, <1>4, <1>5 DEF Selected
  <2>2. sequence' \in 0..MaxSelections /\ next' \in Nat /\ next' < Len(rotation')
    BY <1>1, <1>2, <1>3 DEF IInv, TypeOK
  <2> QED BY <1>1, <1>3, <2>1, <2>2 DEF IInv, TypeOK, Stage, Selected
<1>7. ServerInMatch' /\ SettingsStand' /\ LaunchedIsSelected' /\ Unselected' /\ RotationIsConfigured'
  BY <1>3 DEF ServerInMatch, SettingsStand, LaunchedIsSelected, Unselected, RotationIsConfigured, IInv
<1>8. PreviewIsNext'
  BY <1>1, <1>3, <1>4 DEF PreviewIsNext
<1>9. VoteSkips'
  <2> SUFFICES ASSUME c.source = "vote", Len(rotation) > 1, Differ(rotation)
               PROVE  rotation[c.next + 1] # c.match
    BY <1>1, <1>3 DEF VoteSkips, Differ
  <2>1. PICK j \in 0..Len(rotation) - 1 : c.next = IF rotation[j + 1] = c.match THEN After(j) ELSE j
    BY <1>1
  <2> QED BY <2>1 DEF Differ, After
<1> QED BY <1>6, <1>7, <1>8, <1>9 DEF IInv

-----------------------------------------------------------------------------
(* The invariant is preserved *)

LEMMA ActiveRotation ==
  ASSUME TypeOK, stage \notin {"inactive", "terminated"}
  PROVE  rotation # <<>> /\ next \in 0..Len(rotation) - 1 /\ rotated \in Selected
BY RotationEntries DEF TypeOK, Selected

\* While there is no lobby.
LEMMA StartKeeps ==
  ASSUME IInv, stage = "inactive", zombies' = zombies,
         NEW rot \in {rotation, Configured}, NEW ov \in Selected, NEW requested \in BOOLEAN,
         Start(rot, ov, requested), override' = ov,
         preview' \in (Match \X BOOLEAN) \union {None},
         UNCHANGED <<vote, source, engine, nudged>>
  PROVE  IInv'
<1> USE DedicatedPartyAssumption
<1>1. rot \in Seq(Match) /\ (Len(rot) <= 1 \/ rot = Configured)
  BY DEF IInv, TypeOK, RotationIsConfigured
<1>2. /\ stage' \in {"inactive", "private_party"}
      /\ rotation' \in Seq(Match) /\ (Len(rotation') <= 1 \/ rotation' = Configured)
      /\ stage' = "private_party" => rotation' # <<>> /\ next' = 0 /\ current' = None
      /\ rotated' \in {None, rotated} /\ current' \in {None, current}
      /\ next' = 0 \/ (next' = next /\ stage' = "inactive")
      /\ sequence' \in {0, sequence} /\ rotateRequested' \in BOOLEAN
  <2> DEFINE parsed == IF rot = <<>> /\ requested THEN Configured ELSE rot
             full == IF parsed = <<>> /\ ov # None THEN <<ov>> ELSE parsed
  <2>1. parsed \in Seq(Match) /\ (Len(parsed) <= 1 \/ parsed = Configured)
    BY <1>1
  <2>2. ov # None => <<ov>> \in Seq(Match) /\ Len(<<ov>>) <= 1
    BY DEF Selected
  <2>3. full \in Seq(Match) /\ (Len(full) <= 1 \/ full = Configured)
    BY <2>1, <2>2
  <2>4. CASE hub /\ full # <<>>
    BY <2>3, <2>4 DEF Start
  <2>5. CASE ~(hub /\ full # <<>>)
    BY <1>1, <2>5 DEF Start
  <2> QED BY <2>4, <2>5
<1>3. next' = 0
  BY <1>2 DEF IInv, Unselected
<1>4. TypeOK'
  BY <1>2, <1>3 DEF IInv, TypeOK, Stage, Selected, engine
<1> QED BY <1>2, <1>3, <1>4
        DEF IInv, ServerInMatch, SettingsStand, LaunchedIsSelected, PreviewIsNext, VoteSkips,
            RotationIsConfigured, Unselected, engine

LEMMA MapRotateKeeps == ASSUME IInv, MapRotate, zombies' = zombies PROVE IInv'
<1> USE DedicatedPartyAssumption
<1> DEFINE taken == rotation[next + 1]
           i == After(next)
<1>1. rotation # <<>> /\ stage \notin {"inactive", "terminated"} /\ nudged' = TRUE
  BY DEF MapRotate, Alive, IsActive, IInv, TypeOK
<1>2. taken \in Selected /\ taken # None /\ i \in 0..Len(rotation) - 1 /\ Len(rotation) \in Nat \ {0}
  BY <1>1, RotationEntries DEF IInv, Selected
<1>3. CASE AppliesAtOnce
  <2>1. Apply(TakeNext(taken, i)) /\ server = "down"
    BY <1>3 DEF MapRotate, AppliesAtOnce
  <2> QED BY <1>1, <1>2, <2>1, SelectionKeeps
<1>4. CASE ~AppliesAtOnce
  <2>1. /\ rotated' = taken /\ next' = i /\ preview' = Preview(rotation, override, taken, i)
        /\ UNCHANGED <<stage, rotation, override, current, sequence, vote, source, rotateRequested, engine>>
    BY <1>4 DEF MapRotate, PreviewAfterRotate
  <2>2. preview' = <<IF override # None THEN override ELSE taken, override # None>>
    BY <1>1, <1>2, <2>1, PreviewOfEntry
  <2> HIDE DEF taken, i
  <2>3. preview' \in Match \X BOOLEAN
    BY <1>2, <2>2 DEF IInv, TypeOK, Selected
  <2>4. TypeOK'
    BY <1>1, <1>2, <2>1, <2>3 DEF IInv, TypeOK, Selected, engine
  <2>5. PreviewIsNext'
    BY <1>2, <2>1, <2>2 DEF PreviewIsNext
  <2> QED BY <1>1, <2>1, <2>4, <2>5
          DEF IInv, ServerInMatch, SettingsStand, LaunchedIsSelected, VoteSkips,
              RotationIsConfigured, Unselected, engine
<1> QED BY <1>3, <1>4

LEMMA MapCommandKeeps ==
  ASSUME IInv, NEW m \in Match, MapCommand(m), zombies' = zombies
  PROVE  IInv'
<1> USE DedicatedPartyAssumption
<1>1. /\ preview' = <<m, TRUE>> /\ override' = m
      /\ UNCHANGED <<vote, source, engine, nudged>>
  BY DEF MapCommand, Preview
<1>2. CASE IsActive
  <2>1. UNCHANGED <<stage, rotation, next, rotated, current, sequence, rotateRequested>>
    BY <1>2 DEF MapCommand
  <2>2. preview' \in Match \X BOOLEAN
    BY <1>1
  <2>3. override' \in Match /\ UNCHANGED <<vote, source, engine, nudged>>
    BY <1>1
  <2>4. TypeOK'
    BY <2>1, <2>2, <2>3 DEF IInv, TypeOK, engine
  <2> QED BY <1>1, <2>1, <2>4
          DEF IInv, ServerInMatch, SettingsStand, LaunchedIsSelected, PreviewIsNext, VoteSkips,
              RotationIsConfigured, Unselected, engine
<1>3. CASE ~IsActive
  <2>1. stage = "inactive" /\ Start(rotation, m, rotateRequested) /\ rotateRequested \in BOOLEAN
    BY <1>3 DEF MapCommand, IsActive, IInv, TypeOK
  <2>2. preview' \in (Match \X BOOLEAN) \union {None}
    BY <1>1
  <2> QED BY <1>1, <2>1, <2>2, StartKeeps DEF Selected
<1> QED BY <1>2, <1>3

Way == {<<"private_party", "game_lobby">>, <<"settings", "intermission">>, <<"intermission", "countdown">>,
        <<"countdown", "running">>, <<"running", "ending">>, <<"running", "lobby">>, <<"ending", "lobby">>}

\* A step of the lifecycle or of the engine that leaves the choice of matches alone.
LEMMA EngineStep ==
  ASSUME IInv, UNCHANGED <<zombies, choice, rotateRequested, nudged>>,
         stage' = stage \/ stage' = "terminated" \/ <<stage, stage'>> \in Way,
         stage = "inactive" => stage' = "inactive",
         hub' \in BOOLEAN, private' \in BOOLEAN, go' \in BOOLEAN,
         hostState' \in {"none", "prematch", "teams", "other"},
         party' \in Selected, launched' \in Selected, server' \in {"down", "loading", "up"},
         ServerInMatch', SettingsStand', LaunchedIsSelected'
  PROVE  IInv'
<1>1. /\ stage' \in Stage
      /\ stage' \notin {"inactive", "terminated"} => rotation # <<>>
      /\ stage' \in {"settings", "intermission", "countdown", "running", "ending"} => current # None
      /\ stage' = "inactive" => stage = "inactive"
      /\ stage' \in {"settings", "intermission", "countdown", "running", "ending", "lobby"} =>
           stage \in {"settings", "intermission", "countdown", "running", "ending", "lobby"}
  BY DEF Way, Stage, IInv, TypeOK
<1>2. TypeOK'
  BY <1>1 DEF IInv, TypeOK, Selected, choice
<1>3. PreviewIsNext'
  BY <1>1 DEF IInv, PreviewIsNext, choice
<1>4. VoteSkips' /\ RotationIsConfigured' /\ Unselected'
  BY <1>1 DEF IInv, VoteSkips, RotationIsConfigured, Unselected, choice
<1> QED BY <1>2, <1>3, <1>4 DEF IInv

LEMMA InvStep == IInv /\ [Next]_vars => IInv'
<1> SUFFICES ASSUME IInv, [Next]_vars PROVE IInv'
  OBVIOUS
<1>0. zombies' = zombies
  BY DEF Next, vars
<1> USE DedicatedPartyAssumption, <1>0
<1>1. CASE StartUp
  <2>1. stage = "inactive" /\ Start(rotation, override, rotateRequested) /\ preview' = preview /\ override' = override
    BY <1>1 DEF StartUp
  <2> QED BY <1>1, <2>1, StartKeeps DEF StartUp, IInv, TypeOK, Selected
<1>2. CASE MapRotateFirst
  <2>1. stage = "inactive" /\ Start(Configured, override, FALSE) /\ preview' = preview /\ override' = override
    BY <1>2 DEF MapRotateFirst
  <2> QED BY <1>2, <2>1, StartKeeps DEF MapRotateFirst, IInv, TypeOK, Selected
<1>3. CASE GameLobbyCreated \/ BackInLobby
  <2>1. /\ stage \in {"game_lobby", "lobby"} /\ server = "down" /\ nudged' = FALSE
        /\ Apply(TakeNext(rotated, next))
    BY <1>3 DEF GameLobbyCreated, BackInLobby, LobbyIsBack, IInv, ServerInMatch
  <2> QED BY <2>1, ActiveRotation, SelectionKeeps DEF IInv
<1>4. /\ hub \in BOOLEAN /\ private \in BOOLEAN /\ go \in BOOLEAN
      /\ hostState \in {"none", "prematch", "teams", "other"}
      /\ party \in Selected /\ launched \in Selected /\ current \in Selected
      /\ server \in {"down", "loading", "up"}
      /\ ServerInMatch /\ SettingsStand /\ LaunchedIsSelected
  BY DEF IInv, TypeOK, Selected
<1> USE <1>4 DEF ServerInMatch, SettingsStand, LaunchedIsSelected, choice, engine
<1>5. CASE PrivatePartyCreated
  BY <1>5, EngineStep DEF PrivatePartyCreated, Way
<1>6. CASE ApplySettings
  BY <1>6, EngineStep DEF ApplySettings, Way
<1>7. CASE MatchStarted
  BY <1>7, EngineStep DEF MatchStarted, MatchIsUp, Way
<1>8. CASE MatchEnded
  BY <1>8, EngineStep DEF MatchEnded, MatchIsOver, Way
<1>9. CASE EndMatch
  BY <1>9, EngineStep DEF EndMatch, Way
<1>10. CASE Fail
  BY <1>10, EngineStep DEF Fail, WaitsTooLong
<1>11. CASE PrepareTeams
  BY <1>11, EngineStep DEF PrepareTeams, Way
<1>12. CASE StartCountdown
  <2>1. stage = "intermission" /\ stage' = "countdown" /\ go' \in BOOLEAN
    BY <1>12 DEF StartCountdown
  <2> QED BY <1>12, <2>1, EngineStep DEF StartCountdown, Way
<1>13. CASE RequestStart
  BY <1>13, EngineStep DEF RequestStart
<1>14. ASSUME NEW v \in Match \union {Garbage}, SetNextMap(v) PROVE IInv'
  BY <1>14 DEF SetNextMap, IInv, TypeOK, PreviewIsNext, VoteSkips, RotationIsConfigured, Unselected
<1>15. CASE HubLoads
  BY <1>15, EngineStep DEF HubLoads, Alive
<1>16. CASE CreatesPrivateParty
  BY <1>16, EngineStep DEF CreatesPrivateParty
<1>17. CASE CreatesGameLobby
  BY <1>17, EngineStep DEF CreatesGameLobby
<1>18. ASSUME NEW m \in Match, Playlist(m) PROVE IInv'
  BY <1>18, EngineStep DEF Playlist, Selected
<1>19. ASSUME NEW state \in {"prematch", "teams", "other"}, PartyFrame(state) PROVE IInv'
  BY <1>19, EngineStep DEF PartyFrame
<1>20. CASE StartsMatch
  <2>1. /\ stage = "countdown" /\ UNCHANGED <<zombies, choice, rotateRequested, nudged, stage, private>>
        /\ party' = IF zombies THEN party ELSE current
        /\ launched' = party'
        /\ server' = "loading" /\ hub' = FALSE /\ hostState' = "other" /\ go' = FALSE
    BY <1>20 DEF StartsMatch, LaunchSettings
  <2>2. party' = current /\ current' = current
    BY <2>1
  <2> QED BY <2>1, <2>2, EngineStep
<1>21. CASE ServerLoads
  BY <1>21, EngineStep DEF ServerLoads
<1>22. CASE ServerStops
  BY <1>22, EngineStep DEF ServerStops
<1>23. CASE UNCHANGED vars
  BY <1>23, EngineStep DEF vars
<1> QED
  BY <1>1, <1>2, <1>3, <1>5, <1>6, <1>7, <1>8, <1>9, <1>10, <1>11, <1>12, <1>13, <1>14, <1>15, <1>16,
     <1>17, <1>18, <1>19, <1>20, <1>21, <1>22, <1>23, MapRotateKeeps, MapCommandKeeps
     DEF Next, Lifecycle, Engine

LEMMA InvInit == Init => IInv
<1> SUFFICES ASSUME Init PROVE IInv
  OBVIOUS
<1>1. TypeOK
  <2>1. rotation \in Seq(Match) /\ sequence \in 0..MaxSelections /\ next \in Nat
    BY DedicatedPartyAssumption DEF Init
  <2> QED BY <2>1 DEF Init, TypeOK, Stage
<1>2. Len(rotation) = 0
  BY DEF Init
<1> QED BY <1>1, <1>2
        DEF Init, IInv, ServerInMatch, SettingsStand, LaunchedIsSelected, PreviewIsNext, VoteSkips,
            RotationIsConfigured, Unselected

LEMMA Invariant == Spec => []IInv
BY InvInit, InvStep, PTL DEF Spec

-----------------------------------------------------------------------------
(* The theorems *)

\* Every variable keeps its type: the position stays inside the rotation, and a lobby
\* that is under way has a rotation and a match.
THEOREM TypeCorrect == Spec => []TypeOK
<1>1. IInv => TypeOK
  BY DEF IInv
<1> QED BY <1>1, Invariant, PTL

\* The server plays the match that the lobby selected (dedicated_party.cpp
\* party_host_start_match_stub), whatever the playlist and the commands do meanwhile.
THEOREM LaunchedIsSelectedAlways == Spec => []LaunchedIsSelected
<1>1. IInv => LaunchedIsSelected
  BY DEF IInv
<1> QED BY <1>1, Invariant, PTL

\* s2x_nextmap_preview tells what plays next (publish_next_preview).
THEOREM PreviewIsNextAlways == Spec => []PreviewIsNext
<1>1. IInv => PreviewIsNext
  BY DEF IInv
<1> QED BY <1>1, Invariant, PTL

LEMMA SelectionOnly ==
  ASSUME IInv, Next, sequence' # sequence, stage # "inactive"
  PROVE  \/ nudged' = TRUE
         \/ stage \in {"game_lobby", "lobby"} /\ Apply(TakeNext(rotated, next))
BY DEF Next, Lifecycle, Engine, Fail, StartUp, MapRotateFirst, MapRotate, EndMatch, MapCommand, IsActive, SetNextMap,
       PrivatePartyCreated, GameLobbyCreated, ApplySettings, PrepareTeams, StartCountdown, RequestStart,
       MatchStarted, MatchEnded, BackInLobby, HubLoads, CreatesPrivateParty, CreatesGameLobby, Playlist,
       PartyFrame, StartsMatch, ServerLoads, ServerStops, choice, engine

\* "A voted match never plays twice in a row" (dedicated_party.cpp take_next_match), in a
\* rotation whose neighbours differ.
THEOREM VotedNotRepeatedAlways == Differ(Configured) => (Spec => VotedNotRepeated)
<1> SUFFICES ASSUME Differ(Configured) PROVE Spec => VotedNotRepeated
  OBVIOUS
<1> DEFINE NotRepeated == sequence' # sequence /\ source = "vote" /\ source' = "rotation" /\ ~nudged' /\ ~nudged
                            /\ Len(rotation) > 1 => current' # current
<1>1. IInv /\ [Next]_vars => [NotRepeated]_vars
  <2> SUFFICES ASSUME IInv, Next, sequence' # sequence, source = "vote", source' = "rotation",
                      ~nudged', ~nudged, Len(rotation) > 1
               PROVE  current' # current
    OBVIOUS
  <2>1. rotation = Configured /\ rotation # <<>>
    BY DEF IInv, RotationIsConfigured
  <2>2. stage # "inactive" /\ rotated = None /\ rotation[next + 1] # current
    BY <2>1 DEF IInv, VoteSkips
  <2>3. Apply(TakeNext(rotated, next))
    BY <2>2, SelectionOnly
  <2>4. next \in 0..Len(rotation) - 1 /\ rotated \in Selected
    BY <2>1, <2>2, RotationEntries DEF IInv, Selected
  <2>5. current' = TakeNext(rotated, next).match /\ TakeNext(rotated, next).source = "rotation"
    BY <2>3 DEF Apply
  <2>6. TakeNext(rotated, next).source = "rotation" =>
           TakeNext(rotated, next).match = IF rotated # None THEN rotated ELSE rotation[next + 1]
    BY <2>1, <2>4, TakenMatch DEF IInv
  <2> QED BY <2>2, <2>5, <2>6
<1> QED BY <1>1, Invariant, PTL DEF Spec, VotedNotRepeated

\* Where a choice leaves the rotation, counted from where it was.
LEMMA SlotsMoved ==
  ASSUME NEW n \in Nat \ {0}, NEW p \in 0..n-1, NEW q \in 0..n-1, NEW k \in {0, 1, 2},
         q = (p + k) % n
  PROVE  (q - p) % n = k % n
<1>1. CASE n = 1
  <2>1. p = 0 /\ q = 0
    BY <1>1
  <2> QED BY <1>1, <2>1, SMT
<1>2. CASE n = 2
  BY <1>2, SMT
<1>3. CASE n > 2
  <2>1. k % n = k
    BY <1>3, SMT
  <2>2. q = IF p + k < n THEN p + k ELSE p + k - n
    BY <1>3, SMT
  <2>3. (q - p) % n = IF p <= q THEN q - p ELSE q - p + n
    BY ModuloDifference
  <2> QED BY <1>3, <2>1, <2>2, <2>3
<1> QED BY <1>1, <1>2, <1>3

LEMMA Around ==
  ASSUME NEW n \in Nat \ {0}, NEW i \in 0..n-1
  PROVE  /\ (i - 1) % n \in 0..n-1 /\ (((i - 1) % n) + 1) % n = i
         /\ (((i + 1) % n) + 1) % n = (i + 2) % n
<1>1. (i - 1) % n = IF i = 0 THEN n - 1 ELSE i - 1
  BY SMT
<1>2. (i - 1) % n \in 0..n-1
  BY <1>1
<1>3. (((i - 1) % n) + 1) % n = i
  <2>1. CASE i = 0
    <3>1. ((i - 1) % n) + 1 = n
      BY <1>1, <2>1
    <3>2. n % n = 0
      BY SMT
    <3> QED BY <2>1, <3>1, <3>2
  <2>2. CASE i # 0
    <3>1. ((i - 1) % n) + 1 = i /\ i % n = i
      BY <1>1, <2>2, SMT
    <3> QED BY <3>1
  <2> QED BY <2>1, <2>2
<1>4. (((i + 1) % n) + 1) % n = (i + 2) % n
  <2>1. (i + 1) % n = IF i + 1 = n THEN 0 ELSE i + 1
    BY SMT
  <2>2. CASE i + 1 = n
    <3>1. ((i + 1) % n) + 1 = 1 /\ i + 2 = n + 1
      BY <2>1, <2>2
    <3>2. (n + 1) % n = 1 % n
      BY SMT
    <3> QED BY <3>1, <3>2
  <2>3. CASE i + 1 # n
    <3>1. ((i + 1) % n) + 1 = i + 2
      BY <2>1, <2>3
    <3> QED BY <3>1
  <2> QED BY <2>2, <2>3
<1> QED BY <1>2, <1>3, <1>4

\* A selection moves the rotation by as many entries as its source takes.
LEMMA SelectionMoves ==
  ASSUME IInv, rotation # <<>>, NEW c, Apply(c),
         LET d == TakeNext(rotated, next)
         IN  c.source = d.source /\ c.match = d.match /\ c.rotated = d.rotated /\ c.next = d.next
  PROVE  \E k \in {0, 1, 2} :
            /\ (Position' - Position) % Len(rotation) = k % Len(rotation)
            /\ source' = "operator" => k = 0
            /\ source' = "rotation" => k = 1
            /\ source' = "vote" => k = IF rotation[After(Position) + 1] = current' THEN 2 ELSE 1
            /\ source' \in {"operator", "rotation", "vote"}
<1>1. PICK n \in Nat \ {0} : n = Len(rotation)
  BY RotationEntries DEF IInv
<1>2. next \in 0..n-1 /\ rotated \in Selected
  BY <1>1, RotationEntries DEF IInv, TypeOK, Selected
<1>3. PICK p \in 0..n-1 : p = Position /\ (p + 1) % n = IF rotated # None THEN next ELSE After(next)
  <2>1. CASE rotated # None
    BY <1>1, <1>2, <2>1, Around DEF Position
  <2>2. CASE rotated = None
    <3>1. PICK q \in 0..n-1 : q = next
      BY <1>2
    <3>2. q % n = q
      BY Modulo
    <3>3. next - 0 = q
      BY <3>1
    <3>4. Position = q % n /\ After(next) = (q + 1) % n
      BY <1>1, <2>2, <3>1, <3>3 DEF Position, After
    <3> QED BY <2>2, <3>2, <3>4, Zenon
  <2> QED BY <2>1, <2>2
<1>4. /\ current' = c.match /\ source' = c.source /\ rotated' = c.rotated /\ next' = c.next
      /\ rotation' = rotation
  BY DEF Apply
<1>5. /\ c.source \in {"operator", "vote", "rotation"}
      /\ c.rotated = None \/ c.source = "operator"
      /\ c.next \in 0..n-1
      /\ c.source = "operator" => c.rotated = rotated /\ c.next = next
      /\ c.source = "rotation" => c.next = (p + 1) % n
      /\ c.source = "vote" => c.next = IF rotation[((p + 1) % n) + 1] = c.match THEN After((p + 1) % n) ELSE (p + 1) % n
  <2> DEFINE d == TakeNext(rotated, next)
             j == IF rotated # None THEN next ELSE After(next)
  <2>1. /\ d.source \in {"operator", "vote", "rotation"}
        /\ d.rotated = None \/ d.source = "operator"
        /\ d.next \in 0..n-1
        /\ d.source = "operator" => d.rotated = rotated /\ d.next = next
        /\ d.source = "rotation" => d.next = j
        /\ d.source = "vote" => d.match = vote /\ d.next = IF rotation[j + 1] = vote THEN After(j) ELSE j
    BY <1>1, <1>2, TakenMatch DEF IInv
  <2>2. c.source = d.source /\ c.match = d.match /\ c.rotated = d.rotated /\ c.next = d.next
    OBVIOUS
  <2>3. j = (p + 1) % n
    BY <1>3
  <2> HIDE DEF d, j
  <2> QED BY <2>1, <2>2, <2>3
<1>6. After(Position) = (p + 1) % n /\ After((p + 1) % n) = (p + 2) % n
  BY <1>1, <1>3, Around DEF After
<1>7. c.rotated = None => Position' = c.next
  <2>1. PICK q \in 0..n-1 : q = c.next
    BY <1>5
  <2>2. (q - 0) % n = q
    BY Modulo
  <2>3. rotated' = None => Position' = (q - 0) % n
    BY <1>1, <1>4, <2>1 DEF Position
  <2> QED BY <1>4, <2>1, <2>2, <2>3
<1>8. c.source = "operator" => Position' = p
  BY <1>3, <1>4, <1>5 DEF Position
<1>9. p = (p + 0) % n
  BY Modulo
<1>10. PICK k \in {0, 1, 2} :
          /\ Position' = (p + k) % n
          /\ c.source = "operator" => k = 0
          /\ c.source = "rotation" => k = 1
          /\ c.source = "vote" => k = IF rotation[((p + 1) % n) + 1] = c.match THEN 2 ELSE 1
  <2>1. CASE c.source = "operator"
    BY <1>8, <1>9, <2>1
  <2>2. CASE c.source = "rotation"
    BY <1>5, <1>7, <2>2
  <2>3. CASE c.source = "vote" /\ rotation[((p + 1) % n) + 1] = c.match
    BY <1>5, <1>6, <1>7, <2>3
  <2>4. CASE c.source = "vote" /\ rotation[((p + 1) % n) + 1] # c.match
    BY <1>5, <1>7, <2>4
  <2> QED BY <1>5, <2>1, <2>2, <2>3, <2>4
<1>11. PICK q \in 0..n-1 : q = Position'
  BY <1>3, <1>5, <1>7, <1>8
<1>12. (q - p) % n = k % n
  BY <1>10, <1>11, SlotsMoved
<1> QED BY <1>1, <1>3, <1>4, <1>5, <1>6, <1>10, <1>11, <1>12

LEMMA LobbySelects ==
  ASSUME IInv, Next, stage \in {"game_lobby", "lobby"}, stage' = "settings"
  PROVE  Apply(TakeNext(rotated, next))
BY DEF Next, Lifecycle, Engine, Fail, StartUp, MapRotateFirst, MapRotate, AppliesAtOnce, EndMatch, MapCommand,
       IsActive, SetNextMap, PrivatePartyCreated, GameLobbyCreated, ApplySettings, PrepareTeams, StartCountdown,
       RequestStart, MatchStarted, MatchEnded, BackInLobby, HubLoads, CreatesPrivateParty, CreatesGameLobby,
       Playlist, PartyFrame, StartsMatch, ServerLoads, ServerStops, choice, engine

\* "The rotation still moves one slot per match" (dedicated_party.cpp take_next_match),
\* whatever the rotation, the commands and the votes were.
THEOREM RotationMovesOneSlotAlways == Spec => RotationMovesOneSlot
<1> DEFINE Moves ==
      (stage \in {"game_lobby", "lobby"}) /\ stage' = "settings" =>
        LET moved == (Position' - Position) % Len(rotation)
            slots == CASE source' = "operator" -> {0}
                       [] source' = "rotation" -> {1}
                       [] source' = "vote" ->
                            IF rotation[After(Position) + 1] = current' THEN {2} ELSE {1}
        IN  moved \in {s % Len(rotation) : s \in slots}
<1>1. IInv /\ [Next]_vars => [Moves]_vars
  <2> SUFFICES ASSUME IInv, Next, stage \in {"game_lobby", "lobby"}, stage' = "settings" PROVE Moves
    OBVIOUS
  <2>1. Apply(TakeNext(rotated, next)) /\ rotation # <<>>
    BY LobbySelects, ActiveRotation DEF IInv
  <2>2. PICK c : c = TakeNext(rotated, next)
    OBVIOUS
  <2>3. Apply(c)
    BY <2>1, <2>2
  <2>4. PICK k \in {0, 1, 2} :
            /\ (Position' - Position) % Len(rotation) = k % Len(rotation)
            /\ source' = "operator" => k = 0
            /\ source' = "rotation" => k = 1
            /\ source' = "vote" => k = IF rotation[After(Position) + 1] = current' THEN 2 ELSE 1
            /\ source' \in {"operator", "rotation", "vote"}
    BY <2>1, <2>2, <2>3, SelectionMoves
  <2>5. CASE source' = "operator"
    BY <2>4, <2>5
  <2>6. CASE source' = "rotation"
    BY <2>4, <2>6
  <2>7. CASE source' = "vote"
    BY <2>4, <2>7
  <2> QED BY <2>4, <2>5, <2>6, <2>7
<1> QED BY <1>1, Invariant, PTL DEF Spec, RotationMovesOneSlot

-----------------------------------------------------------------------------
(* What a client sees of the server *)

\* match_sequence is 0 until the first selection.
Selections ==
    /\ stage \in {"inactive", "private_party", "game_lobby"} => sequence = 0
    /\ stage \in {"settings", "intermission", "countdown", "running", "ending", "lobby"} => sequence > 0

LEMMA SelectionCounts == ASSUME NEW c, Apply(c) PROVE stage' = "settings" /\ sequence' = sequence + 1
BY DEF Apply

LEMMA StartCounts ==
  ASSUME NEW rot, NEW ov, NEW requested, Start(rot, ov, requested)
  PROVE  \/ stage' = "private_party" /\ sequence' = 0
         \/ UNCHANGED <<stage, sequence>>
<1> DEFINE parsed == IF rot = <<>> /\ requested THEN Configured ELSE rot
           full == IF parsed = <<>> /\ ov # None THEN <<ov>> ELSE parsed
<1>1. CASE hub /\ full # <<>>
  BY <1>1 DEF Start
<1>2. CASE ~(hub /\ full # <<>>)
  BY <1>2 DEF Start
<1> QED BY <1>1, <1>2

\* Where a step of the server may take it.
ServerMoves ==
    \/ UNCHANGED <<stage, sequence, server>>
    \/ stage = "inactive" /\ stage' = "private_party" /\ sequence' = 0
    \/ stage = "private_party" /\ stage' = "game_lobby" /\ UNCHANGED <<sequence, server>>
    \/ /\ stage \in {"game_lobby", "settings", "intermission", "lobby"} /\ server = "down"
       /\ stage' = "settings" /\ sequence' = sequence + 1 /\ sequence < MaxSelections
    \/ stage = "settings" /\ stage' = "intermission" /\ UNCHANGED <<sequence, server>>
    \/ stage = "intermission" /\ stage' = "countdown" /\ UNCHANGED <<sequence, server>>
    \/ /\ server = "down" /\ server' = "loading" /\ stage = "countdown" /\ UNCHANGED <<stage, sequence>>
    \/ server # "down" /\ UNCHANGED <<stage, sequence>>
    \/ stage = "countdown" /\ server = "up" /\ stage' = "running" /\ UNCHANGED <<sequence, server>>
    \/ stage = "running" /\ stage' = "ending" /\ UNCHANGED <<sequence, server>>
    \/ /\ stage \in {"running", "ending"} /\ server = "down"
       /\ stage' = "lobby" /\ UNCHANGED <<sequence, server>>
    \/ stage # "terminated" /\ stage' = "terminated" /\ UNCHANGED <<sequence, server>>

LEMMA NextMoves == ASSUME IInv, Next PROVE ServerMoves
<1> USE DEF ServerMoves
<1>1. ASSUME NEW c, Apply(c), stage \in {"game_lobby", "settings", "intermission", "lobby"} PROVE ServerMoves
  BY <1>1 DEF Apply, IInv, ServerInMatch
<1>2. ASSUME NEW rot, NEW ov, NEW requested, Start(rot, ov, requested), stage = "inactive", server' = server
      PROVE  ServerMoves
  BY <1>2, StartCounts
<1>3. CASE GameLobbyCreated \/ BackInLobby
  BY <1>1, <1>3 DEF GameLobbyCreated, BackInLobby
<1>4. CASE MapRotate
  <2>1. CASE AppliesAtOnce
    BY <1>1, <1>4, <2>1 DEF MapRotate, AppliesAtOnce
  <2>2. CASE ~AppliesAtOnce
    BY <1>4, <2>2 DEF MapRotate, engine
  <2> QED BY <2>1, <2>2
<1>5. CASE StartUp
  BY <1>2, <1>5 DEF StartUp, engine
<1>6. CASE MapRotateFirst
  BY <1>2, <1>6 DEF MapRotateFirst, engine
<1>7. ASSUME NEW m \in Match, MapCommand(m) PROVE ServerMoves
  BY <1>2, <1>7 DEF MapCommand, IsActive, engine
<1>8. CASE PrivatePartyCreated \/ ApplySettings \/ MatchStarted \/ MatchEnded \/ EndMatch \/ Fail
  BY <1>8 DEF PrivatePartyCreated, ApplySettings, MatchStarted, MatchIsUp, MatchEnded, MatchIsOver, EndMatch,
              Fail, WaitsTooLong, choice, engine
<1>9. CASE PrepareTeams \/ StartCountdown \/ RequestStart
  BY <1>9 DEF PrepareTeams, StartCountdown, RequestStart, choice
<1>10. CASE HubLoads \/ CreatesPrivateParty \/ CreatesGameLobby \/ StartsMatch \/ ServerLoads \/ ServerStops
  BY <1>10 DEF HubLoads, CreatesPrivateParty, CreatesGameLobby, StartsMatch, ServerLoads, ServerStops, choice
<1>11. ASSUME NEW m \in Match, Playlist(m) PROVE ServerMoves
  BY <1>11 DEF Playlist, choice
<1>12. ASSUME NEW state, PartyFrame(state) PROVE ServerMoves
  BY <1>12 DEF PartyFrame, choice
<1>13. ASSUME NEW v, SetNextMap(v) PROVE ServerMoves
  BY <1>13 DEF SetNextMap, engine
<1> QED
  BY <1>3, <1>4, <1>5, <1>6, <1>7, <1>8, <1>9, <1>10, <1>11, <1>12, <1>13 DEF Next, Lifecycle, Engine

LEMMA SelectionsStep == IInv /\ Selections /\ [Next]_vars => Selections'
<1>1. ASSUME IInv, Selections, Next PROVE Selections'
  <2>1. ServerMoves /\ sequence \in Nat
    BY <1>1, NextMoves, DedicatedPartyAssumption DEF IInv, TypeOK
  <2> QED BY <1>1, <2>1 DEF ServerMoves, Selections
<1>2. ASSUME Selections, UNCHANGED vars PROVE Selections'
  BY <1>2 DEF Selections, vars, choice
<1> QED BY <1>1, <1>2

Seen == selected = Told /\ phase = Phase

\* The server's steps are those of the server in HostedLobby, or none of them.
LEMMA ServerSeen ==
  ASSUME MaxSelections <= MaxMatches, IInv, Selections, Seen, ServerStep
  PROVE  \/ UNCHANGED hostedVars
         \/ Select \/ Countdown \/ Launch \/ LaunchFails \/ MatchEnds \/ ServerEnds
<1>1. ServerMoves /\ sequence \in Nat /\ sequence <= MaxSelections /\ MaxSelections \in Nat /\ MaxMatches \in Nat
  BY NextMoves, DedicatedPartyAssumption, HostedLobbyAssumption DEF HostedLobbyAssumption, ServerStep, IInv, TypeOK
<1>2. /\ selected = Told /\ selected' = Told' /\ phase = Phase /\ phase' = Phase'
      /\ UNCHANGED <<member, playing, syncQueries, played>>
  BY DEF ServerStep, Seen
<1>3. ~(stage = "intermission" /\ stage' = "countdown") => syncAnswers' = syncAnswers
  BY DEF ServerStep
<1> USE DEF Select, Countdown, Launch, LaunchFails, MatchEnds, ServerEnds, member, hosting, hostedVars
<1>4. CASE UNCHANGED <<stage, sequence, server>>
  BY <1>2, <1>3, <1>4 DEF Told, Phase
<1>5. CASE stage = "inactive" /\ stage' = "private_party" /\ sequence' = 0
  BY <1>2, <1>3, <1>5 DEF Told, Phase, Selections
<1>6. CASE stage = "private_party" /\ stage' = "game_lobby" /\ UNCHANGED <<sequence, server>>
  BY <1>2, <1>3, <1>6 DEF Told, Phase
<1>7. CASE /\ stage \in {"game_lobby", "settings", "intermission", "lobby"} /\ server = "down"
           /\ stage' = "settings" /\ sequence' = sequence + 1 /\ sequence < MaxSelections
  <2>1. CASE stage = "game_lobby"
    BY <1>1, <1>2, <1>3, <1>7, <2>1 DEF Told, Phase, Selections
  <2>2. CASE stage # "game_lobby"
    <3>1. sequence > 0 /\ Told = sequence /\ Told' = sequence + 1
      BY <1>1, <1>7, <2>2 DEF Told, Selections
    <3>2. Phase \in {"results", "intermission"} /\ Phase' = "intermission"
      BY <1>7, <2>2 DEF Phase
    <3> QED BY <1>1, <1>2, <1>3, <1>7, <3>1, <3>2
  <2> QED BY <2>1, <2>2
<1>8. CASE stage = "settings" /\ stage' = "intermission" /\ UNCHANGED <<sequence, server>>
  BY <1>2, <1>3, <1>8 DEF Told, Phase
<1>9. CASE stage = "intermission" /\ stage' = "countdown" /\ UNCHANGED <<sequence, server>>
  <2>1. server' = "down"
    BY <1>9 DEF IInv, TypeOK, ServerInMatch
  <2>2. Phase = "intermission" /\ Phase' = "countdown" /\ Told' = Told
    BY <1>9, <2>1 DEF Told, Phase
  <2>3. syncAnswers' = {a \in syncAnswers : a.sequence = Told}
    BY <1>9 DEF ServerStep
  <2> QED BY <1>2, <2>2, <2>3
<1>10. CASE server = "down" /\ server' = "loading" /\ stage = "countdown" /\ UNCHANGED <<stage, sequence>>
  <2>1. Phase = "countdown" /\ Phase' = "match" /\ Told' = Told
    BY <1>10 DEF Told, Phase
  <2> QED BY <1>2, <1>3, <1>10, <2>1
<1>11. CASE server # "down" /\ UNCHANGED <<stage, sequence>>
  <2>1. Told' = Told /\ (Phase' = Phase \/ (Phase = "match" /\ Phase' = "countdown"))
    BY <1>11 DEF Told, Phase
  <2> QED BY <1>2, <1>3, <1>11, <2>1
<1>12. CASE stage = "countdown" /\ server = "up" /\ stage' = "running" /\ UNCHANGED <<sequence, server>>
  <2>1. Told' = Told /\ Phase' = Phase
    BY <1>12 DEF Told, Phase
  <2> QED BY <1>2, <1>3, <1>12, <2>1
<1>13. CASE stage = "running" /\ stage' = "ending" /\ UNCHANGED <<sequence, server>>
  BY <1>2, <1>3, <1>13 DEF Told, Phase
<1>14. CASE /\ stage \in {"running", "ending"} /\ server = "down"
            /\ stage' = "lobby" /\ UNCHANGED <<sequence, server>>
  <2>1. Phase = "match" /\ Phase' = "results" /\ Told' = Told
    BY <1>14 DEF Told, Phase
  <2> QED BY <1>2, <1>3, <1>14, <2>1
<1>15. CASE stage # "terminated" /\ stage' = "terminated" /\ UNCHANGED <<sequence, server>>
  <2>1. Phase # "over" /\ Phase' = "over" /\ Told' = Told
    BY <1>15 DEF Told, Phase
  <2> QED BY <1>2, <1>3, <1>15, <2>1
<1> QED
  BY <1>1, <1>4, <1>5, <1>6, <1>7, <1>8, <1>9, <1>10, <1>11, <1>12, <1>13, <1>14, <1>15 DEF ServerMoves

LEMMA MemberSeen == ASSUME MemberStep PROVE HostedNext /\ UNCHANGED <<hosting, vars>>
BY DEF MemberStep, HostedNext, Answer, PartyState, HandleGo, ReturnToLobby, SyncResponse, hosting

\* What the client is told is what the server has selected, and when.
LEMMA SeenStep == Seen /\ [ServerStep \/ MemberStep]_sessionVars => Seen'
<1> SUFFICES ASSUME Seen, [ServerStep \/ MemberStep]_sessionVars PROVE Seen'
  OBVIOUS
<1>1. CASE ServerStep
  BY <1>1 DEF ServerStep, Seen
<1>2. CASE UNCHANGED <<hosting, vars>>
  BY <1>2 DEF Seen, Told, Phase, hosting, vars, choice, engine
<1>3. CASE UNCHANGED sessionVars
  BY <1>2, <1>3 DEF sessionVars, hostedVars
<1> QED BY <1>1, <1>2, <1>3, MemberSeen

LEMMA SessionMaps ==
  MaxSelections <= MaxMatches /\ IInv /\ Selections /\ Seen /\ [ServerStep \/ MemberStep]_sessionVars
    => [HostedNext]_hostedVars
<1> SUFFICES ASSUME MaxSelections <= MaxMatches, IInv, Selections, Seen, [ServerStep \/ MemberStep]_sessionVars
             PROVE  [HostedNext]_hostedVars
  OBVIOUS
<1> USE DEF hostedVars, hosting, member
<1>1. CASE ServerStep
  BY <1>1, ServerSeen DEF HostedNext
<1>2. CASE MemberStep
  BY <1>2, MemberSeen
<1>3. CASE UNCHANGED sessionVars
  BY <1>3 DEF sessionVars
<1> QED BY <1>1, <1>2, <1>3

LEMMA SessionServes == SessionSpec => Spec
<1>1. SessionInit => Init
  BY DEF SessionInit
<1>2. [ServerStep \/ MemberStep]_sessionVars => [Next]_vars
  BY DEF ServerStep, MemberStep, sessionVars
<1> QED BY <1>1, <1>2, PTL DEF SessionSpec, Spec

LEMMA SelectionsInvariant == Spec => []Selections
<1>1. Init => Selections
  BY DEF Init, Selections
<1> QED BY <1>1, Invariant, SelectionsStep, PTL DEF Spec

\* A client sees of a dedicated server exactly what HostedLobby says it sees: every step
\* of the lifecycle, of a command or of the engine is one of HostedLobby's server or shows
\* the client nothing.
THEOREM SessionIsHostedLobby == MaxSelections <= MaxMatches => (SessionSpec => HostedSpec)
<1> SUFFICES ASSUME MaxSelections <= MaxMatches PROVE SessionSpec => HostedSpec
  OBVIOUS
<1>1. SessionInit => HostedInit /\ Seen
  BY DEF SessionInit, Init, HostedInit, Told, Phase, Seen
<1>2. SessionSpec => []Seen
  BY <1>1, SeenStep, PTL DEF SessionSpec
<1>3. IInv /\ Selections /\ Seen /\ [ServerStep \/ MemberStep]_sessionVars => [HostedNext]_hostedVars
  BY SessionMaps
<1> QED BY <1>1, <1>2, <1>3, SessionServes, Invariant, SelectionsInvariant, PTL DEF SessionSpec, HostedSpec

-----------------------------------------------------------------------------
(* What the client believes, whatever the server tells it and when *)

Settled == {"countdown", "match", "results"}

\* From the countdown on only the match selected is answered, and a client that took its
\* go message shows it.
MemberInv ==
    /\ selected \in Nat \ {0} /\ playing \in 0..selected
    /\ phase \in {"intermission", "over"} \union Settled
    /\ phase \in Settled => \A a \in syncAnswers : a.sequence = selected
    /\ phase \in Settled /\ playing = selected /\ Resolved(selected) => shown = selected
    /\ phase = "intermission" => playing < selected

LEMMA MemberInvStep ==
  ASSUME MemberInv, [HostedNext]_hostedVars
  PROVE  MemberInv'
<1> USE DEF MemberInv, Settled, Resolved, member, hosting
<1>1. CASE Select
  BY <1>1 DEF Select
<1>2. CASE Countdown
  BY <1>2 DEF Countdown
<1>3. CASE Launch \/ LaunchFails \/ MatchEnds
  BY <1>3 DEF Launch, LaunchFails, MatchEnds
<1>4. CASE ServerEnds
  BY <1>4 DEF ServerEnds
<1>5. ASSUME NEW c, Answer(c) PROVE MemberInv'
  <2>1. /\ UNCHANGED <<selected, phase, playing, shown>>
        /\ syncAnswers' = syncAnswers \union {[challenge |-> c, sequence |-> selected]}
    BY <1>5 DEF Answer
  <2> QED BY <2>1
<1>6. CASE PartyState
  BY <1>6 DEF PartyState
<1>7. CASE HandleGo
  BY <1>7 DEF HandleGo, GoUpdates
<1>8. CASE ReturnToLobby
  BY <1>8 DEF ReturnToLobby
<1>9. ASSUME NEW a \in syncAnswers, SyncResponse(a) PROVE MemberInv'
  BY <1>9 DEF SyncResponse
<1>10. CASE UNCHANGED hostedVars
  BY <1>10 DEF hostedVars
<1> QED
  BY <1>1, <1>2, <1>3, <1>4, <1>5, <1>6, <1>7, <1>8, <1>9, <1>10 DEF HostedNext

\* In a match the client shows the match it plays, whichever answers come late within the
\* time of an intermission (dedicated_party_client.cpp try_handle_sync_response,
\* party_client_handle_go_stub); for any selections and phases a server goes through.
THEOREM ShownIsPlayedAlways == HostedSpec => []ShownIsPlayed
<1>1. HostedInit => MemberInv
  BY DEF HostedInit, MemberInv, Settled
<1>2. MemberInv => ShownIsPlayed
  BY DEF MemberInv, Settled, ShownIsPlayed
<1> QED BY <1>1, <1>2, MemberInvStep, PTL DEF HostedSpec

\* So it is with the server of DedicatedParty, whatever its rotation, its commands, its
\* votes and its engine do.
THEOREM SessionShownIsPlayed == MaxSelections <= MaxMatches => (SessionSpec => []ShownIsPlayed)
BY SessionIsHostedLobby, ShownIsPlayedAlways, PTL

-----------------------------------------------------------------------------
(* How a client gets to a server *)

\* The actions, by the parts of the state they leave alone.
LEMMA JoinCases ==
  ASSUME ConnectionNext
  PROVE  \/ \E s \in Server : Connect(s) \/ QueueConnect(s) \/ ServerChanges(s)
         \/ host # Nobody /\ Connect(host)
         \/ Cancel \/ Disconnect \/ StockConnect
         \/ \E t \in tasks : \/ QueuedQuery(t) \/ Timeout(t) \/ LeaveLobby(t)
                             \/ ConnectToServer(t) \/ RequestJoin(t)
         \/ \E a \in answers : InfoResponse(a)
         \/ \E session \in Session : SetupPotentialHost(session)
         \/ LobbyLoads \/ ConnectionDrops
         \/ \E q \in queries : ServerAnswers(q)
BY DEF ConnectionNext, Client, Reconnect

LEMMA TaskKinds ==
  /\ \A n \in Nat, s \in Server : [kind |-> "query", attempt |-> n, server |-> s] \in Task
  /\ \A n \in Nat, s \in Server, c \in Nat :
       /\ [kind |-> "timeout", attempt |-> n, server |-> s, challenge |-> c] \in Task
       /\ [kind |-> "leave", attempt |-> n, server |-> s, challenge |-> c] \in Task
  /\ \A n \in Nat, s \in Server, c \in Nat, i \in Session :
       [kind |-> "join", attempt |-> n, server |-> s, session |-> i, challenge |-> c] \in Task
  /\ \A t \in Task :
       /\ t.kind \in {"query", "timeout", "leave", "direct", "join"}
       /\ t.attempt \in Nat /\ t.server \in Server
       /\ t.kind # "query" => t.challenge \in Nat
       /\ t.kind = "join" => t.session \in Session
BY DEF Task

LEMMA LeaveThenConnect ==
  ASSUME NEW t \in Task, t.kind = "leave"
  PROVE  LET u == [t EXCEPT !.kind = "direct"]
         IN  /\ u \in Task
             /\ u.kind = "direct" /\ u.attempt = t.attempt /\ u.server = t.server /\ u.challenge = t.challenge
BY DEF Task

LEMMA Joins ==
  /\ MaxAttempts \in Nat /\ Nobody \notin Server
  /\ \A s \in Server : Contents(s) \subseteq Content
  /\ Session \subseteq Content
BY ConnectionAssumption DEF ConnectionAssumption, Contents, Content



Attempted ==
    /\ attempt \in 0..MaxAttempts /\ challenge \in 0..attempt
    /\ host \in Server \union {Nobody} /\ pending \in BOOLEAN
    /\ pending => host # Nobody /\ challenge = attempt
    /\ ~pending => challenge = 0
    /\ wish \in Server \union {Nobody} /\ made \in 0..attempt

Scheduled == \A t \in tasks : t \in Task /\ t.attempt \in 1..attempt

Joinings == [attempt : {attempt}, server : Server, session : Session, challenge : Nat]
Hosted == [server : Server, session : Session]
Connected == [server : Server, content : {"direct"} \union Session, challenge : Nat]

Engaged ==
    /\ joining = Nobody \/ joining \in Joinings
    /\ hosted = Nobody \/ hosted \in Hosted
    /\ lobby \in BOOLEAN /\ atomicJoin \subseteq Session
    /\ connection = Nobody \/ connection \in Connected

Queried == queries \subseteq [to : Server, challenge : 1..attempt]
Answered == answers \subseteq [from : Server, challenge : 1..attempt, content : Content]
Served == serves \in [Server -> Content]

JoinTyped == Attempted /\ Scheduled /\ Engaged /\ Queried /\ Answered /\ Served

LEMMA JoinTypes == JoinTyped => ConnectionTypeOK
<1> SUFFICES ASSUME JoinTyped PROVE ConnectionTypeOK
  OBVIOUS
<1>1. /\ attempt \in 0..MaxAttempts /\ challenge \in 0..attempt
      /\ host \in Server \union {Nobody} /\ pending \in BOOLEAN
      /\ pending => host # Nobody /\ challenge = attempt
      /\ ~pending => challenge = 0
      /\ wish \in Server \union {Nobody} /\ made \in 0..attempt
  BY DEF JoinTyped, Attempted
<1>2. tasks \subseteq Task /\ \A t \in tasks : t.attempt \in 1..attempt
  BY DEF JoinTyped, Scheduled
<1>3. Engaged /\ Queried /\ Answered /\ Served
  BY DEF JoinTyped
<1> QED BY <1>1, <1>2, <1>3, Zenon DEF ConnectionTypeOK, Engaged, Joinings, Hosted, Connected, Queried, Answered, Served

\* What the parts depend on.
LEMMA PartsStand ==
  ASSUME JoinTyped
  PROVE  /\ UNCHANGED <<attempt, host, pending, challenge, wish, made>> => Attempted'
         /\ tasks' \subseteq tasks /\ attempt' = attempt => Scheduled'
         /\ UNCHANGED <<attempt, joining, hosted, lobby, atomicJoin, connection>> => Engaged'
         /\ UNCHANGED <<attempt, queries>> => Queried'
         /\ UNCHANGED <<attempt, answers>> => Answered'
         /\ UNCHANGED serves => Served'
<1>1. UNCHANGED <<attempt, host, pending, challenge, wish, made>> => Attempted'
  BY DEF JoinTyped, Attempted
<1>2. tasks' \subseteq tasks /\ attempt' = attempt => Scheduled'
  BY DEF JoinTyped, Scheduled
<1>3. UNCHANGED <<attempt, joining, hosted, lobby, atomicJoin, connection>> => Engaged'
  BY DEF JoinTyped, Engaged, Joinings
<1>4. UNCHANGED <<attempt, queries>> => Queried'
  BY DEF JoinTyped, Queried
<1>5. UNCHANGED <<attempt, answers>> => Answered'
  BY DEF JoinTyped, Answered
<1>6. UNCHANGED serves => Served'
  BY DEF JoinTyped, Served
<1> QED BY <1>1, <1>2, <1>3, <1>4, <1>5, <1>6

\* A new attempt leaves what the earlier ones have begun as it is.
LEMMA AttemptBegins ==
  ASSUME JoinTyped, Invalidate
  PROVE  /\ attempt \in Nat /\ attempt' = attempt + 1 /\ attempt' \in 1..attempt' /\ attempt' \in Nat
         /\ attempt' \in 0..MaxAttempts /\ made \in 0..attempt' /\ attempt' \in 0..attempt' /\ 0 \in 0..attempt'
         /\ joining' = Nobody
         /\ \A t \in tasks : t \in Task /\ t.attempt \in 1..attempt' /\ t.attempt # attempt'
         /\ queries \subseteq [to : Server, challenge : 1..attempt']
         /\ UNCHANGED answers => Answered'
         /\ hosted' \in {hosted, Nobody} /\ connection' \in {connection, Nobody} /\ UNCHANGED <<lobby, atomicJoin>>
              => Engaged'
<1>1. attempt \in Nat /\ attempt' = attempt + 1 /\ attempt' \in 0..MaxAttempts /\ joining' = Nobody
      /\ made \in 0..attempt
  BY Joins DEF Invalidate, JoinTyped, Attempted
<1>2. \A c \in 1..attempt : c \in 1..attempt' /\ c # attempt'
  BY <1>1
<1>3. \A t \in tasks : t \in Task /\ t.attempt \in 1..attempt' /\ t.attempt # attempt'
  BY <1>2 DEF JoinTyped, Scheduled
<1>4. queries \subseteq [to : Server, challenge : 1..attempt']
  BY <1>2 DEF JoinTyped, Queried
<1>5. UNCHANGED answers => Answered'
  BY <1>2 DEF JoinTyped, Answered
<1>6. hosted' \in {hosted, Nobody} /\ connection' \in {connection, Nobody} /\ UNCHANGED <<lobby, atomicJoin>>
        => Engaged'
  BY <1>1 DEF JoinTyped, Engaged
<1> QED BY <1>1, <1>2, <1>3, <1>4, <1>5, <1>6

LEMMA JoinTypeStep ==
  ASSUME JoinTyped, [ConnectionNext]_connectionVars
  PROVE  JoinTyped'
<1> USE DEF client, game, network
<1> SUFFICES Attempted' /\ Scheduled' /\ Engaged' /\ Queried' /\ Answered' /\ Served'
  BY DEF JoinTyped
<1>0. /\ attempt \in Nat /\ attempt \in 0..MaxAttempts /\ challenge \in 0..attempt /\ host \in Server \union {Nobody}
      /\ pending \in BOOLEAN /\ wish \in Server \union {Nobody} /\ made \in 0..attempt
      /\ pending => host # Nobody /\ challenge = attempt
      /\ MaxAttempts \in Nat /\ Nobody \notin Server /\ 0 \in 0..attempt
  BY Joins DEF JoinTyped, Attempted
<1>1. CASE UNCHANGED connectionVars
  BY <1>1, PartsStand DEF connectionVars
<1>2. ASSUME NEW s \in Server, Connect(s)
      PROVE  Attempted' /\ Scheduled' /\ Engaged' /\ Queried' /\ Answered' /\ Served'
  <2>1. /\ Invalidate /\ wish' = s
        /\ UNCHANGED <<hosted, lobby, atomicJoin, connection, serves, answers, made>>
    BY <1>2 DEF Connect
  <2>2. Engaged' /\ Answered' /\ Served'
    BY <2>1, AttemptBegins, PartsStand
  <2>3. CASE lobby
    <3> DEFINE u == [kind |-> "timeout", attempt |-> attempt + 1, server |-> s, challenge |-> attempt + 1]
               q == [to |-> s, challenge |-> attempt + 1]
    <3>1. /\ host' = s /\ pending' = TRUE /\ challenge' = attempt + 1
          /\ queries' = queries \union {q} /\ tasks' = tasks \union {u}
      BY <1>2, <2>3 DEF Connect, Query
    <3>2. u \in Task /\ u.attempt = attempt'
      BY <2>1, AttemptBegins, TaskKinds
    <3>3. q \in [to : Server, challenge : 1..attempt']
      BY <2>1, AttemptBegins
    <3> HIDE DEF u, q
    <3>4. Queried'
      BY <2>1, <3>1, <3>3, AttemptBegins DEF Queried
    <3>5. Scheduled'
      BY <2>1, <3>1, <3>2, AttemptBegins DEF Scheduled
    <3>6. Attempted'
      BY <1>0, <2>1, <3>1, AttemptBegins DEF Attempted
    <3> QED BY <2>2, <3>4, <3>5, <3>6
  <2>4. CASE ~lobby
    <3>1. pending' = FALSE /\ challenge' = 0 /\ UNCHANGED <<host, queries, tasks>>
      BY <1>2, <2>4 DEF Connect, Query
    <3>2. Attempted'
      BY <1>0, <2>1, <3>1, AttemptBegins DEF Attempted
    <3>3. Scheduled' /\ Queried'
      BY <2>1, <3>1, AttemptBegins DEF Scheduled, Queried
    <3> QED BY <2>2, <3>2, <3>3
  <2>5. lobby \in BOOLEAN
    BY DEF JoinTyped, Engaged
  <2> QED BY <2>3, <2>4, <2>5
<1>3. ASSUME NEW s \in Server, QueueConnect(s)
      PROVE  Attempted' /\ Scheduled' /\ Engaged' /\ Queried' /\ Answered' /\ Served'
  <2> DEFINE u == [kind |-> "query", attempt |-> attempt + 1, server |-> s]
  <2>1. /\ Invalidate /\ wish' = s /\ pending' = FALSE /\ challenge' = 0
        /\ tasks' = tasks \union {u}
        /\ UNCHANGED <<host, hosted, lobby, atomicJoin, connection, serves, queries, answers, made>>
    BY <1>3 DEF QueueConnect
  <2>2. Engaged' /\ Answered' /\ Served'
    BY <2>1, AttemptBegins, PartsStand
  <2>3. u \in Task /\ u.attempt = attempt'
    BY <2>1, AttemptBegins, TaskKinds
  <2> HIDE DEF u
  <2>4. Scheduled' /\ Queried'
    BY <2>1, <2>3, AttemptBegins DEF Scheduled, Queried
  <2>5. Attempted'
    BY <1>0, <2>1, AttemptBegins DEF Attempted
  <2> QED BY <2>2, <2>4, <2>5
<1>4. ASSUME NEW s \in Server, ServerChanges(s) PROVE Served'
  BY <1>4, Joins DEF ServerChanges, JoinTyped, Served
<1>5. CASE Cancel \/ Disconnect \/ StockConnect
  <2>1. /\ Invalidate /\ wish' = Nobody /\ pending' = FALSE /\ challenge' = 0
        /\ hosted' \in {hosted, Nobody} /\ connection' \in {connection, Nobody}
        /\ UNCHANGED <<host, tasks, lobby, atomicJoin, serves, queries, answers, made>>
    BY <1>5 DEF Cancel, Disconnect, StockConnect
  <2>2. Engaged' /\ Answered' /\ Served'
    BY <2>1, AttemptBegins, PartsStand
  <2>3. Scheduled' /\ Queried'
    BY <2>1, AttemptBegins DEF Scheduled, Queried
  <2>4. Attempted'
    BY <1>0, <2>1, AttemptBegins DEF Attempted
  <2> QED BY <2>2, <2>3, <2>4
<1>6. ASSUME NEW t \in tasks
      PROVE  t \in Task /\ t.server \in Server /\ t.attempt \in 1..attempt
  BY TaskKinds DEF JoinTyped, Scheduled
<1>7. ASSUME NEW t \in tasks, QueuedQuery(t)
      PROVE  Attempted' /\ Scheduled' /\ Engaged' /\ Queried' /\ Answered' /\ Served'
  <2>1. UNCHANGED <<attempt, joining, hosted, lobby, atomicJoin, connection, serves, answers, wish, made>>
    BY <1>7 DEF QueuedQuery
  <2>2. CASE IsCurrent(t.attempt) /\ lobby
    <3> DEFINE u == [kind |-> "timeout", attempt |-> t.attempt, server |-> t.server, challenge |-> t.attempt]
               q == [to |-> t.server, challenge |-> t.attempt]
    <3>1. /\ host' = t.server /\ pending' = TRUE /\ challenge' = t.attempt
          /\ queries' = queries \union {q} /\ tasks' = (tasks \ {t}) \union {u}
      BY <1>7, <2>2 DEF QueuedQuery, Query
    <3>2. t.attempt = attempt
      BY <2>2 DEF IsCurrent
    <3>3. u \in Task /\ u.attempt = attempt
      BY <1>0, <1>6, <3>2, TaskKinds
    <3>4. q \in [to : Server, challenge : 1..attempt]
      BY <1>6, <3>2
    <3> HIDE DEF u, q
    <3>5. Queried'
      BY <2>1, <3>1, <3>4 DEF JoinTyped, Queried
    <3>6. Scheduled'
      BY <1>6, <2>1, <3>1, <3>2, <3>3 DEF JoinTyped, Scheduled
    <3>7. Attempted'
      BY <1>0, <1>6, <2>1, <3>1, <3>2 DEF Attempted
    <3> QED BY <2>1, <3>5, <3>6, <3>7, PartsStand
  <2>3. CASE ~(IsCurrent(t.attempt) /\ lobby)
    <3>1. tasks' = tasks \ {t} /\ UNCHANGED <<host, pending, challenge, queries>>
      BY <1>7, <2>3 DEF QueuedQuery, Query
    <3> QED BY <2>1, <3>1, PartsStand
  <2> QED BY <2>2, <2>3
<1>8. ASSUME NEW t \in tasks, Timeout(t)
      PROVE  Attempted' /\ Scheduled' /\ Engaged' /\ Queried' /\ Answered' /\ Served'
  <2>1. /\ tasks' = tasks \ {t}
        /\ UNCHANGED <<attempt, host, joining, hosted, lobby, atomicJoin, connection, serves, queries, answers,
                       wish, made>>
        /\ (pending' = FALSE /\ challenge' = 0) \/ UNCHANGED <<pending, challenge>>
    BY <1>8 DEF Timeout
  <2>2. Attempted'
    <3>1. pending' \in BOOLEAN /\ challenge' \in 0..attempt' /\ (pending' => challenge' = attempt')
          /\ (~pending' => challenge' = 0)
      <4>1. CASE pending' = FALSE /\ challenge' = 0
        BY <1>0, <2>1, <4>1
      <4>2. CASE UNCHANGED <<pending, challenge>>
        BY <1>0, <2>1, <4>2 DEF JoinTyped, Attempted
      <4> QED BY <2>1, <4>1, <4>2
    <3> QED BY <1>0, <2>1, <3>1 DEF JoinTyped, Attempted
  <2> QED BY <2>1, <2>2, PartsStand
<1>9. ASSUME NEW a \in answers, InfoResponse(a)
      PROVE  Attempted' /\ Scheduled' /\ Engaged' /\ Queried' /\ Answered' /\ Served'
  <2> DEFINE l == [kind |-> "leave", attempt |-> attempt, server |-> a.from, challenge |-> a.challenge]
             j == [kind |-> "join", attempt |-> attempt, server |-> a.from,
                   session |-> a.content, challenge |-> a.challenge]
  <2>1. a.from \in Server /\ a.challenge \in 1..attempt /\ a.content \in Content /\ attempt \in 1..attempt
        /\ a.challenge \in Nat
    <3>1. a.from \in Server /\ a.challenge \in 1..attempt /\ a.content \in Content
      BY DEF JoinTyped, Answered
    <3> QED BY <1>0, <3>1
  <2>2. /\ UNCHANGED <<attempt, host, hosted, lobby, atomicJoin, connection, serves, queries, answers, wish, made>>
        /\ pending' = FALSE /\ challenge' = 0 /\ joining' \in {joining, Nobody}
    BY <1>9 DEF InfoResponse, EndQuery
  <2>3. \A u \in tasks' : u \in tasks \/ (u = l /\ a.content = "direct") \/ (u = j /\ a.content \in Session)
    BY <1>9, <2>1 DEF InfoResponse, Content
  <2>4. l \in Task /\ l.attempt = attempt
    BY <1>0, <2>1, TaskKinds
  <2>5. a.content \in Session => j \in Task /\ j.attempt = attempt
    BY <1>0, <2>1, TaskKinds
  <2> HIDE DEF l, j
  <2>6. Scheduled'
    BY <2>1, <2>2, <2>3, <2>4, <2>5 DEF JoinTyped, Scheduled
  <2>7. Attempted'
    BY <1>0, <2>2 DEF Attempted
  <2>8. Engaged'
    BY <2>2 DEF JoinTyped, Engaged, Joinings
  <2> QED BY <2>2, <2>6, <2>7, <2>8, PartsStand
<1>10. ASSUME NEW t \in tasks, LeaveLobby(t)
       PROVE  Attempted' /\ Scheduled' /\ Engaged' /\ Queried' /\ Answered' /\ Served'
  <2>1. UNCHANGED <<attempt, host, pending, challenge, joining, hosted, atomicJoin, connection, serves, queries,
                    answers, wish, made>> /\ lobby' \in {lobby, FALSE}
    BY <1>10 DEF LeaveLobby
  <2>2. Scheduled'
    <3> DEFINE u == [t EXCEPT !.kind = "direct"]
    <3>1. t.kind = "leave" /\ \A v \in tasks' : v \in tasks \/ v = u
      BY <1>10 DEF LeaveLobby
    <3>2. u \in Task /\ u.attempt = t.attempt
      BY <1>6, <3>1, LeaveThenConnect
    <3> HIDE DEF u
    <3> QED BY <1>6, <2>1, <3>1, <3>2 DEF Scheduled
  <2>3. Engaged'
    BY <2>1 DEF JoinTyped, Engaged, Joinings
  <2> QED BY <2>1, <2>2, <2>3, PartsStand
<1>11. ASSUME NEW t \in tasks, ConnectToServer(t)
       PROVE  Attempted' /\ Scheduled' /\ Engaged' /\ Queried' /\ Answered' /\ Served'
  <2>1. /\ tasks' = tasks \ {t} /\ t.kind = "direct"
        /\ UNCHANGED <<attempt, host, pending, challenge, lobby, atomicJoin, serves, queries, answers, wish>>
    BY <1>11 DEF ConnectToServer
  <2>2. t.challenge \in Nat /\ t.server \in Server /\ t.attempt \in 1..attempt
    BY <1>6, <2>1, TaskKinds
  <2>3. CASE IsCurrent(t.attempt)
    <3>1. /\ joining' = Nobody /\ hosted' = Nobody /\ made' = t.attempt
          /\ connection' = [server |-> t.server, content |-> "direct", challenge |-> t.challenge]
      BY <1>11, <2>3 DEF ConnectToServer
    <3>2. Engaged'
      BY <2>1, <2>2, <3>1 DEF JoinTyped, Engaged, Connected
    <3>3. Attempted'
      BY <1>0, <2>1, <2>2, <3>1 DEF JoinTyped, Attempted
    <3> QED BY <2>1, <3>2, <3>3, PartsStand
  <2>4. CASE ~IsCurrent(t.attempt)
    <3>1. UNCHANGED <<joining, hosted, connection, made>>
      BY <1>11, <2>4 DEF ConnectToServer
    <3> QED BY <2>1, <3>1, PartsStand
  <2> QED BY <2>3, <2>4
<1>12. ASSUME NEW t \in tasks, RequestJoin(t)
       PROVE  Attempted' /\ Scheduled' /\ Engaged' /\ Queried' /\ Answered' /\ Served'
  <2>1. /\ tasks' = tasks \ {t} /\ t.kind = "join"
        /\ UNCHANGED <<attempt, host, pending, challenge, hosted, lobby, connection, serves, queries, answers,
                       wish, made>>
    BY <1>12 DEF RequestJoin
  <2>2. t.challenge \in Nat /\ t.server \in Server /\ t.session \in Session
    BY <1>6, <2>1, TaskKinds
  <2>3. Engaged'
    <3>1. CASE IsCurrent(t.attempt)
      <4>1. /\ joining' = [attempt |-> t.attempt, server |-> t.server,
                           session |-> t.session, challenge |-> t.challenge]
            /\ atomicJoin' = atomicJoin \union {t.session} /\ t.attempt = attempt'
        BY <1>12, <2>1, <3>1 DEF RequestJoin, IsCurrent
      <4>2. joining' \in Joinings'
        BY <2>2, <4>1 DEF Joinings
      <4> QED BY <2>1, <2>2, <4>1, <4>2 DEF JoinTyped, Engaged
    <3>2. CASE ~IsCurrent(t.attempt)
      BY <1>12, <2>1, <3>2, PartsStand DEF RequestJoin
    <3> QED BY <3>1, <3>2
  <2> QED BY <2>1, <2>3, PartsStand
<1>13. ASSUME NEW session \in Session, SetupPotentialHost(session)
       PROVE  Attempted' /\ Scheduled' /\ Engaged' /\ Queried' /\ Answered' /\ Served'
  <2>1. /\ UNCHANGED <<attempt, host, pending, challenge, tasks, lobby, serves, queries, answers, wish>>
        /\ atomicJoin' = atomicJoin \ {session}
    BY <1>13 DEF SetupPotentialHost
  <2>2. CASE UNCHANGED <<hosted, connection, made>> /\ joining' \in {joining, Nobody}
    <3>1. Engaged'
      BY <2>1, <2>2 DEF JoinTyped, Engaged, Joinings
    <3> QED BY <2>1, <2>2, <3>1, PartsStand
  <2>3. CASE /\ PendingJoinMatches(session) /\ joining' = Nobody
             /\ hosted' = [server |-> joining.server, session |-> joining.session]
             /\ connection' = [server |-> joining.server, content |-> session, challenge |-> joining.challenge]
             /\ made' = joining.attempt
    <3>1. joining \in Joinings /\ joining.attempt = attempt
      BY <2>3 DEF PendingJoinMatches, IsCurrent, JoinTyped, Engaged
    <3>2. hosted' \in Hosted /\ connection' \in Connected
      BY <2>3, <3>1 DEF Joinings, Hosted, Connected
    <3>3. Engaged'
      BY <2>1, <2>3, <3>2 DEF JoinTyped, Engaged
    <3>4. Attempted'
      BY <1>0, <2>1, <2>3, <3>1 DEF JoinTyped, Attempted
    <3> QED BY <2>1, <3>3, <3>4, PartsStand
  <2> QED BY <1>13, <2>2, <2>3 DEF SetupPotentialHost
<1>14. CASE LobbyLoads \/ ConnectionDrops
  <2>1. /\ UNCHANGED <<attempt, host, pending, challenge, tasks, joining, hosted, atomicJoin, serves, queries,
                       answers, wish, made>>
        /\ lobby' \in {lobby, TRUE} /\ connection' \in {connection, Nobody}
    BY <1>14 DEF LobbyLoads, ConnectionDrops
  <2>2. Engaged'
    BY <2>1 DEF JoinTyped, Engaged, Joinings
  <2> QED BY <2>1, <2>2, PartsStand
<1>15. ASSUME NEW q \in queries, ServerAnswers(q) PROVE Answered'
  <2>1. q.to \in Server /\ q.challenge \in 1..attempt /\ serves[q.to] \in Content
    BY DEF JoinTyped, Queried, Served
  <2>2. attempt' = attempt
        /\ answers' = answers \union {[from |-> q.to, challenge |-> q.challenge, content |-> serves[q.to]]}
    BY <1>15 DEF ServerAnswers
  <2> QED BY <2>1, <2>2 DEF JoinTyped, Answered
<1>16. ASSUME NEW s \in Server, ServerChanges(s)
       PROVE  Attempted' /\ Scheduled' /\ Engaged' /\ Queried' /\ Answered' /\ Served'
  <2>1. UNCHANGED <<attempt, host, pending, challenge, tasks, joining, hosted, lobby, atomicJoin, connection,
                    queries, answers, wish, made>>
    BY <1>16 DEF ServerChanges
  <2> QED BY <1>4, <1>16, <2>1, PartsStand
<1>17. ASSUME NEW q \in queries, ServerAnswers(q)
       PROVE  Attempted' /\ Scheduled' /\ Engaged' /\ Queried' /\ Answered' /\ Served'
  <2>1. UNCHANGED <<attempt, host, pending, challenge, tasks, joining, hosted, lobby, atomicJoin, connection,
                    serves, queries, wish, made>>
    BY <1>17 DEF ServerAnswers
  <2> QED BY <1>15, <1>17, <2>1, PartsStand
<1>18. host # Nobody => host \in Server
  BY <1>0
<1> QED
  BY <1>1, <1>2, <1>3, <1>5, <1>7, <1>8, <1>9, <1>10, <1>11, <1>12, <1>13, <1>14, <1>16, <1>17, <1>18, JoinCases

-----------------------------------------------------------------------------
(* The server asked for last, and once *)

Follows(t) == t.attempt = attempt /\ t.kind \in {"leave", "direct", "join"}
Nothing == joining = Nobody /\ \A t \in tasks : ~Follows(t)

\* What the current attempt has begun is for the server that was asked for, and follows
\* the answer to its own query.
Aimed ==
    /\ \A t \in tasks : t.attempt = attempt => t.server = wish /\ (Follows(t) => t.challenge = attempt)
    /\ pending => host = wish
    /\ joining # Nobody => joining.server = wish /\ joining.challenge = attempt /\ joining.attempt = attempt

\* Of the current attempt either the query waits to be sent, or it is pending, or one task
\* follows its answer, or the engine is asked to join; and none of them once it has led to
\* a connection.
OneAtATime ==
    /\ \A t \in tasks : t.attempt = attempt /\ t.kind = "query" => ~pending /\ Nothing /\ made < attempt
    /\ pending => Nothing /\ made < attempt
    /\ \A t \in tasks : Follows(t) =>
         joining = Nobody /\ made < attempt /\ \A u \in tasks : Follows(u) => u = t
    /\ joining # Nobody => made < attempt

JoinInv == JoinTyped /\ Aimed /\ OneAtATime

LEMMA NewAttemptKeeps ==
  ASSUME JoinInv, Invalidate, made' = made,
         \A t \in tasks' : t \in tasks \/ (t.attempt = attempt' /\ t.server = wish' /\ t.kind \in {"query", "timeout"}),
         pending' => /\ host' = wish'
                     /\ \A t \in tasks' : t.attempt = attempt' => t.kind = "timeout"
  PROVE  Aimed' /\ OneAtATime'
<1>1. attempt' = attempt + 1 /\ attempt \in Nat /\ made' < attempt' /\ joining' = Nobody
      /\ \A t \in tasks : t.attempt # attempt'
  <2>1. made \in 0..attempt
    BY DEF JoinInv, JoinTyped, Attempted
  <2> QED BY <2>1, AttemptBegins DEF JoinInv
<1>2. \A t \in tasks' : t.attempt = attempt' => t.server = wish' /\ t.kind \in {"query", "timeout"}
  BY <1>1
<1>3. \A t \in tasks' : ~Follows(t)'
  BY <1>2 DEF Follows
<1> QED BY <1>1, <1>2, <1>3 DEF Aimed, OneAtATime, Nothing, Follows

\* A step that begins nothing.
LEMMA LessKeeps ==
  ASSUME JoinInv, UNCHANGED <<attempt, host, wish, made>>, tasks' \subseteq tasks, joining' \in {joining, Nobody},
         pending' => pending
  PROVE  Aimed' /\ OneAtATime'
BY DEF JoinInv, Aimed, OneAtATime, Nothing, Follows

LEMMA JoinInvStep ==
  ASSUME JoinInv, [ConnectionNext]_connectionVars
  PROVE  JoinInv'
<1> USE DEF client, game, network
<1> SUFFICES Aimed' /\ OneAtATime'
  BY JoinTypeStep DEF JoinInv
<1>0. /\ attempt \in Nat /\ made \in 0..attempt /\ MaxAttempts \in Nat /\ joining # Nobody => joining \in Joinings
      /\ pending => challenge = attempt
  BY Joins DEF JoinInv, JoinTyped, Attempted, Engaged
<1>1. CASE UNCHANGED connectionVars
  BY <1>1, LessKeeps DEF connectionVars
<1>2. ASSUME NEW s \in Server, Connect(s) PROVE Aimed' /\ OneAtATime'
  <2> DEFINE u == [kind |-> "timeout", attempt |-> attempt + 1, server |-> s, challenge |-> attempt + 1]
  <2>1. Invalidate /\ made' = made /\ wish' = s /\ attempt' = attempt + 1
    BY <1>2 DEF Connect, Invalidate
  <2>2. u.attempt = attempt' /\ u.server = s /\ u.kind = "timeout"
    BY <2>1
  <2>3. \/ tasks' = tasks \union {u} /\ host' = s
        \/ tasks' = tasks /\ pending' = FALSE
    BY <1>2 DEF Connect, Query
  <2> HIDE DEF u
  <2>4. \A t \in tasks : t.attempt # attempt'
    BY <1>0, <2>1, AttemptBegins DEF JoinInv
  <2> QED BY <1>0, <2>1, <2>2, <2>3, <2>4, NewAttemptKeeps
<1>3. ASSUME NEW s \in Server, QueueConnect(s) PROVE Aimed' /\ OneAtATime'
  <2> DEFINE u == [kind |-> "query", attempt |-> attempt + 1, server |-> s]
  <2>1. /\ Invalidate /\ made' = made /\ wish' = s /\ attempt' = attempt + 1
        /\ pending' = FALSE /\ tasks' = tasks \union {u}
    BY <1>3 DEF QueueConnect, Invalidate
  <2>2. u.attempt = attempt' /\ u.server = s /\ u.kind = "query"
    BY <2>1
  <2> HIDE DEF u
  <2> QED BY <1>0, <2>1, <2>2, NewAttemptKeeps
<1>4. CASE Cancel \/ Disconnect \/ StockConnect
  <2>1. Invalidate /\ made' = made /\ pending' = FALSE /\ tasks' = tasks
    BY <1>4 DEF Cancel, Disconnect, StockConnect
  <2> QED BY <1>0, <2>1, NewAttemptKeeps
<1>5. ASSUME NEW t \in tasks, QueuedQuery(t) PROVE Aimed' /\ OneAtATime'
  <2>1. UNCHANGED <<attempt, joining, wish, made>> /\ t.kind = "query"
    BY <1>5 DEF QueuedQuery
  <2>2. CASE IsCurrent(t.attempt) /\ lobby
    <3> DEFINE u == [kind |-> "timeout", attempt |-> t.attempt, server |-> t.server, challenge |-> t.attempt]
    <3>1. host' = t.server /\ tasks' = (tasks \ {t}) \union {u} /\ t.attempt = attempt
      BY <1>5, <2>2 DEF QueuedQuery, Query, IsCurrent
    <3>2. u.attempt = attempt /\ u.server = t.server /\ u.kind = "timeout"
      BY <3>1
    <3> HIDE DEF u
    <3>3. /\ t.server = wish /\ joining = Nobody /\ made < attempt /\ ~pending
          /\ \A v \in tasks : ~Follows(v)
      BY <2>1, <3>1 DEF JoinInv, Aimed, OneAtATime, Nothing
    <3>4. \A v \in tasks' : v \in tasks \/ v = u
      BY <3>1
    <3>5. \A v \in tasks' : ~Follows(v)'
      BY <2>1, <3>2, <3>3, <3>4 DEF Follows
    <3>6. \A v \in tasks' : v.attempt = attempt => v.server = wish
      BY <3>2, <3>3, <3>4 DEF JoinInv, Aimed
    <3>7. \A v \in tasks' : ~(v.attempt = attempt /\ v.kind = "query")
      <4>1. ASSUME NEW v \in tasks, v.attempt = attempt, v.kind = "query" PROVE v = t
        <5>1. v \in Task /\ t \in Task
          BY DEF JoinInv, JoinTyped, Scheduled
        <5>2. v \in [kind : {"query"}, attempt : Nat, server : Server]
              /\ t \in [kind : {"query"}, attempt : Nat, server : Server]
          BY <2>1, <4>1, <5>1 DEF Task
        <5>3. v.server = wish /\ t.server = wish
          BY <3>3, <4>1 DEF JoinInv, Aimed
        <5> QED BY <2>1, <3>1, <4>1, <5>2, <5>3
      <4> QED BY <3>1, <3>2, <4>1
    <3> QED BY <2>1, <3>1, <3>3, <3>5, <3>6, <3>7 DEF Aimed, OneAtATime, Nothing
  <2>3. CASE ~(IsCurrent(t.attempt) /\ lobby)
    <3>1. tasks' = tasks \ {t} /\ UNCHANGED <<host, pending>>
      BY <1>5, <2>3 DEF QueuedQuery, Query
    <3> QED BY <2>1, <3>1, LessKeeps
  <2> QED BY <2>2, <2>3
<1>6. ASSUME NEW t \in tasks, Timeout(t) PROVE Aimed' /\ OneAtATime'
  BY <1>6, LessKeeps DEF Timeout
<1>7. ASSUME NEW a \in answers, InfoResponse(a) PROVE Aimed' /\ OneAtATime'
  <2> DEFINE l == [kind |-> "leave", attempt |-> attempt, server |-> a.from, challenge |-> a.challenge]
             j == [kind |-> "join", attempt |-> attempt, server |-> a.from,
                   session |-> a.content, challenge |-> a.challenge]
  <2>1. /\ UNCHANGED <<attempt, host, wish, made>>
        /\ pending' = FALSE /\ joining' \in {joining, Nobody}
        /\ pending /\ a.challenge = challenge /\ a.from = host
    BY <1>7 DEF InfoResponse, EndQuery, AnswersQuery
  <2>2. tasks' = tasks \/ \E u \in {l, j} : tasks' = tasks \union {u}
    BY <1>7 DEF InfoResponse
  <2>3. \A u \in {l, j} : /\ u.attempt = attempt /\ u.server = a.from /\ u.challenge = a.challenge
                          /\ u.kind \in {"leave", "join"}
    OBVIOUS
  <2>4. a.from = wish /\ a.challenge = attempt /\ joining' = Nobody /\ made < attempt
        /\ (\A t \in tasks : ~Follows(t))
        /\ (\A t \in tasks : t.attempt = attempt => t.kind # "query")
    BY <1>0, <2>1 DEF JoinInv, Aimed, OneAtATime, Nothing
  <2>5. CASE tasks' = tasks
    BY <2>1, <2>4, <2>5, LessKeeps
  <2>6. ASSUME NEW u \in {l, j}, tasks' = tasks \union {u} PROVE Aimed' /\ OneAtATime'
    <3>1. /\ u.attempt = attempt /\ u.server = wish /\ u.challenge = attempt /\ u.kind \in {"leave", "join"}
      BY <2>3, <2>4
    <3> HIDE DEF l, j
    <3>2. \A v \in tasks' : v \in tasks \/ v = u
      BY <2>6
    <3>3. \A v \in tasks' : Follows(v)' => v = u
      BY <2>1, <2>4, <3>2 DEF Follows
    <3>4. \A v \in tasks' : v.attempt = attempt => v.server = wish /\ v.kind # "query"
      BY <2>4, <3>1, <3>2 DEF JoinInv, Aimed
    <3> QED BY <2>1, <2>4, <3>1, <3>3, <3>4 DEF Aimed, OneAtATime, Nothing
  <2> QED BY <2>2, <2>5, <2>6
<1>8. ASSUME NEW t \in tasks, LeaveLobby(t) PROVE Aimed' /\ OneAtATime'
  <2> DEFINE u == [t EXCEPT !.kind = "direct"]
  <2>1. UNCHANGED <<attempt, host, pending, joining, wish, made>> /\ t.kind = "leave"
    BY <1>8 DEF LeaveLobby
  <2>2. CASE IsCurrent(t.attempt)
    <3>1. tasks' = (tasks \ {t}) \union {u} /\ t.attempt = attempt
      BY <1>8, <2>2 DEF LeaveLobby, IsCurrent
    <3>2. u.kind = "direct" /\ u.attempt = t.attempt /\ u.server = t.server /\ u.challenge = t.challenge
      BY <2>1, LeaveThenConnect DEF JoinInv, JoinTyped, Scheduled
    <3> HIDE DEF u
    <3>3. Follows(t) /\ Follows(u)
      BY <2>1, <3>1, <3>2 DEF Follows
    <3>4. /\ joining = Nobody /\ made < attempt /\ ~pending /\ t.server = wish /\ t.challenge = attempt
          /\ \A v \in tasks : Follows(v) => v = t
          /\ \A v \in tasks : ~(v.attempt = attempt /\ v.kind = "query")
      BY <3>1, <3>3 DEF JoinInv, Aimed, OneAtATime, Nothing
    <3>5. \A v \in tasks' : v = u \/ (v \in tasks /\ v # t)
      BY <3>1
    <3>6. \A v \in tasks' : Follows(v)' => v = u
      BY <2>1, <3>4, <3>5 DEF Follows
    <3>7. \A v \in tasks' : v.attempt = attempt => v.server = wish /\ v.kind # "query"
      BY <3>2, <3>4, <3>5 DEF JoinInv, Aimed
    <3> QED BY <2>1, <3>2, <3>4, <3>6, <3>7 DEF Aimed, OneAtATime, Nothing
  <2>3. CASE ~IsCurrent(t.attempt)
    BY <1>8, <2>1, <2>3, LessKeeps DEF LeaveLobby
  <2> QED BY <2>2, <2>3
<1>9. ASSUME NEW t \in tasks, ConnectToServer(t) PROVE Aimed' /\ OneAtATime'
  <2>1. tasks' = tasks \ {t} /\ UNCHANGED <<attempt, host, pending, wish>> /\ t.kind = "direct"
    BY <1>9 DEF ConnectToServer
  <2>2. CASE IsCurrent(t.attempt)
    <3>1. joining' = Nobody /\ Follows(t)
      BY <1>9, <2>1, <2>2 DEF ConnectToServer, IsCurrent, Follows
    <3>2. /\ ~pending
          /\ \A v \in tasks' : ~Follows(v)'
          /\ \A v \in tasks : ~(v.attempt = attempt /\ v.kind = "query")
      BY <2>1, <3>1 DEF JoinInv, OneAtATime, Nothing, Follows
    <3>3. \A v \in tasks' : v.attempt = attempt => v.server = wish
      BY <2>1 DEF JoinInv, Aimed
    <3> QED BY <2>1, <3>1, <3>2, <3>3 DEF Aimed, OneAtATime
  <2>3. CASE ~IsCurrent(t.attempt)
    BY <1>9, <2>1, <2>3, LessKeeps DEF ConnectToServer
  <2> QED BY <2>2, <2>3
<1>10. ASSUME NEW t \in tasks, RequestJoin(t) PROVE Aimed' /\ OneAtATime'
  <2>1. tasks' = tasks \ {t} /\ UNCHANGED <<attempt, host, pending, wish, made>> /\ t.kind = "join"
    BY <1>10 DEF RequestJoin
  <2>2. CASE IsCurrent(t.attempt)
    <3>1. /\ joining' = [attempt |-> t.attempt, server |-> t.server, session |-> t.session, challenge |-> t.challenge]
          /\ Follows(t)
      BY <1>10, <2>1, <2>2 DEF RequestJoin, IsCurrent, Follows
    <3>2. /\ ~pending /\ t.server = wish /\ t.challenge = attempt /\ t.attempt = attempt /\ made < attempt
          /\ \A v \in tasks' : ~Follows(v)'
          /\ \A v \in tasks : ~(v.attempt = attempt /\ v.kind = "query")
      BY <2>1, <3>1 DEF JoinInv, Aimed, OneAtATime, Nothing, Follows
    <3>3. \A v \in tasks' : v.attempt = attempt => v.server = wish
      BY <2>1 DEF JoinInv, Aimed
    <3>4. joining'.server = wish /\ joining'.challenge = attempt /\ joining'.attempt = attempt
      BY <3>1, <3>2
    <3> QED BY <2>1, <3>2, <3>3, <3>4 DEF Aimed, OneAtATime
  <2>3. CASE ~IsCurrent(t.attempt)
    BY <1>10, <2>1, <2>3, LessKeeps DEF RequestJoin
  <2> QED BY <2>2, <2>3
<1>11. ASSUME NEW session \in Session, SetupPotentialHost(session) PROVE Aimed' /\ OneAtATime'
  <2>1. UNCHANGED <<attempt, host, pending, tasks, wish>>
    BY <1>11 DEF SetupPotentialHost
  <2>2. CASE UNCHANGED made /\ joining' \in {joining, Nobody}
    BY <2>1, <2>2, LessKeeps
  <2>3. CASE PendingJoinMatches(session) /\ joining' = Nobody
    <3>1. joining # Nobody
      BY <2>3 DEF PendingJoinMatches
    <3>2. /\ ~pending
          /\ \A v \in tasks : ~Follows(v)
          /\ \A v \in tasks : ~(v.attempt = attempt /\ v.kind = "query")
      BY <3>1 DEF JoinInv, OneAtATime, Nothing
    <3>3. \A v \in tasks' : v.attempt = attempt => v.server = wish
      BY <2>1 DEF JoinInv, Aimed
    <3> QED BY <2>1, <2>3, <3>2, <3>3 DEF Aimed, OneAtATime, Follows
  <2> QED BY <1>11, <2>2, <2>3 DEF SetupPotentialHost
<1>12. CASE LobbyLoads \/ ConnectionDrops
  BY <1>12, LessKeeps DEF LobbyLoads, ConnectionDrops
<1>13. ASSUME NEW s, ServerChanges(s) PROVE Aimed' /\ OneAtATime'
  BY <1>13, LessKeeps DEF ServerChanges
<1>14. ASSUME NEW q, ServerAnswers(q) PROVE Aimed' /\ OneAtATime'
  BY <1>14, LessKeeps DEF ServerAnswers
<1>15. host # Nobody => host \in Server
  BY DEF JoinInv, JoinTyped, Attempted
<1> QED
  BY <1>1, <1>2, <1>3, <1>4, <1>5, <1>6, <1>7, <1>8, <1>9, <1>10, <1>11, <1>12, <1>13, <1>14, <1>15, JoinCases

LEMMA JoinInvInit == ConnectionInit => JoinInv
<1> SUFFICES ASSUME ConnectionInit PROVE JoinInv
  OBVIOUS
<1> USE Joins DEF ConnectionInit
<1>1. Attempted
  <2>1. 0 \in 0..MaxAttempts /\ 0 \in 0..0
    BY Joins
  <2> QED BY <2>1 DEF Attempted
<1>2. Scheduled /\ Engaged /\ Queried /\ Answered
  BY DEF Scheduled, Engaged, Queried, Answered
<1>3. Served
  BY DEF Served
<1>4. Aimed /\ OneAtATime
  BY DEF Aimed, OneAtATime
<1> QED BY <1>1, <1>2, <1>3, <1>4 DEF JoinInv, JoinTyped

LEMMA JoinInvariant == ConnectionSpec => []JoinInv
<1>1. ConnectionInit => JoinInv
  BY JoinInvInit
<1>2. JoinInv /\ [ConnectionNext]_connectionVars => JoinInv'
  BY JoinInvStep
<1> QED BY <1>1, <1>2, PTL DEF ConnectionSpec

\* The client's connection record is well formed: a query that is pending has a server and
\* its own challenge, and the join the engine is asked for is of the current attempt.
THEOREM ConnectionTypeCorrect == ConnectionSpec => []ConnectionTypeOK
<1>1. JoinInv => ConnectionTypeOK
  BY JoinTypes DEF JoinInv
<1> QED BY <1>1, JoinInvariant, PTL

\* The steps that make a connection.
LEMMA ConnectsBy ==
  ASSUME ConnectionNext, connection' # connection, connection' # Nobody
  PROVE  \/ \E t \in tasks : ConnectToServer(t)
         \/ \E session \in Session : SetupPotentialHost(session)
BY JoinCases
   DEF Connect, QueueConnect, ServerChanges, Cancel, Disconnect, StockConnect,
       QueuedQuery, Timeout, LeaveLobby, RequestJoin, InfoResponse, LobbyLoads,
       ConnectionDrops, ServerAnswers, game

LEMMA ConnectionMade ==
  ASSUME JoinInv, ConnectionNext, connection' # connection, connection' # Nobody
  PROVE  /\ connection'.server = wish /\ connection'.challenge = attempt /\ made < attempt
         /\ UNCHANGED <<wish, attempt>>
<1>1. CASE \E t \in tasks : ConnectToServer(t)
  <2>1. PICK t \in tasks : ConnectToServer(t)
    BY <1>1
  <2>2. /\ t.kind = "direct" /\ t.attempt = attempt /\ UNCHANGED <<wish, attempt>>
        /\ connection' = [server |-> t.server, content |-> "direct", challenge |-> t.challenge]
    BY <2>1 DEF ConnectToServer, IsCurrent
  <2>3. Follows(t)
    BY <2>2 DEF Follows
  <2>4. t.server = wish /\ t.challenge = attempt /\ made < attempt
    BY <2>2, <2>3 DEF JoinInv, Aimed, OneAtATime
  <2> QED BY <2>2, <2>4
<1>2. CASE \E session \in Session : SetupPotentialHost(session)
  <2>1. PICK session \in Session : SetupPotentialHost(session)
    BY <1>2
  <2>2. /\ joining # Nobody /\ UNCHANGED <<wish, attempt>>
        /\ connection' = [server |-> joining.server, content |-> session, challenge |-> joining.challenge]
    BY <2>1 DEF SetupPotentialHost, PendingJoinMatches
  <2>3. joining.server = wish /\ joining.challenge = attempt /\ made < attempt
    BY <2>2 DEF JoinInv, Aimed, OneAtATime
  <2> QED BY <2>2, <2>3
<1> QED BY <1>1, <1>2, ConnectsBy

\* A client connects only to the server that was asked for last, and by what that server
\* answered to the last query (party.cpp is_connection_attempt_current and the two tasks
\* after s2x_infoResponse), however late answers, tasks and the engine are.
THEOREM ConnectsWhereAskedAlways == ConnectionSpec => ConnectsWhereAsked
<1> DEFINE Asked == Connects => connection'.server = wish /\ connection'.challenge = attempt
<1>1. JoinInv /\ [ConnectionNext]_connectionVars => [Asked]_connectionVars
  BY ConnectionMade DEF Connects
<1> QED BY <1>1, JoinInvariant, PTL DEF ConnectionSpec, ConnectsWhereAsked

\* One request makes at most one connection (party.cpp clear_pending_connect_query): neither
\* an answer that comes twice nor the engine's late call joins again.
THEOREM ConnectsOnce == ConnectionSpec => ConnectsOncePerAttempt
<1> DEFINE Once == Connects => made < attempt
<1>1. JoinInv /\ [ConnectionNext]_connectionVars => [Once]_connectionVars
  BY ConnectionMade DEF Connects
<1> QED BY <1>1, JoinInvariant, PTL DEF ConnectionSpec, ConnectsOncePerAttempt
=============================================================================
