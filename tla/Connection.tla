----------------------------- MODULE Connection -----------------------------
(***************************************************************************)
(* How a client joins a server (client/component/party.cpp and             *)
(* dedicated_party_client.cpp): `connect`, `reconnect`, the server         *)
(* browser, the query and its answer, and the tasks that follow it.        *)
(*                                                                         *)
(* Everything runs on the client's main thread, but in pieces: the query   *)
(* is answered late, again or never, a valid answer schedules one or two   *)
(* tasks for later frames, and the engine sets up a party in its own time. *)
(* The user may ask for something else between any two of them.            *)
(***************************************************************************)
EXTENDS Naturals, FiniteSets

CONSTANTS Server,      \* addresses
          Session,     \* sessions of hosted lobbies
          HostOf,      \* the server of each session
          MaxAttempts, \* bound on attempt_id
          Nobody

ASSUME ConnectionAssumption ==
    /\ MaxAttempts \in Nat /\ HostOf \in [Session -> Server]
    /\ Nobody \notin Server /\ Nobody \notin Session

VARIABLES
    \* party.cpp: connect_state.  An attempt sends at most one query, so its
    \* random challenge is represented by the attempt that drew it, 0 is none.
    attempt, host, pending, challenge,
    tasks,      \* scheduled on the main pipeline
    \* dedicated_party_client.cpp
    joining,    \* hosted_party_join_state
    hosted,     \* hosted_dedicated_party_state
    \* the engine
    lobby,      \* virtual_lobby_loaded()
    atomicJoin, \* PartyAtomic joins whose host is not set up yet
    connection, \* the server, what it runs, and the query whose answer led there
    \* the network
    serves,     \* what a server answers to s2x_getInfo
    queries, answers,
    \* history
    wish,       \* the server the user asked for last; Nobody after a cancellation
    made        \* the last attempt that led to a connection

client == <<attempt, host, pending, challenge, tasks, joining, hosted>>
game == <<lobby, atomicJoin, connection>>
network == <<serves, queries, answers>>
connectionVars == <<client, game, network, wish, made>>

\* Runs its match without a lobby ("direct"), hosts a lobby with a session, or
\* fails the client's checks (protocol, mode, counts, map): "unusable".
Content == {"direct", "unusable"} \union Session
Contents(s) == {"direct", "unusable"} \union {session \in Session : HostOf[session] = s}

Task ==
    [kind : {"query"}, attempt : Nat, server : Server]
    \union [kind : {"timeout"}, attempt : Nat, server : Server, challenge : Nat]
    \union [kind : {"leave", "direct"}, attempt : Nat, server : Server, challenge : Nat]
    \union [kind : {"join"}, attempt : Nat, server : Server, session : Session, challenge : Nat]

ConnectionTypeOK ==
    /\ attempt \in 0..MaxAttempts /\ challenge \in 0..attempt
    /\ host \in Server \union {Nobody} /\ pending \in BOOLEAN
    /\ pending => host # Nobody /\ challenge = attempt
    /\ ~pending => challenge = 0
    /\ tasks \subseteq Task /\ \A t \in tasks : t.attempt \in 1..attempt
    /\ joining = Nobody \/ 
       joining \in [attempt : {attempt}, server : Server, session : Session, challenge : Nat]
    /\ hosted = Nobody \/ hosted \in [server : Server, session : Session]
    /\ lobby \in BOOLEAN /\ atomicJoin \subseteq Session
    /\ connection = Nobody \/ 
       connection \in [server : Server, content : {"direct"} \union Session, challenge : Nat]
    /\ serves \in [Server -> Content]
    /\ queries \subseteq [to : Server, challenge : 1..attempt]
    /\ answers \subseteq [from : Server, challenge : 1..attempt, content : Content]
    /\ wish \in Server \union {Nobody} /\ made \in 0..attempt

ConnectionInit ==
    /\ attempt = 0 /\ host = Nobody /\ pending = FALSE /\ challenge = 0
    /\ tasks = {} /\ joining = Nobody /\ hosted = Nobody
    /\ lobby \in BOOLEAN /\ atomicJoin = {} /\ connection = Nobody
    /\ serves \in {f \in [Server -> Content] : \A s \in Server : f[s] \in Contents(s)}
    /\ queries = {} /\ answers = {}
    /\ wish = Nobody /\ made = 0

-----------------------------------------------------------------------------
(* The user *)

IsCurrent(n) == attempt = n

\* invalidate_connection_attempt
Invalidate ==
    /\ attempt < MaxAttempts
    /\ attempt' = attempt + 1
    /\ joining' = Nobody

\* connect(target, attempt), of the attempt n that the caller has begun.
Query(s, n, scheduled) ==
    IF lobby
    THEN /\ host' = s /\ pending' = TRUE /\ challenge' = n
         /\ queries' = queries \union {[to |-> s, challenge |-> n]}
         /\ tasks' = scheduled \union
                {[kind |-> "timeout", attempt |-> n, server |-> s, challenge |-> n]}
    ELSE /\ tasks' = scheduled
         /\ UNCHANGED <<host, queries>>

\* `connect <address>`
Connect(s) ==
    /\ Invalidate
    /\ Query(s, attempt + 1, tasks)
    /\ ~lobby => pending' = FALSE /\ challenge' = 0
    /\ wish' = s
    /\ UNCHANGED <<hosted, game, serves, answers, made>>

Reconnect == host # Nobody /\ Connect(host)

\* The server browser: queue_connect
QueueConnect(s) ==
    /\ Invalidate
    /\ pending' = FALSE /\ challenge' = 0
    /\ tasks' = tasks \union {[kind |-> "query", attempt |-> attempt + 1, server |-> s]}
    /\ wish' = s
    /\ UNCHANGED <<host, hosted, game, network, made>>

\* CancelS2xConnection, and `map` before it starts a server.
Cancel ==
    /\ Invalidate
    /\ pending' = FALSE /\ challenge' = 0
    /\ wish' = Nobody
    /\ UNCHANGED <<host, tasks, hosted, game, network, made>>

\* The engine leaves its server, after which the lobby may load.
Disconnect ==
    /\ Invalidate
    /\ pending' = FALSE /\ challenge' = 0
    /\ hosted' = Nobody
    /\ connection' = Nobody
    /\ wish' = Nobody
    /\ UNCHANGED <<host, tasks, lobby, atomicJoin, network, made>>

\* The stock seven-argument `connect`: the engine joins on its own.
StockConnect ==
    /\ Invalidate
    /\ pending' = FALSE /\ challenge' = 0
    /\ hosted' = Nobody
    /\ wish' = Nobody
    /\ UNCHANGED <<host, tasks, game, network, made>>

-----------------------------------------------------------------------------
(* The client *)

\* The task of queue_connect.
QueuedQuery(t) ==
    /\ t.kind = "query"
    /\ IF IsCurrent(t.attempt)
       THEN Query(t.server, t.attempt, tasks \ {t}) /\ (~lobby => UNCHANGED <<pending, challenge>>)
       ELSE tasks' = tasks \ {t} /\ UNCHANGED <<host, pending, challenge, queries>>
    /\ UNCHANGED <<attempt, joining, hosted, game, serves, answers, wish, made>>

TimesOut(t) ==
    IsCurrent(t.attempt) /\ pending /\ challenge = t.challenge /\ host = t.server

Timeout(t) ==
    /\ t.kind = "timeout"
    /\ tasks' = tasks \ {t}
    /\ IF TimesOut(t) THEN pending' = FALSE /\ challenge' = 0
                      ELSE UNCHANGED <<pending, challenge>>
    /\ UNCHANGED <<attempt, host, joining, hosted, game, network, wish, made>>

AnswersAnyQuery(a) == pending /\ a.from = host
\* The answer to the query that is pending, from the server that was asked.
AnswersQuery(a) == pending /\ a.challenge = challenge /\ a.from = host

KeepQuery == UNCHANGED <<pending, challenge>>
EndQuery == pending' = FALSE /\ challenge' = 0

\* s2x_infoResponse.  Copies stay in the network, so an answer may come again.
InfoResponse(a) ==
    /\ AnswersQuery(a)
    /\ EndQuery
    /\ tasks' = tasks \union
         (CASE a.content = "unusable" -> {}
            [] a.content = "direct" ->
                 {[kind |-> "leave", attempt |-> attempt, server |-> a.from, challenge |-> a.challenge]}
            [] OTHER ->
                 {[kind |-> "join", attempt |-> attempt, server |-> a.from,
                   session |-> a.content, challenge |-> a.challenge]})
    /\ joining' = IF a.content \in Session THEN Nobody ELSE joining
    /\ UNCHANGED <<attempt, host, hosted, game, network, wish, made>>

\* The first task of a direct connection.
LeaveLobby(t) ==
    /\ t.kind = "leave"
    /\ IF IsCurrent(t.attempt)
       THEN /\ lobby' = FALSE
            /\ tasks' = (tasks \ {t}) \union {[t EXCEPT !.kind = "direct"]}
       ELSE /\ tasks' = tasks \ {t}
            /\ UNCHANGED lobby
    /\ UNCHANGED <<attempt, host, pending, challenge, joining, hosted, atomicJoin, connection,
                   network, wish, made>>

\* The second: connect_to_server
ConnectToServer(t) ==
    /\ t.kind = "direct"
    /\ tasks' = tasks \ {t}
    /\ IF IsCurrent(t.attempt)
       THEN /\ joining' = Nobody /\ hosted' = Nobody
            /\ connection' = [server |-> t.server, content |-> "direct", challenge |-> t.challenge]
            /\ made' = t.attempt
       ELSE UNCHANGED <<joining, hosted, connection, made>>
    /\ UNCHANGED <<attempt, host, pending, challenge, lobby, atomicJoin, network, wish>>

\* The task of try_handle_join, with execute_internal_connect.
RequestJoin(t) ==
    /\ t.kind = "join"
    /\ tasks' = tasks \ {t}
    /\ IF IsCurrent(t.attempt)
       THEN /\ joining' = [attempt |-> t.attempt, server |-> t.server,
                           session |-> t.session, challenge |-> t.challenge]
            /\ atomicJoin' = atomicJoin \union {t.session}
       ELSE UNCHANGED <<joining, atomicJoin>>
    /\ UNCHANGED <<attempt, host, pending, challenge, hosted, lobby, connection, network, wish, made>>

\* pending_hosted_party_join_matches
PendingJoinMatches(session) ==
    joining # Nobody /\ IsCurrent(joining.attempt) /\ joining.session = session

\* party_atomic_setup_potential_host_stub, called by the engine for a join it
\* was asked for.  A raw address is none of the engine's own sessions: without
\* a matching join, or when its session cannot be set up, the engine gives up.
SetupPotentialHost(session) ==
    /\ session \in atomicJoin
    /\ atomicJoin' = atomicJoin \ {session}
    /\ IF PendingJoinMatches(session)
       THEN /\ joining' = Nobody
            /\ \/ /\ hosted' = [server |-> joining.server, session |-> joining.session]
                  /\ connection' = [server |-> joining.server, content |-> session,
                                     challenge |-> joining.challenge]
                  /\ made' = joining.attempt
               \/ UNCHANGED <<hosted, connection, made>>
       ELSE UNCHANGED <<joining, hosted, connection, made>>
    /\ UNCHANGED <<attempt, host, pending, challenge, tasks, lobby, network, wish>>

Client ==
    \/ \E t \in tasks : QueuedQuery(t) \/ Timeout(t) \/ LeaveLobby(t) \/ ConnectToServer(t) \/ RequestJoin(t)
    \/ \E a \in answers : InfoResponse(a)

-----------------------------------------------------------------------------
(* The engine, the servers and the network *)

LobbyLoads ==
    /\ ~lobby
    /\ lobby' = TRUE
    /\ UNCHANGED <<client, atomicJoin, connection, network, wish, made>>

\* The server goes away or the engine gives the connection up.
ConnectionDrops ==
    /\ connection # Nobody
    /\ connection' = Nobody
    /\ UNCHANGED <<client, lobby, atomicJoin, network, wish, made>>

\* A server stops, starts or hosts another session.
ServerChanges(s) ==
    /\ \E c \in Contents(s) \ {serves[s]} : serves' = [serves EXCEPT ![s] = c]
    /\ UNCHANGED <<client, game, queries, answers, wish, made>>

\* send_info_response; a query may arrive more than once or not at all.
ServerAnswers(q) ==
    /\ answers' = answers \union
         {[from |-> q.to, challenge |-> q.challenge, content |-> serves[q.to]]}
    /\ UNCHANGED <<client, game, serves, queries, wish, made>>

ConnectionNext ==
    \/ \E s \in Server : Connect(s) \/ QueueConnect(s) \/ ServerChanges(s)
    \/ Reconnect \/ Cancel \/ Disconnect \/ StockConnect
    \/ Client
    \/ \E session \in Session : SetupPotentialHost(session)
    \/ LobbyLoads \/ ConnectionDrops
    \/ \E q \in queries : ServerAnswers(q)

ConnectionSpec == ConnectionInit /\ [][ConnectionNext]_connectionVars

-----------------------------------------------------------------------------
(* Properties *)

Connects == connection' # connection /\ connection' # Nobody

\* A connection is made only to the server the user asked for last: never to
\* an earlier one whose answer or task was late, never after a cancellation.  And
\* it follows what the server answered to the last query, not to an earlier
\* one: an old session or match may be gone.
ConnectsWhereAsked ==
    [][Connects => connection'.server = wish /\ connection'.challenge = attempt]_connectionVars

\* One request leads to one connection: an answer that arrives again, or the
\* engine's late call, does not rejoin a server that has been left.
ConnectsOncePerAttempt == [][Connects => made < attempt]_connectionVars

=============================================================================
