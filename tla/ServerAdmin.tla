---------------------------- MODULE ServerAdmin ----------------------------
(***************************************************************************)
(* Local administration of a dedicated server (component/server_admin.cpp).*)
(*                                                                         *)
(* A worker thread serves one pipe client at a time: it schedules a        *)
(* callback on the server's frames, waits until a deadline, gives the      *)
(* request up or finds that the callback has begun, and remembers its      *)
(* answer under the request's id.  Callbacks run one at a time between     *)
(* frames, which may stop coming (no match) and come back late; the        *)
(* players, the map and the roster change between them.                    *)
(***************************************************************************)
EXTENDS Naturals, FiniteSets, Sequences

CONSTANTS Id,            \* request ids
          Operation,     \* the operation each id asks for
          Slot, Conn,    \* slots, and connections a slot may hold in turn
          Protected,     \* those of bots and of the local host
          QueueCapacity, \* 8 in the code
          Remembered,    \* answers kept, 128 in the code
          MaxDispatches, MaxEpoch, \* bounds
          None

ASSUME AdminAssumption ==
    /\ Operation \in [Id -> {"hello", "players", "announce", "warn", "kick"}]
    /\ Protected \subseteq Conn
    /\ {QueueCapacity, Remembered} \subseteq Nat \ {0}
    /\ {MaxDispatches, MaxEpoch} \subseteq Nat
    /\ None \notin Id \union Slot \union Conn \union Nat

VARIABLES
    \* the worker: the answers it remembers, the dispatch it waits for, and
    \* whether it has passed the deadline and asked to cancel
    completed, serving, givenUp,
    \* one work item per dispatch, numbered in order
    work, scheduled, queued,
    stopping,
    \* the server thread: the callback that runs, and how far it is
    frame,
    \* its registry of roster tokens, the epoch and the match
    identities, epoch, notice, client, match,
    \* history
    fresh,   \* connections not used yet
    listed,  \* the connection each token was made for
    answers, \* what was answered to each dispatch, and how many callbacks waited then
    done,    \* the dispatches whose action was carried out
    kicked   \* the token used and the connection dropped

worker == <<completed, serving, givenUp>>
queue == <<work, scheduled, queued>>
registry == <<identities, epoch, notice, client, match>>
history == <<fresh, listed, answers, done, kicked>>
vars == <<worker, queue, stopping, frame, registry, history>>

Init ==
    /\ completed = <<>> /\ serving = None /\ givenUp = FALSE
    /\ work = <<>> /\ scheduled = {} /\ queued = 0
    /\ stopping = FALSE /\ frame = None
    /\ identities = {} /\ epoch = 0 /\ notice = FALSE
    /\ client = [s \in Slot |-> None] /\ match = FALSE
    /\ fresh = Conn /\ listed = [t \in {} |-> None]
    /\ answers = {} /\ done = {} /\ kicked = {}

Reply(code) == [code |-> code, roster |-> 0]

-----------------------------------------------------------------------------
(* The worker: converse and dispatch *)

RemembersSuccess(reply) == reply.code = "ok"
RemembersAny(reply) == TRUE

\* emplace_back, and pop_front above the limit
Remember(id, reply) ==
    LET kept == Append(completed, [id |-> id, reply |-> reply])
    IN  IF ~RemembersAny(reply) THEN completed
        ELSE IF Len(kept) > Remembered THEN Tail(kept) ELSE kept

IsRemembered(id) == \E i \in DOMAIN completed : completed[i].id = id

Answer(n, id, reply, waiting) ==
    /\ completed' = Remember(id, reply)
    /\ answers' = answers \union
        {[dispatch |-> n, code |-> reply.code, roster |-> reply.roster, waiting |-> waiting]}

\* Tokens a client can know: those of the rosters it was sent.
Known == {t \in DOMAIN listed : \E a \in answers : a.roster = t[1]}

\* A new request, or a remembered or forgotten one again under its id.
\* Its id's answer is repeated without a dispatch while it is remembered.
Dispatch(id, target) ==
    /\ serving = None /\ ~stopping /\ ~IsRemembered(id)
    /\ Len(work) < MaxDispatches
    /\ work' = Append(work, [id |-> id, target |-> target, state |-> "pending",
                             late |-> FALSE, reply |-> None])
    /\ \/ /\ Operation[id] = "hello"
          /\ Answer(Len(work'), id, Reply("ok"), Cardinality(scheduled))
          /\ done' = done \union {Len(work')}
          /\ UNCHANGED <<serving, givenUp, scheduled, queued>>
       \/ /\ Operation[id] # "hello" /\ queued >= QueueCapacity
          /\ Answer(Len(work'), id, Reply("busy"), Cardinality(scheduled))
          /\ UNCHANGED <<serving, givenUp, scheduled, queued, done>>
       \/ /\ Operation[id] # "hello" /\ queued < QueueCapacity
          /\ queued' = queued + 1
          /\ scheduled' = scheduled \union {Len(work')}
          /\ serving' = Len(work') /\ givenUp' = FALSE
          /\ UNCHANGED <<completed, answers, done>>
    /\ UNCHANGED <<stopping, frame, registry, fresh, listed, kicked>>

\* dispatch() returns an answer to converse().
Conclude(reply) ==
    /\ Answer(serving, work[serving].id, reply, Cardinality(scheduled))
    /\ serving' = None /\ givenUp' = FALSE
    /\ UNCHANGED <<queue, stopping, frame, registry, fresh, listed, done, kicked>>

TakeReply ==
    /\ serving # None /\ ~givenUp
    /\ work[serving].reply # None
    /\ Conclude(work[serving].reply)

\* policy::cancel, at the deadline or when the server stops
Cancelled(n) == IF work[n].state = "pending" THEN [work EXCEPT ![n].state = "cancelled"] ELSE work

GiveUp ==
    /\ serving # None /\ ~givenUp
    /\ work[serving].late \/ stopping
    /\ work' = Cancelled(serving)
    /\ givenUp' = TRUE
    /\ UNCHANGED <<completed, serving, scheduled, queued, stopping, frame, registry, history>>

\* A callback that had begun may still report within its grace time.
TakeLateReply ==
    /\ serving # None /\ givenUp /\ ~stopping
    /\ work[serving].state # "cancelled" /\ work[serving].reply # None
    /\ Conclude(work[serving].reply)

ResultUnknown ==
    /\ serving # None /\ givenUp
    /\ work[serving].state \in {"running", "complete"}
    /\ work[serving].reply = None \/ stopping
    /\ Conclude(Reply("result_unknown"))

Expired ==
    /\ serving # None /\ givenUp
    /\ work[serving].state = "cancelled"
    /\ Conclude(Reply("expired"))

DeadlinePasses ==
    /\ \E n \in DOMAIN work : ~work[n].late /\ n \in scheduled \union {serving}
                              /\ work' = [work EXCEPT ![n].late = TRUE]
    /\ UNCHANGED <<worker, scheduled, queued, stopping, frame, registry, history>>

\* pre_destroy
Stop ==
    /\ ~stopping
    /\ stopping' = TRUE /\ notice' = FALSE
    /\ UNCHANGED <<worker, queue, frame, identities, epoch, client, match, history>>

-----------------------------------------------------------------------------
(* The callback on the server's frame *)

\* The checks of the callback and of policy::begin before its exchange.
StartCallback(n) ==
    /\ frame = None /\ n \in scheduled
    /\ scheduled' = scheduled \ {n} /\ queued' = queued - 1
    /\ IF stopping THEN UNCHANGED <<work, frame>>
       ELSE IF work[n].late THEN work' = Cancelled(n) /\ UNCHANGED frame
       ELSE frame' = [dispatch |-> n, stage |-> "checked"] /\ UNCHANGED work
    /\ UNCHANGED <<worker, stopping, registry, history>>

BeginsAnyway(n) == work[n].state \in {"pending", "cancelled"}
Begins(n) == work[n].state = "pending"

\* The compare-exchange of policy::begin.
BeginWork ==
    /\ frame # None /\ frame.stage = "checked"
    /\ IF Begins(frame.dispatch)
       THEN /\ work' = [work EXCEPT ![frame.dispatch].state = "running"]
            /\ frame' = [frame EXCEPT !.stage = "running"]
       ELSE /\ frame' = None
            /\ UNCHANGED work
    /\ UNCHANGED <<worker, scheduled, queued, stopping, registry, history>>

\* The callback's reply is set, and then its state.
Report(reply) ==
    /\ work' = [work EXCEPT ![frame.dispatch].reply = reply]
    /\ frame' = [frame EXCEPT !.stage = "reported"]
    /\ UNCHANGED <<worker, scheduled, queued, stopping, epoch, notice, match, fresh, answers>>

Complete ==
    /\ frame # None /\ frame.stage = "reported"
    /\ work' = [work EXCEPT ![frame.dispatch].state = "complete"]
    /\ frame' = None
    /\ UNCHANGED <<worker, scheduled, queued, stopping, registry, history>>

Executing(operation) ==
    /\ frame # None /\ frame.stage = "running"
    /\ Operation[work[frame.dispatch].id] = operation
Executable == ~stopping /\ match

RefuseAll ==
    /\ \E operation \in {"players", "announce", "warn", "kick"} : Executing(operation)
    /\ ~Executable
    /\ Report(Reply("refused"))
    /\ UNCHANGED <<identities, client, listed, done, kicked>>

\* A token is random; here it is the roster that issued it and its slot.
NewIdentity(s) ==
    [token |-> <<frame.dispatch, s>>, slot |-> s, conn |-> client[s],
     epoch |-> epoch, expired |-> FALSE]
Connected == {s \in Slot : client[s] # None}

\* execute, "players": the roster is replaced, and its tokens with it.  The
\* system's random numbers may fail on the way.
ListPlayers ==
    /\ Executing("players") /\ Executable
    /\ \/ /\ identities' = {NewIdentity(s) : s \in Connected}
          /\ listed' = [t \in DOMAIN listed \union {<<frame.dispatch, s>> : s \in Connected} |->
                IF t \in DOMAIN listed THEN listed[t] ELSE client[t[2]]]
          /\ done' = done \union {frame.dispatch}
          /\ Report([code |-> "ok", roster |-> frame.dispatch])
       \/ /\ \E some \in SUBSET Connected : some # Connected /\
                identities' = {NewIdentity(s) : s \in some}
          /\ Report(Reply("internal_error"))
          /\ UNCHANGED <<listed, done>>
    /\ UNCHANGED <<client, kicked>>

\* "announce": some player has a listener that is ready, or none has.
Announce ==
    /\ Executing("announce") /\ Executable
    /\ \/ /\ notice /\ \E s \in Connected : client[s] \notin Protected
          /\ Report(Reply("ok"))
          /\ done' = done \union {frame.dispatch}
       \/ Report(Reply("refused")) /\ UNCHANGED done
    /\ UNCHANGED <<identities, client, listed, kicked>>

MatchesSlotOnly(i) == client[i.slot] # None /\ i.epoch = epoch /\ ~i.expired
\* matches, with policy::same_connection
Matches(i) ==
    client[i.slot] # None /\ i.epoch = epoch /\ ~i.expired /\ i.conn = client[i.slot]

Target(n) == {i \in identities : i.token = work[n].target /\ Matches(i)
                                 /\ client[i.slot] \notin Protected}

RefuseTarget ==
    /\ Executing("warn") \/ Executing("kick")
    /\ Executable /\ Target(frame.dispatch) = {}
    /\ Report(Reply("refused"))
    /\ UNCHANGED <<identities, client, listed, done, kicked>>

Warn ==
    /\ Executing("warn") /\ Executable
    /\ \E i \in Target(frame.dispatch) :
        \/ notice /\ Report(Reply("ok")) /\ done' = done \union {frame.dispatch}
        \/ Report(Reply("refused")) /\ UNCHANGED done
    /\ UNCHANGED <<identities, client, listed, kicked>>

Kick ==
    /\ Executing("kick") /\ Executable
    /\ \E i \in Target(frame.dispatch) :
        /\ client' = [client EXCEPT ![i.slot] = None]
        /\ identities' = identities \ {i}
        /\ kicked' = kicked \union {<<i.token, client[i.slot]>>}
        /\ done' = done \union {frame.dispatch}
    /\ Report(Reply("ok"))
    /\ UNCHANGED listed

Execute == RefuseAll \/ ListPlayers \/ Announce \/ RefuseTarget \/ Warn \/ Kick

-----------------------------------------------------------------------------
(* The engine, on the server thread between callbacks, and the clock *)

Connect(s, c) ==
    /\ frame = None /\ client[s] = None /\ c \in fresh
    /\ client' = [client EXCEPT ![s] = c] /\ fresh' = fresh \ {c}
    /\ UNCHANGED <<worker, queue, stopping, frame, identities, epoch, notice, match,
                   listed, answers, done, kicked>>

Leave(s) ==
    /\ frame = None /\ client[s] # None
    /\ client' = [client EXCEPT ![s] = None]
    /\ UNCHANGED <<worker, queue, stopping, frame, identities, epoch, notice, match, history>>

\* reset_admin_notices, when the scripts of a map are started or shut down or
\* ask for it
MapChange ==
    /\ frame = None /\ epoch < MaxEpoch
    /\ match' \in BOOLEAN /\ epoch' = epoch + 1 /\ notice' = FALSE
    /\ UNCHANGED <<worker, queue, stopping, frame, identities, client, history>>

\* serveradminnoticeready(-1, 1)
NoticeReady ==
    /\ frame = None /\ match /\ ~stopping /\ ~notice
    /\ notice' = TRUE
    /\ UNCHANGED <<worker, queue, stopping, frame, identities, epoch, client, match, history>>

TokenExpires ==
    /\ \E i \in identities : ~i.expired /\
        identities' = (identities \ {i}) \union {[i EXCEPT !.expired = TRUE]}
    /\ UNCHANGED <<worker, queue, stopping, frame, epoch, notice, client, match, history>>

Next ==
    \/ \E id \in Id :
        IF Operation[id] \in {"warn", "kick"} THEN \E t \in Known : Dispatch(id, t)
                                              ELSE Dispatch(id, None)
    \/ TakeReply \/ GiveUp \/ TakeLateReply \/ ResultUnknown \/ Expired
    \/ DeadlinePasses \/ Stop
    \/ \E n \in scheduled : StartCallback(n)
    \/ BeginWork \/ Execute \/ Complete
    \/ \E s \in Slot : Leave(s) \/ \E c \in Conn : Connect(s, c)
    \/ MapChange \/ NoticeReady \/ TokenExpires

Spec == Init /\ [][Next]_vars

-----------------------------------------------------------------------------
(* Properties *)

\* An answer can be relied on: "ok" means that the action was carried out;
\* "no action was started" that it was not and never will be, though its
\* callback is still scheduled; "busy" that the queue really is full.
AnswerIsTrue ==
    \A a \in answers :
        /\ a.code = "ok" => a.dispatch \in done
        /\ a.code \in {"expired", "busy", "refused"} => a.dispatch \notin done
        /\ a.code = "busy" => a.waiting >= QueueCapacity

\* "Completed request IDs deduplicated": a request that is sent again under its
\* id does not act again while the answer may be remembered, whatever the
\* answer was.
ActsOncePerId ==
    \A m, n \in done : m < n /\ work[m].id = work[n].id => n - m > Remembered

\* A player is disconnected only by a token that was made for this very
\* connection, never one that has taken over the slot since, nor a bot.
KickedAsListed ==
    \A k \in kicked : listed[k[1]] = k[2] /\ k[2] \notin Protected

=============================================================================
