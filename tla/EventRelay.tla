----------------------------- MODULE EventRelay -----------------------------
(***************************************************************************)
(* The way of a reward event from the game server to the economy of the    *)
(* player who earned it: component/hidden_challenge_relay.cpp with         *)
(* game/demonware/hq_relay_queue.hpp and hq_event_relay.hpp.               *)
(*                                                                         *)
(* A request carries events of several players.  The server reserves room  *)
(* for the events of the remote ones, commits the local player's events,   *)
(* and only then queues the others: the request is accepted whole or sent  *)
(* again.  Each server frame hands every client's queued events, fragment  *)
(* by fragment, to the reliable command channel.  The client joins the     *)
(* fragments, queues whole events, and a worker commits them in batches.   *)
(*                                                                         *)
(* Queued events are represented by the fragments they still have to send, *)
(* per player: players do not share anything but the capacity, because the *)
(* budget of one frame covers every slot of the party.                     *)
(***************************************************************************)
EXTENDS Integers, FiniteSets, FiniteSetsExt, Sequences, SequencesExt

CONSTANTS User,            \* remote players
          Event,           \* reward events, each earned once
          Parts,           \* fragments of each event on the wire
          Request,         \* task 11 requests
          Remote,          \* Remote[r][u]: the events r carries for u, in order
          Local,           \* the requests that carry local events
          Invalid,         \* the requests valid_event() or encode() refuses
          Rejected,        \* events a client's apply_event rejects
          QueueCapacity,   \* server_queue::capacity, 5120
          ByteCapacity,    \* server_queue::byte_capacity, in fragments
          FrameParts,      \* fragments_per_client_frame, 4
          Backlog,         \* maximum_relay_backlog, 32
          InboxCapacity,   \* client_queue::capacity, 256
          BatchSize,       \* client_queue::batch_size, 32
          MaxDisturbances, \* bound on disconnects, restarts and map changes
          None

ASSUME RelayAssumption ==
    /\ Parts \in [Event -> Nat \ {0}]
    /\ Remote \in [Request -> [User -> Seq(Event)]]
    /\ Local \subseteq Request /\ Invalid \subseteq Request
    /\ Rejected \subseteq Event
    /\ {QueueCapacity, ByteCapacity, MaxDisturbances} \subseteq Nat
    /\ {FrameParts, Backlog, InboxCapacity, BatchSize} \subseteq Nat \ {0}
    /\ None \notin Request \union [event : Event, index : Nat]
    /\ IsFiniteSet(User)
    \* An event is one occurrence: one request carries it, once.
    /\ \A r, s \in Request : \A u, v \in User :
        \A i \in DOMAIN Remote[r][u], j \in DOMAIN Remote[s][v] :
            Remote[r][u][i] = Remote[s][v][j] => r = s /\ u = v /\ i = j

VARIABLES
    \* the server
    accepting,     \* accepting_forwards
    closed,        \* pre_destroy has cleared the queue
    busy,          \* request holding pending_forward_mutex, or None
    stored,        \* whether apply_local of the busy request has committed
    verdict,       \* what the last attempt at each request returned
    pending,       \* fragments each player's queued events still have to send
    pendingBytes, reserved, reservedBytes,
    \* the connection and the client of each player
    conn,          \* "gone", "loading" (state 3 or 4) or "active" (state 5)
    channel,       \* fragments in the reliable channel
    partial,       \* the receiver: event being joined and next fragment, or None
    inbox,         \* client_queue
    batch,         \* in-flight batch of process_client_events
    handled,       \* events the client's economy has dealt with, in order
    \* history
    accepted,      \* events of accepted requests, in order
    excused,       \* whether something happened that may lose this player's events
    locally,       \* requests whose local events were committed
    disturbances

serverVars == <<accepting, closed, busy, stored, verdict, pending, pendingBytes,
                reserved, reservedBytes, accepted, locally>>
clientVars == <<conn, channel, partial, inbox, batch, handled>>
vars == <<serverVars, clientVars, excused, disturbances>>

Fragment == [event : Event, index : Nat]

-----------------------------------------------------------------------------
(* Events, fragments and sizes *)

\* What S weighs when x weighs n[x].
Weight(n, S) == Cardinality(UNION {{x} \X (1..n[x]) : x \in S})

\* Entry i of a list stands for n[i] items: the items of the first i entries,
\* and the entry that item k belongs to.
Items(n, i) == Weight(n, 1..i)
EntryOf(n, k) == CHOOSE i \in DOMAIN n : Items(n, i - 1) < k /\ k <= Items(n, i)

\* chunks(): an event's fragments, numbered from 0, one event after the other.
Chunks(e) == [i \in 1..Parts[e] |-> [event |-> e, index |-> i - 1]]
ChunksOf(es) ==
    LET n == [i \in DOMAIN es |-> Parts[es[i]]]
    IN  [k \in 1..Items(n, Len(es)) |->
            [event |-> es[EntryOf(n, k)], index |-> k - Items(n, EntryOf(n, k) - 1) - 1]]

EventsIn(fragments) == {fragments[i].event : i \in DOMAIN fragments}

\* pending_: the events with at least one fragment left to send.
Queued == UNION {EventsIn(pending[u]) : u \in User}
Carried(r) == UNION {ToSet(Remote[r][u]) : u \in User}

Bytes(events) == Weight(Parts, events)

\* The entries of a list two by two, the earlier one first.
Pairs(s) ==
    {p \in ToSet(s) \X ToSet(s) : \E i, j \in DOMAIN s : i < j /\ p = <<s[i], s[j]>>}

TypeOK ==
    /\ accepting \in BOOLEAN /\ closed \in BOOLEAN /\ stored \in BOOLEAN
    /\ busy \in Request \union {None}
    /\ verdict \in [Request -> {"new", "retry", "refused", "done"}]
    /\ pending \in [User -> Seq(Fragment)]
    /\ {pendingBytes, reserved, reservedBytes} \subseteq Nat
    /\ conn \in [User -> {"gone", "loading", "active"}]
    /\ channel \in [User -> Seq(Fragment)]
    /\ partial \in [User -> Fragment \union {None}]
    /\ inbox \in [User -> Seq(Event)]
    /\ batch \in [User -> Seq(Event)]
    /\ handled \in [User -> Seq(Event)]
    /\ accepted \in [User -> Seq(Event)]
    /\ excused \in [User -> BOOLEAN]
    /\ locally \in SUBSET Request
    /\ disturbances \in 0..MaxDisturbances

Init ==
    /\ accepting = TRUE /\ closed = FALSE /\ stored = FALSE
    /\ busy = None
    /\ verdict = [r \in Request |-> "new"]
    /\ pending = [u \in User |-> <<>>]
    /\ pendingBytes = 0 /\ reserved = 0 /\ reservedBytes = 0
    /\ conn = [u \in User |-> "active"]
    /\ channel = [u \in User |-> <<>>]
    /\ partial = [u \in User |-> None]
    /\ inbox = [u \in User |-> <<>>]
    /\ batch = [u \in User |-> <<>>]
    /\ handled = [u \in User |-> <<>>]
    /\ accepted = [u \in User |-> <<>>]
    /\ excused = [u \in User |-> FALSE]
    /\ locally = {}
    /\ disturbances = 0

-----------------------------------------------------------------------------
(* The server: submit_rewards and server_queue::push_batch *)

\* The SDK sends a request until it is accepted or refused for good.
Unanswered(r) == verdict[r] \in {"new", "retry"}

\* Room counts the queued events and what other requests have reserved.
Fits(r) ==
    /\ Cardinality(Carried(r)) <= QueueCapacity - Cardinality(Queued) - reserved
    /\ Bytes(Carried(r)) <= ByteCapacity - pendingBytes - reservedBytes

Answer(r, result) == verdict' = [verdict EXCEPT ![r] = result]

\* An invalid event refuses the whole request before anything is accepted.
Refuse(r) ==
    /\ busy = None /\ Unanswered(r) /\ r \in Invalid
    /\ Answer(r, "refused")
    /\ UNCHANGED <<clientVars, accepting, closed, busy, stored, pending,
                   pendingBytes, reserved, reservedBytes, accepted, locally,
                   excused, disturbances>>

\* The room is checked before the local events are committed.
StoredBeforeCheck(r) == locally \union ({r} \cap Local)
StoredWhenTurnedAway(r) == locally

\* Shutting down, or no room: nothing is accepted, the SDK sends it again.
TurnAway(r) ==
    /\ busy = None /\ Unanswered(r) /\ r \notin Invalid
    /\ ~accepting \/ ~Fits(r)
    /\ Answer(r, "retry")
    /\ locally' = StoredWhenTurnedAway(r)
    /\ UNCHANGED <<clientVars, accepting, closed, busy, stored, pending,
                   pendingBytes, reserved, reservedBytes, accepted,
                   excused, disturbances>>

\* pending_forward_mutex is held from here to the end of the request.
Reserve(r) ==
    /\ busy = None /\ Unanswered(r) /\ r \notin Invalid
    /\ accepting
    /\ Fits(r)
    /\ busy' = r
    /\ reserved' = reserved + Cardinality(Carried(r))
    /\ reservedBytes' = reservedBytes + Bytes(Carried(r))
    /\ UNCHANGED <<clientVars, accepting, closed, stored, verdict, pending,
                   pendingBytes, accepted, locally, excused, disturbances>>

\* submit_events: one transaction for all of the local player's events.
StoreLocal(r) ==
    /\ busy = r /\ ~stored
    /\ stored' = TRUE
    /\ locally' = IF r \in Local THEN locally \union {r} ELSE locally
    /\ UNCHANGED <<clientVars, accepting, closed, busy, verdict, pending,
                   pendingBytes, reserved, reservedBytes, accepted, excused,
                   disturbances>>

\* The explicit release zeroes the guard's share, or ~reservation would
\* release it a second time.
ReservationKept(counter, amount) == counter
ReservationReleased(counter, amount) == counter - amount

\* The economy could not be saved: ~reservation gives the room back.
StoreFails(r) ==
    /\ busy = r /\ ~stored /\ r \in Local
    /\ busy' = None
    /\ reserved' = ReservationReleased(reserved, Cardinality(Carried(r)))
    /\ reservedBytes' = ReservationReleased(reservedBytes, Bytes(Carried(r)))
    /\ Answer(r, "retry")
    /\ UNCHANGED <<clientVars, accepting, closed, stored, pending, pendingBytes,
                   accepted, locally, excused, disturbances>>

\* The reserved events become queued events; nothing here can fail.
Publish(r) ==
    /\ busy = r /\ stored
    /\ busy' = None /\ stored' = FALSE
    /\ pending' = [u \in User |-> pending[u] \o ChunksOf(Remote[r][u])]
    /\ pendingBytes' = pendingBytes + Bytes(Carried(r))
    /\ reserved' = ReservationReleased(reserved, Cardinality(Carried(r)))
    /\ reservedBytes' = ReservationReleased(reservedBytes, Bytes(Carried(r)))
    /\ accepted' = [u \in User |-> accepted[u] \o Remote[r][u]]
    /\ Answer(r, "done")
    /\ UNCHANGED <<clientVars, accepting, closed, locally, excused, disturbances>>

-----------------------------------------------------------------------------
(* The server frame: process_pending_forwards *)

\* Fragments a client may be handed in this frame.
Allowance(u) ==
    IF conn[u] = "active" /\ Len(channel[u]) < Backlog
    THEN Min({FrameParts, Backlog - Len(channel[u])})
    ELSE 0

Selected(u) == SubSeq(pending[u], 1, Min({Allowance(u), Len(pending[u])}))
UnselectedByEvent(u) ==
    SelectSeq(pending[u], LAMBDA f : f.event \notin EventsIn(Selected(u)))
Unselected(u) == SubSeq(pending[u], Len(Selected(u)) + 1, Len(pending[u]))

\* discard_where drops the events of players who left the party, then take()
\* selects and SV_SendServerCommand sends.
Frame ==
    LET left == [u \in User |-> IF conn[u] = "gone" THEN <<>> ELSE Unselected(u)]
        remaining == UNION {EventsIn(left[u]) : u \in User}
    IN  /\ left # pending
        /\ pending' = left
        /\ channel' = [u \in User |-> channel[u] \o Selected(u)]
        /\ pendingBytes' = pendingBytes - Bytes(Queued \ remaining)
        /\ UNCHANGED <<accepting, closed, busy, stored, verdict, reserved,
                       reservedBytes, accepted, locally, conn, partial, inbox,
                       batch, handled, excused, disturbances>>

\* pre_destroy: the flag first, then, under the mutex, the queue.
StopAccepting ==
    /\ accepting
    /\ accepting' = FALSE
    /\ UNCHANGED <<clientVars, closed, busy, stored, verdict, pending,
                   pendingBytes, reserved, reservedBytes, accepted, locally,
                   excused, disturbances>>

ClearAllowed == busy = None

Clear ==
    /\ ~accepting /\ ~closed
    /\ ClearAllowed
    /\ closed' = TRUE
    /\ pending' = [u \in User |-> <<>>]
    /\ pendingBytes' = 0
    /\ excused' = [u \in User |-> TRUE]
    /\ UNCHANGED <<clientVars, accepting, busy, stored, verdict, reserved,
                   reservedBytes, accepted, locally, disturbances>>

-----------------------------------------------------------------------------
(* The client: deploy_server_command_stub, receiver and process_client_events *)

\* A fragment with index 0 starts over; any other must continue the partial.
Continues(u, f) ==
    partial[u] # None /\ f.event = partial[u].event /\ f.index = partial[u].index

Deliver(u) ==
    LET f == Head(channel[u])
    IN  /\ channel[u] # <<>>
        /\ channel' = [channel EXCEPT ![u] = Tail(@)]
        \* client_events.full() is asked before the fragment is looked at
        /\ \/ /\ Len(inbox[u]) = InboxCapacity
              /\ excused' = [excused EXCEPT ![u] = TRUE]
              /\ UNCHANGED <<partial, inbox>>
           \/ /\ Len(inbox[u]) < InboxCapacity
              /\ f.index > 0 /\ ~Continues(u, f)
              /\ UNCHANGED <<partial, inbox, excused>>
           \/ /\ Len(inbox[u]) < InboxCapacity
              /\ f.index = 0 \/ Continues(u, f)
              /\ IF f.index + 1 = Parts[f.event]
                 THEN /\ inbox' = [inbox EXCEPT ![u] = Append(@, f.event)]
                      /\ partial' = [partial EXCEPT ![u] = None]
                 ELSE /\ partial' = [partial EXCEPT
                             ![u] = [event |-> f.event, index |-> f.index + 1]]
                      /\ UNCHANGED inbox
              /\ UNCHANGED excused
        /\ UNCHANGED <<serverVars, conn, batch, handled, disturbances>>

\* client_queue::take, only when the previous batch was committed.
TakeBatch(u) ==
    LET n == Min({BatchSize, Len(inbox[u])})
    IN  /\ batch[u] = <<>> /\ inbox[u] # <<>>
        /\ batch' = [batch EXCEPT ![u] = SubSeq(inbox[u], 1, n)]
        /\ inbox' = [inbox EXCEPT ![u] = SubSeq(@, n + 1, Len(@))]
        /\ UNCHANGED <<serverVars, conn, channel, partial, handled, excused,
                       disturbances>>

\* submit_relay_events drops the events it rejects from the batch and commits
\* the others in one transaction.
Applicable(events) ==
    LET n == [i \in DOMAIN events |-> IF events[i] \in Rejected THEN 0 ELSE 1]
    IN  [k \in 1..Items(n, Len(events)) |-> events[EntryOf(n, k)]]

CommitBatch(u) ==
    /\ batch[u] # <<>>
    /\ handled' = [handled EXCEPT ![u] = @ \o Applicable(batch[u])]
    /\ batch' = [batch EXCEPT ![u] = <<>>]
    /\ UNCHANGED <<serverVars, conn, channel, partial, inbox, excused, disturbances>>

\* The transaction failed: what is left of the batch stays ahead of later events.
InboxRefilled(u) == inbox[u] \o batch[u]
InboxAfterFailure(u) == inbox[u]

CommitFails(u) ==
    /\ batch[u] # <<>>
    /\ batch' = [batch EXCEPT ![u] = Applicable(@)]
    /\ inbox' = [inbox EXCEPT ![u] = InboxAfterFailure(u)]
    /\ UNCHANGED <<serverVars, conn, channel, partial, handled, excused, disturbances>>

-----------------------------------------------------------------------------
(* The connection *)

Disturb ==
    /\ disturbances < MaxDisturbances
    /\ disturbances' = disturbances + 1

\* The player leaves the party: what the reliable channel held is lost.
Disconnect(u) ==
    /\ conn[u] # "gone"
    /\ conn' = [conn EXCEPT ![u] = "gone"]
    /\ channel' = [channel EXCEPT ![u] = <<>>]
    /\ excused' = [excused EXCEPT ![u] = TRUE]
    /\ Disturb
    /\ UNCHANGED <<serverVars, partial, inbox, batch, handled>>

\* The client's process ends: its receiver and its queue are gone with it.
Restart(u) ==
    /\ conn' = [conn EXCEPT ![u] = "gone"]
    /\ channel' = [channel EXCEPT ![u] = <<>>]
    /\ partial' = [partial EXCEPT ![u] = None]
    /\ inbox' = [inbox EXCEPT ![u] = <<>>]
    /\ batch' = [batch EXCEPT ![u] = <<>>]
    /\ excused' = [excused EXCEPT ![u] = TRUE]
    /\ Disturb
    /\ UNCHANGED <<serverVars, handled>>

Reconnect(u) ==
    /\ conn[u] = "gone"
    /\ conn' = [conn EXCEPT ![u] = "loading"]
    /\ UNCHANGED <<serverVars, channel, partial, inbox, batch, handled, excused,
                   disturbances>>

\* A map change takes an active client through state 3 and 4 and back; the
\* reliable channel survives it.
ChangeMap(u) ==
    /\ conn[u] = "active"
    /\ conn' = [conn EXCEPT ![u] = "loading"]
    /\ Disturb
    /\ UNCHANGED <<serverVars, channel, partial, inbox, batch, handled, excused>>

Activate(u) ==
    /\ conn[u] = "loading"
    /\ conn' = [conn EXCEPT ![u] = "active"]
    /\ UNCHANGED <<serverVars, channel, partial, inbox, batch, handled, excused,
                   disturbances>>

ServerStep(r) ==
    \/ Refuse(r) \/ TurnAway(r) \/ Reserve(r)
    \/ StoreLocal(r) \/ StoreFails(r) \/ Publish(r)

ClientStep(u) ==
    Deliver(u) \/ TakeBatch(u) \/ CommitBatch(u) \/ CommitFails(u)

Next ==
    \/ \E r \in Request : ServerStep(r)
    \/ Frame \/ StopAccepting \/ Clear
    \/ \E u \in User :
        \/ ClientStep(u)
        \/ Disconnect(u) \/ Restart(u) \/ Reconnect(u)
        \/ ChangeMap(u) \/ Activate(u)

Spec == Init /\ [][Next]_vars

\* Server frames run, the channel delivers, a client that loads a map finishes
\* loading, and the economy file is not locked or unwritable for ever.
FairSpec ==
    /\ Spec
    /\ WF_vars(Frame)
    /\ \A r \in Request : WF_vars(StoreLocal(r)) /\ WF_vars(Publish(r))
    /\ \A u \in User :
        /\ WF_vars(Deliver(u)) /\ WF_vars(TakeBatch(u)) /\ WF_vars(CommitBatch(u))
        /\ WF_vars(Activate(u))

-----------------------------------------------------------------------------
(* Properties *)

\* The subtractions from the capacities never go below zero, and the byte count
\* is that of the queued events: reservations, partly sent events, discarded
\* players and the shutdown included.
RoomIsAccounted ==
    /\ Cardinality(Queued) + reserved <= QueueCapacity
    /\ pendingBytes + reservedBytes <= ByteCapacity
    /\ pendingBytes = Bytes(Queued)
    /\ busy = None => reserved = 0 /\ reservedBytes = 0
    /\ closed => Queued = {}

\* "The batch is accepted whole": a request that is to be sent again has left
\* nothing behind, neither queued for a player nor in the local store.
AllOrNothing ==
    \A r \in Request : Unanswered(r) /\ busy # r =>
        /\ r \notin locally
        /\ \A u \in User : ToSet(Remote[r][u]) \cap ToSet(accepted[u]) = {}

\* What reached the client whole, and what its receiver has of the next event.
Arrived(u) == handled[u] \o batch[u] \o inbox[u]
Joined(u) ==
    IF partial[u] = None THEN <<>>
    ELSE SubSeq(Chunks(partial[u].event), 1, partial[u].index)

\* Whatever is lost, only accepted events reach a player's economy, each at most
\* once and in the order the server accepted them, across disconnects, full
\* queues and fragments that arrive without the beginning of their event.
InOrderOnce ==
    \A u \in User :
        /\ ToSet(Arrived(u)) \subseteq ToSet(accepted[u])
        /\ Pairs(Arrived(u)) \subseteq Pairs(accepted[u])
        /\ \A e \in Event : <<e, e>> \notin Pairs(Arrived(u))

\* As long as the player stays connected, the client's queue has room and the
\* server runs, every fragment of every accepted event the economy wants is in
\* exactly one place and in order: committed, queued, joined, sent or waiting.
NothingLostWithoutCause ==
    \A u \in User : ~excused[u] =>
        LET sent == ChunksOf(accepted[u])
            known == ChunksOf(Arrived(u)) \o Joined(u) \o channel[u] \o pending[u]
        IN  /\ \A f \in ToSet(sent) : f.event \notin Rejected => f \in ToSet(known)
            /\ ToSet(known) \subseteq ToSet(sent)
            /\ Pairs(known) \subseteq Pairs(sent)
            /\ \A f \in ToSet(known) : <<f, f>> \notin Pairs(known)

\* An accepted event is dealt with by its player's economy unless one of the
\* known causes of loss occurs.
EventuallyHandled ==
    \A u \in User : \A e \in Event \ Rejected :
        e \in ToSet(accepted[u]) ~> (e \in ToSet(handled[u]) \/ excused[u])

=============================================================================
