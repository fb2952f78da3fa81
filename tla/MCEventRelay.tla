---------------------------- MODULE MCEventRelay ----------------------------
(* Two players, three requests: one with local events and events of both     *)
(* players, one with a single event, one that is invalid.                    *)
EXTENDS EventRelay, TLC

CONSTANTS u1, u2, e1, e2, e3, e4, r1, r2, r3

MCParts == (e1 :> 2) @@ (e2 :> 2) @@ (e3 :> 1) @@ (e4 :> 2)
MCRemote ==
    (r1 :> ((u1 :> <<e1, e3>>) @@ (u2 :> <<e2>>))) @@
    (r2 :> ((u1 :> <<e4>>) @@ (u2 :> <<>>))) @@
    (r3 :> ((u1 :> <<>>) @@ (u2 :> <<>>)))

\* What the lists built by counting items are, for every list of up to four events.
ASSUME ListsAreAsMeant ==
    \A es \in UNION {[1..k -> Event] : k \in 0..4} :
        /\ ChunksOf(es) = FlattenSeq([i \in DOMAIN es |-> Chunks(es[i])])
        /\ Applicable(es) = SelectSeq(es, LAMBDA e : e \notin Rejected)
=============================================================================
