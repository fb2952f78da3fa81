------------------------- MODULE ServerManagerProofs -------------------------
(***************************************************************************)
(* Proofs about the administration of servers: about the pipe of a server  *)
(* (ServerAdmin), for any number of requests, slots and connections and    *)
(* any limits, and about the Server Manager (Fleet), for any number of     *)
(* ports, process ids, clicks and launches.                                *)
(***************************************************************************)
EXTENDS ServerAdmin, Fleet, Integers, FiniteSetTheorems, SequenceTheorems, WellFoundedInduction, TLAPS

-----------------------------------------------------------------------------
(* The administration pipe: the inductive invariant *)

Codes == {"ok", "busy", "refused", "internal_error", "expired", "result_unknown"}
Replies == [code : Codes, roster : Nat]
\* What a callback may report.
Reports == [code : {"ok", "refused", "internal_error"}, roster : Nat]
Item == [id : Id, target : {None} \union (Nat \X Slot), late : BOOLEAN,
         state : {"pending", "cancelled", "running", "complete"}, reply : Reports \union {None}]

Typed ==
    /\ work \in Seq(Item)
    /\ completed \in Seq([id : Id, reply : Replies])
    /\ answers \subseteq [dispatch : DOMAIN work, code : Codes, roster : Nat, waiting : Nat]
    /\ done \subseteq DOMAIN work
    /\ DOMAIN listed \subseteq Nat \X Slot

Calls(n) == Operation[work[n].id] # "hello"
Untouched(n) == work[n].reply = None /\ n \notin done
Runs(n) == frame # None /\ frame.dispatch = n

\* A scheduled callback has not acted, and no other callback stands for its dispatch.
ScheduledFits ==
    /\ IsFiniteSet(scheduled) /\ queued = Cardinality(scheduled)
    /\ \A n \in scheduled : /\ n \in DOMAIN work /\ Calls(n) /\ ~Runs(n) /\ Untouched(n)
                            /\ work[n].state \in {"pending", "cancelled"}

\* Nor has the one that runs, until it reports.
RunningFits ==
    frame # None =>
        LET n == frame.dispatch
        IN  /\ frame \in [dispatch : DOMAIN work, stage : {"checked", "running", "reported"}]
            /\ Calls(n)
            /\ frame.stage = "checked" => work[n].state \in {"pending", "cancelled"}
            /\ frame.stage # "checked" => work[n].state = "running"
            /\ frame.stage # "reported" => Untouched(n)

\* A cancelled one never will, and a reply says what was done.
ItemsFit ==
    \A n \in DOMAIN work :
        /\ work[n].state = "cancelled" => Untouched(n) /\ Calls(n)
        /\ work[n].reply # None => (work[n].reply.code = "ok" <=> n \in done)

ServingFits ==
    serving # None => /\ serving = Len(work) /\ serving \in DOMAIN work /\ Calls(serving)
                      /\ work[serving].state = "pending" => Untouched(serving)

\* A dispatch whose callback has reported, or will not come.
Over(n) == n \in DOMAIN work /\ n \notin scheduled /\ (Runs(n) => frame.stage = "reported")

AnswersFit ==
    \A a \in answers :
        /\ a.code = "ok" => a.dispatch \in done
        /\ a.code = "expired" => work[a.dispatch].state = "cancelled"
        /\ a.code = "refused" => work[a.dispatch].reply # None /\ work[a.dispatch].reply.code = "refused"
        /\ a.code = "busy" => Over(a.dispatch) /\ a.dispatch \notin done /\ a.waiting >= QueueCapacity

\* The dispatches answered so far, and those whose answers are remembered.
Answered == Len(work) - IF serving = None THEN 0 ELSE 1
RemembersLast ==
    /\ Len(completed) = IF Answered < Remembered THEN Answered ELSE Remembered
    /\ \A i \in 1..Len(completed) : completed[i].id = work[Answered - Len(completed) + i].id

\* An id comes again only when its answer is forgotten.
Spaced == \A m, n \in DOMAIN work : m < n /\ work[m].id = work[n].id => n - m > Remembered

\* A token stands for the connection its roster was made with.
TokensFit ==
    /\ \A t \in DOMAIN listed : Over(t[1])
    /\ \A i \in identities : {"token", "conn"} \subseteq DOMAIN i /\ Over(i.token[1]) /\ (i.token \in DOMAIN listed => listed[i.token] = i.conn)
    /\ \A n \in DOMAIN work : Operation[work[n].id] = "kick" => work[n].target \in DOMAIN listed
    /\ \A k \in kicked : k[1] \in DOMAIN listed /\ listed[k[1]] = k[2] /\ k[2] \notin Protected

IInv == /\ Typed /\ ScheduledFits /\ RunningFits /\ ItemsFit /\ ServingFits /\ AnswersFit
        /\ RemembersLast /\ Spaced /\ TokensFit

-----------------------------------------------------------------------------
(* What a step keeps *)

LEMMA Properties == IInv => AnswerIsTrue /\ ActsOncePerId /\ KickedAsListed
<1> SUFFICES ASSUME IInv PROVE AnswerIsTrue /\ ActsOncePerId /\ KickedAsListed
  OBVIOUS
<1>1. AnswerIsTrue
  BY DEF IInv, Typed, AnswersFit, ItemsFit, Untouched, AnswerIsTrue
<1>2. ActsOncePerId
  BY DEF IInv, Typed, Spaced, ActsOncePerId
<1>3. KickedAsListed
  BY DEF IInv, TokensFit, KickedAsListed
<1> QED BY <1>1, <1>2, <1>3

\* A step that answers nothing, dispatches nothing and drops no player.
LEMMA QuietStep ==
  ASSUME IInv,
         work' \in Seq(Item), Len(work') = Len(work),
         \A n \in DOMAIN work :
            /\ work'[n].id = work[n].id /\ work'[n].target = work[n].target
            /\ work'[n].reply = work[n].reply
            /\ work[n].state = "cancelled" => work'[n].state = "cancelled"
            /\ work'[n].state = "pending" => work[n].state = "pending"
            /\ work'[n].state = "cancelled" => Untouched(n) /\ Calls(n),
         ScheduledFits', RunningFits',
         \A n \in DOMAIN work : Over(n) => Over(n)',
         \A i \in identities' : \E k \in identities : i.token = k.token /\ i.conn = k.conn /\ DOMAIN i = DOMAIN k,
         UNCHANGED <<completed, serving, listed, answers, done, kicked>>
  PROVE  IInv'
<1>1. DOMAIN work' = DOMAIN work
  BY DEF IInv, Typed
<1>2. Typed'
  BY <1>1 DEF IInv, Typed
<1>3. \A n \in DOMAIN work : Calls(n)' = Calls(n) /\ Untouched(n)' = Untouched(n)
  BY DEF Calls, Untouched
<1>4. ItemsFit'
  BY <1>1, <1>3 DEF IInv, ItemsFit
<1>5. ServingFits'
  BY <1>1, <1>3 DEF IInv, ServingFits
<1>6. AnswersFit'
  <2>1. \A a \in answers : a.dispatch \in DOMAIN work
    BY DEF IInv, Typed
  <2> QED BY <2>1 DEF IInv, AnswersFit
<1>7. Answered' = Answered
  BY DEF Answered
<1>8. RemembersLast'
  <2>1. \A i \in 1..Len(completed) : Answered - Len(completed) + i \in DOMAIN work
    BY DEF IInv, Typed, RemembersLast, ServingFits, Answered
  <2> QED BY <1>7, <2>1 DEF IInv, RemembersLast
<1>9. Spaced'
  BY <1>1 DEF IInv, Spaced
<1>10. TokensFit'
  BY <1>1 DEF IInv, TokensFit, Over
<1> QED BY <1>2, <1>4, <1>5, <1>6, <1>8, <1>9, <1>10 DEF IInv

-----------------------------------------------------------------------------
(* The steps of a work item *)

LEMMA ItemMoves ==
  ASSUME Typed, NEW n \in DOMAIN work, NEW st \in {"pending", "cancelled", "running", "complete"},
         work' = [work EXCEPT ![n].state = st]
  PROVE  /\ work' \in Seq(Item) /\ Len(work') = Len(work) /\ DOMAIN work' = DOMAIN work
         /\ \A k \in DOMAIN work : /\ work'[k].id = work[k].id /\ work'[k].target = work[k].target
                                   /\ work'[k].reply = work[k].reply
                                   /\ work'[k].state = IF k = n THEN st ELSE work[k].state
<1>1. work \in Seq(Item) /\ work[n] \in Item
  BY DEF Typed
<1>2. PICK w : w = [work[n] EXCEPT !.state = st]
  OBVIOUS
<1>3. w \in Item /\ w.id = work[n].id /\ w.target = work[n].target /\ w.reply = work[n].reply /\ w.state = st
  BY <1>1, <1>2 DEF Item
<1>4. work' = [work EXCEPT ![n] = w]
  BY <1>2
<1> QED BY <1>1, <1>3, <1>4

\* The frames' tasks and the one that runs keep their facts when another item moves.
LEMMA CancelKeeps ==
  ASSUME IInv, NEW n \in DOMAIN work, work' = Cancelled(n), Calls(n),
         work[n].state = "pending" => Untouched(n),
         NEW sch \in SUBSET scheduled, scheduled' = sch, queued' = Cardinality(sch), IsFiniteSet(sch),
         frame' = frame, identities' = identities,
         UNCHANGED <<completed, serving, listed, answers, done, kicked>>
  PROVE  IInv'
<1> DEFINE Kept(k) == /\ work'[k].id = work[k].id /\ work'[k].target = work[k].target
                      /\ work'[k].reply = work[k].reply
                      /\ work'[k].state \in {work[k].state} \union
                             (IF k = n /\ work[n].state = "pending" THEN {"cancelled"} ELSE {})
<1>1. work' \in Seq(Item) /\ Len(work') = Len(work) /\ DOMAIN work' = DOMAIN work /\ \A k \in DOMAIN work : Kept(k)
  <2>1. CASE work[n].state = "pending"
    <3>1. Typed /\ work' = [work EXCEPT ![n].state = "cancelled"]
      BY <2>1 DEF IInv, Cancelled
    <3>2. /\ work' \in Seq(Item) /\ Len(work') = Len(work) /\ DOMAIN work' = DOMAIN work
          /\ \A k \in DOMAIN work : /\ work'[k].id = work[k].id /\ work'[k].target = work[k].target
                                    /\ work'[k].reply = work[k].reply
                                    /\ work'[k].state = IF k = n THEN "cancelled" ELSE work[k].state
      BY ONLY <3>1, n \in DOMAIN work, ItemMoves
    <3> QED BY <2>1, <3>2
  <2>2. CASE work[n].state # "pending"
    BY <2>2 DEF IInv, Typed, Cancelled
  <2> QED BY <2>1, <2>2
<1>2. \A k \in DOMAIN work : Calls(k)' = Calls(k) /\ Untouched(k)' = Untouched(k) /\ Runs(k)' = Runs(k)
  BY <1>1 DEF Calls, Untouched, Runs
<1>3. ScheduledFits'
  BY <1>1, <1>2 DEF IInv, ScheduledFits
<1>4. RunningFits'
  <2> SUFFICES ASSUME frame # None PROVE RunningFits'
    BY DEF RunningFits
  <2>1. PICK k \in DOMAIN work : k = frame.dispatch
    BY DEF IInv, RunningFits
  <2>2. Kept(k) /\ Calls(k)' = Calls(k) /\ Untouched(k)' = Untouched(k)
    BY <1>1, <1>2
  <2> QED BY <1>1, <2>1, <2>2 DEF IInv, RunningFits
<1>5. \A k \in DOMAIN work : Over(k) => Over(k)'
  BY <1>1 DEF Over, Runs
<1>6. \A k \in DOMAIN work : /\ work[k].state = "cancelled" => work'[k].state = "cancelled"
                             /\ work'[k].state = "pending" => work[k].state = "pending"
                             /\ work'[k].state = "cancelled" => Untouched(k) /\ Calls(k)
  BY <1>1 DEF IInv, ItemsFit
<1> QED BY <1>1, <1>3, <1>4, <1>5, <1>6, QuietStep

LEMMA GiveUpKeeps == ASSUME IInv, GiveUp PROVE IInv'
<1>1. serving \in DOMAIN work /\ Calls(serving) /\ (work[serving].state = "pending" => Untouched(serving))
  BY DEF GiveUp, IInv, ServingFits
<1>2. queued' = Cardinality(scheduled) /\ IsFiniteSet(scheduled)
  BY DEF GiveUp, IInv, ScheduledFits
<1> QED BY <1>1, <1>2, CancelKeeps DEF GiveUp, registry, history

LEMMA DeadlineKeeps == ASSUME IInv, DeadlinePasses PROVE IInv'
<1>1. PICK n \in DOMAIN work : work' = [work EXCEPT ![n].late = TRUE]
  BY DEF DeadlinePasses
<1>2. work \in Seq(Item) /\ work[n] \in Item
  BY DEF IInv, Typed
<1>3. PICK w : w = [work[n] EXCEPT !.late = TRUE]
  OBVIOUS
<1>4. w \in Item /\ w.id = work[n].id /\ w.target = work[n].target /\ w.reply = work[n].reply /\ w.state = work[n].state
  BY <1>2, <1>3 DEF Item
<1>5. work' = [work EXCEPT ![n] = w]
  BY <1>1, <1>3
<1>6. /\ work' \in Seq(Item) /\ Len(work') = Len(work) /\ DOMAIN work' = DOMAIN work
      /\ \A k \in DOMAIN work : /\ work'[k].id = work[k].id /\ work'[k].target = work[k].target
                                /\ work'[k].reply = work[k].reply /\ work'[k].state = work[k].state
  BY <1>2, <1>4, <1>5
<1>7. UNCHANGED <<worker, scheduled, queued, frame, registry, history>>
  BY DEF DeadlinePasses
<1>8. \A k \in DOMAIN work : /\ Calls(k)' = Calls(k) /\ Untouched(k)' = Untouched(k) /\ Runs(k)' = Runs(k)
                             /\ Over(k)' = Over(k)
  BY <1>6, <1>7 DEF Calls, Untouched, Runs, Over, history
<1>9. ScheduledFits'
  BY <1>6, <1>7, <1>8 DEF IInv, ScheduledFits
<1>10. RunningFits'
  <2> SUFFICES ASSUME frame # None PROVE RunningFits'
    BY <1>7 DEF RunningFits
  <2>1. PICK k \in DOMAIN work : k = frame.dispatch
    BY DEF IInv, RunningFits
  <2>2. Calls(k)' = Calls(k) /\ Untouched(k)' = Untouched(k)
    BY <1>8
  <2> QED BY <1>6, <1>7, <2>1, <2>2 DEF IInv, RunningFits
<1>11. \A k \in DOMAIN work : work'[k].state = "cancelled" => Untouched(k) /\ Calls(k)
  BY <1>6 DEF IInv, ItemsFit
<1> QED BY <1>6, <1>7, <1>8, <1>9, <1>10, <1>11, QuietStep DEF worker, registry, history

\* Steps of the engine between callbacks.
LEMMA EngineStep ==
  ASSUME IInv, UNCHANGED <<completed, serving, work, scheduled, queued, frame, listed, answers, done, kicked>>,
         \A i \in identities' : \E k \in identities : i.token = k.token /\ i.conn = k.conn /\ DOMAIN i = DOMAIN k
  PROVE  IInv'
<1>1. ScheduledFits' /\ RunningFits'
  BY DEF IInv, ScheduledFits, RunningFits, Calls, Untouched, Runs
<1>2. \A k \in DOMAIN work : Over(k) => Over(k)'
  BY DEF Over, Runs
<1>3. work' \in Seq(Item) /\ \A k \in DOMAIN work : work[k].state = "cancelled" => Untouched(k) /\ Calls(k)
  BY DEF IInv, Typed, ItemsFit
<1> QED BY <1>1, <1>2, <1>3, QuietStep

LEMMA StartCallbackKeeps == ASSUME IInv, NEW n \in scheduled, StartCallback(n) PROVE IInv'
<1>1. /\ n \in DOMAIN work /\ Calls(n) /\ ~Runs(n) /\ Untouched(n) /\ work[n].state \in {"pending", "cancelled"}
      /\ IsFiniteSet(scheduled) /\ queued = Cardinality(scheduled)
  BY DEF IInv, ScheduledFits
<1>2. PICK sch \in SUBSET scheduled : sch = scheduled \ {n}
  OBVIOUS
<1>3. scheduled' = sch /\ queued' = Cardinality(sch) /\ IsFiniteSet(sch) /\ n \notin sch
  BY <1>1, <1>2, FS_RemoveElement, FS_CardinalityType DEF StartCallback
<1>4. UNCHANGED <<completed, serving, identities, listed, answers, done, kicked>>
  BY DEF StartCallback, worker, registry, history
<1>5. CASE work' = Cancelled(n) /\ frame' = frame
  BY <1>1, <1>3, <1>4, <1>5, CancelKeeps
<1>6. CASE UNCHANGED work /\ frame' \in {frame, [dispatch |-> n, stage |-> "checked"]}
  <2>1. frame = None
    BY DEF StartCallback
  <2>2. frame' # None => /\ frame'.dispatch = n /\ frame'.stage = "checked"
                         /\ frame' \in [dispatch : DOMAIN work, stage : {"checked", "running", "reported"}]
    BY <1>1, <1>6, <2>1
  <2>3. ScheduledFits'
    BY <1>1, <1>2, <1>3, <1>4, <1>6, <2>2 DEF IInv, ScheduledFits, Calls, Untouched, Runs
  <2>4. RunningFits'
    BY <1>1, <1>4, <1>6, <2>2 DEF RunningFits, Calls, Untouched
  <2>5. \A k \in DOMAIN work : Over(k) => Over(k)'
    BY <1>2, <1>3, <1>6, <2>2 DEF Over, Runs
  <2>6. work' \in Seq(Item) /\ \A k \in DOMAIN work : work[k].state = "cancelled" => Untouched(k) /\ Calls(k)
    BY <1>6 DEF IInv, Typed, ItemsFit
  <2> QED BY <1>4, <1>6, <2>3, <2>4, <2>5, <2>6, QuietStep
<1> QED BY <1>5, <1>6 DEF StartCallback

LEMMA BeginWorkKeeps == ASSUME IInv, BeginWork PROVE IInv'
<1>1. PICK n \in DOMAIN work : n = frame.dispatch
  BY DEF BeginWork, IInv, RunningFits
<1>2. /\ frame # None /\ frame \in [dispatch : DOMAIN work, stage : {"checked", "running", "reported"}]
      /\ frame.stage = "checked" /\ Calls(n) /\ Untouched(n) /\ work[n].state \in {"pending", "cancelled"}
  BY <1>1 DEF BeginWork, IInv, RunningFits
<1>3. UNCHANGED <<completed, serving, scheduled, queued, identities, listed, answers, done, kicked>>
  BY DEF BeginWork, worker, registry, history
<1>4. n \notin scheduled
  BY <1>1, <1>2 DEF IInv, ScheduledFits, Runs
<1>5. CASE Begins(n)
  <2>1. Typed /\ work' = [work EXCEPT ![n].state = "running"]
    BY <1>1, <1>5 DEF BeginWork, IInv
  <2>2. /\ work' \in Seq(Item) /\ Len(work') = Len(work) /\ DOMAIN work' = DOMAIN work
        /\ \A k \in DOMAIN work : /\ work'[k].id = work[k].id /\ work'[k].target = work[k].target
                                  /\ work'[k].reply = work[k].reply
                                  /\ work'[k].state = IF k = n THEN "running" ELSE work[k].state
    BY ONLY <2>1, n \in DOMAIN work, ItemMoves
  <2>3. frame' = [frame EXCEPT !.stage = "running"]
    BY <1>1, <1>5 DEF BeginWork
  <2>4. /\ frame' \in [dispatch : DOMAIN work, stage : {"checked", "running", "reported"}]
        /\ frame'.dispatch = n /\ frame'.stage = "running"
    BY <1>1, <1>2, <2>3
  <2>5. \A k \in DOMAIN work : /\ Calls(k)' = Calls(k) /\ Untouched(k)' = Untouched(k)
                               /\ Over(k) => Over(k)'
    BY <1>1, <1>2, <1>3, <2>2, <2>4 DEF Calls, Untouched, Over, Runs
  <2>6. ScheduledFits'
    BY <1>3, <1>4, <2>2, <2>4, <2>5 DEF IInv, ScheduledFits, Runs
  <2>7. RunningFits'
    BY <1>2, <2>2, <2>4, <2>5 DEF RunningFits
  <2>8. \A k \in DOMAIN work : work[k].state = "cancelled" => Untouched(k) /\ Calls(k)
    BY DEF IInv, ItemsFit
  <2>9. work[n].state = "pending"
    BY <1>5 DEF Begins
  <2> QED BY <1>3, <2>2, <2>5, <2>6, <2>7, <2>8, <2>9, QuietStep
<1>6. CASE ~Begins(n)
  <2>1. frame' = None /\ UNCHANGED work
    BY <1>1, <1>6 DEF BeginWork
  <2>2. ScheduledFits' /\ RunningFits'
    BY <1>3, <2>1 DEF IInv, ScheduledFits, RunningFits, Calls, Untouched, Runs
  <2>3. \A k \in DOMAIN work : Over(k) => Over(k)'
    BY <1>3, <2>1 DEF Over, Runs
  <2>4. work' \in Seq(Item) /\ \A k \in DOMAIN work : work[k].state = "cancelled" => Untouched(k) /\ Calls(k)
    BY <2>1 DEF IInv, Typed, ItemsFit
  <2> QED BY <1>3, <2>1, <2>2, <2>3, <2>4, QuietStep
<1> QED BY <1>5, <1>6

LEMMA CompleteKeeps == ASSUME IInv, Complete PROVE IInv'
<1>1. PICK n \in DOMAIN work : n = frame.dispatch
  BY DEF Complete, IInv, RunningFits
<1>2. work[n].state = "running"
  BY <1>1 DEF Complete, IInv, RunningFits
<1>3. UNCHANGED <<completed, serving, scheduled, queued, identities, listed, answers, done, kicked>> /\ frame' = None
  BY DEF Complete, worker, registry, history
<1>4. Typed /\ work' = [work EXCEPT ![n].state = "complete"]
  BY <1>1 DEF Complete, IInv
<1>5. /\ work' \in Seq(Item) /\ Len(work') = Len(work) /\ DOMAIN work' = DOMAIN work
      /\ \A k \in DOMAIN work : /\ work'[k].id = work[k].id /\ work'[k].target = work[k].target
                                /\ work'[k].reply = work[k].reply
                                /\ work'[k].state = IF k = n THEN "complete" ELSE work[k].state
  BY ONLY <1>4, n \in DOMAIN work, ItemMoves
<1>6. \A k \in DOMAIN work : Calls(k)' = Calls(k) /\ Untouched(k)' = Untouched(k) /\ (Over(k) => Over(k)')
  BY <1>3, <1>5 DEF Calls, Untouched, Over, Runs
<1>7. ScheduledFits'
  BY <1>2, <1>3, <1>5, <1>6 DEF IInv, ScheduledFits, Runs
<1>8. RunningFits'
  BY <1>3 DEF RunningFits
<1>9. \A k \in DOMAIN work : work[k].state = "cancelled" => Untouched(k) /\ Calls(k)
  BY DEF IInv, ItemsFit
<1> QED BY <1>2, <1>3, <1>5, <1>6, <1>7, <1>8, <1>9, QuietStep

-----------------------------------------------------------------------------
(* The callback acts and reports *)

LEMMA ReportStep ==
  ASSUME IInv, frame # None, frame.stage = "running", NEW reply \in Reports, Report(reply),
         done' = IF reply.code = "ok" THEN done \union {frame.dispatch} ELSE done
  PROVE  /\ frame.dispatch \in DOMAIN work /\ ~Over(frame.dispatch)
         /\ \A k \in DOMAIN work : k = frame.dispatch => Over(k)'
         /\ DOMAIN work' = DOMAIN work
         /\ \A k \in DOMAIN work : /\ Over(k) => Over(k)'
                                   /\ work'[k].id = work[k].id /\ work'[k].target = work[k].target
         /\ TokensFit' /\ DOMAIN listed' \subseteq Nat \X Slot => IInv'
<1>1. PICK n \in DOMAIN work : n = frame.dispatch
  BY DEF IInv, RunningFits
<1>2. /\ frame \in [dispatch : DOMAIN work, stage : {"checked", "running", "reported"}]
      /\ Calls(n) /\ Untouched(n) /\ work[n].state = "running"
  BY <1>1 DEF IInv, RunningFits
<1>3. /\ UNCHANGED <<completed, serving, scheduled, queued, answers>>
      /\ done' = IF reply.code = "ok" THEN done \union {n} ELSE done
  BY <1>1 DEF Report, worker
<1>4. n \notin scheduled
  BY <1>1 DEF IInv, ScheduledFits, Runs
<1>5. work \in Seq(Item) /\ work[n] \in Item
  BY DEF IInv, Typed
<1>6. PICK w : w = [work[n] EXCEPT !.reply = reply]
  OBVIOUS
<1>7. w \in Item /\ w.id = work[n].id /\ w.target = work[n].target /\ w.state = work[n].state /\ w.reply = reply
  BY <1>5, <1>6 DEF Item
<1>8. work' = [work EXCEPT ![n] = w]
  BY <1>1, <1>6 DEF Report
<1>9. /\ work' \in Seq(Item) /\ Len(work') = Len(work) /\ DOMAIN work' = DOMAIN work
      /\ \A k \in DOMAIN work : /\ work'[k].id = work[k].id /\ work'[k].target = work[k].target
                                /\ work'[k].state = work[k].state
                                /\ work'[k].reply = IF k = n THEN reply ELSE work[k].reply
  BY <1>5, <1>7, <1>8
<1>10. /\ frame' \in [dispatch : DOMAIN work, stage : {"checked", "running", "reported"}]
       /\ frame'.dispatch = n /\ frame'.stage = "reported"
  BY <1>1, <1>2 DEF Report
<1>11. \A k \in DOMAIN work : Calls(k)' = Calls(k) /\ (k # n => Untouched(k)' = Untouched(k)) /\ (Over(k) => Over(k)')
  BY <1>3, <1>4, <1>9, <1>10 DEF Calls, Untouched, Over, Runs
<1>12. Over(n)' /\ ~Over(n)
  BY <1>1, <1>3, <1>4, <1>9, <1>10 DEF Over, Runs
<1>13. ScheduledFits'
  BY <1>3, <1>4, <1>9, <1>10, <1>11 DEF IInv, ScheduledFits, Runs
<1>14. RunningFits'
  BY <1>2, <1>9, <1>10, <1>11 DEF RunningFits
<1>15. ItemsFit'
  <2> SUFFICES ASSUME NEW k \in DOMAIN work
               PROVE  /\ work'[k].state = "cancelled" => Untouched(k)' /\ Calls(k)'
                      /\ work'[k].reply # None => (work'[k].reply.code = "ok" <=> k \in done')
    BY <1>9 DEF ItemsFit
  <2>1. CASE k = n
    BY <1>2, <1>3, <1>9, <2>1 DEF Untouched
  <2>2. CASE k # n
    <3>1. k \in done' <=> k \in done
      BY <1>3, <2>2
    <3>2. work'[k].reply = work[k].reply /\ work'[k].state = work[k].state
      BY <1>9, <2>2
    <3> QED BY <1>11, <2>2, <3>1, <3>2 DEF IInv, ItemsFit
  <2> QED BY <2>1, <2>2
<1>16. ServingFits'
  BY <1>2, <1>3, <1>9, <1>11 DEF IInv, ServingFits
<1>17. AnswersFit'
  <2> SUFFICES ASSUME NEW a \in answers
               PROVE  /\ a.code = "ok" => a.dispatch \in done'
                      /\ a.code = "expired" => work'[a.dispatch].state = "cancelled"
                      /\ a.code = "refused" => work'[a.dispatch].reply # None /\ work'[a.dispatch].reply.code = "refused"
                      /\ a.code = "busy" => Over(a.dispatch)' /\ a.dispatch \notin done' /\ a.waiting >= QueueCapacity
    BY <1>3 DEF AnswersFit
  <2>1. a.dispatch \in DOMAIN work
    BY DEF IInv, Typed
  <2>2. CASE a.dispatch = n
    BY <1>2, <1>9, <1>12, <2>2 DEF IInv, AnswersFit, Untouched
  <2>3. CASE a.dispatch # n
    BY <1>3, <1>9, <1>11, <2>1, <2>3 DEF IInv, AnswersFit
  <2> QED BY <2>2, <2>3
<1>18. RemembersLast'
  <2>1. \A i \in 1..Len(completed) : Answered - Len(completed) + i \in DOMAIN work
    BY DEF IInv, Typed, RemembersLast, ServingFits, Answered
  <2>2. Answered' = Answered
    BY <1>3, <1>9 DEF Answered
  <2> QED BY <1>3, <1>9, <2>1, <2>2 DEF IInv, RemembersLast
<1>19. Spaced'
  BY <1>9 DEF IInv, Spaced
<1>20. DOMAIN listed' \subseteq Nat \X Slot => Typed'
  BY <1>3, <1>9 DEF IInv, Typed
<1>21. TokensFit' /\ DOMAIN listed' \subseteq Nat \X Slot => IInv'
  BY <1>13, <1>14, <1>15, <1>16, <1>17, <1>18, <1>19, <1>20 DEF IInv
<1>22. frame.dispatch \in DOMAIN work /\ ~Over(frame.dispatch) /\ \A k \in DOMAIN work : k = frame.dispatch => Over(k)'
  BY <1>1, <1>12
<1> QED BY <1>9, <1>11, <1>21, <1>22

\* A report that touches no token and drops no player.
LEMMA PlainReport ==
  ASSUME IInv, frame # None, frame.stage = "running", NEW reply \in Reports, Report(reply),
         done' = IF reply.code = "ok" THEN done \union {frame.dispatch} ELSE done,
         UNCHANGED <<identities, listed, kicked>>
  PROVE  IInv'
<1>1. /\ DOMAIN work' = DOMAIN work
      /\ \A k \in DOMAIN work : /\ Over(k) => Over(k)'
                                /\ work'[k].id = work[k].id /\ work'[k].target = work[k].target
      /\ TokensFit' /\ DOMAIN listed' \subseteq Nat \X Slot => IInv'
  BY ReportStep
<1>2. TokensFit'
  BY <1>1 DEF IInv, TokensFit, Over
<1> QED BY <1>1, <1>2 DEF IInv, Typed

LEMMA CodesReply == \A code \in {"ok", "refused", "internal_error"} : Reply(code) \in Reports /\ Reply(code).code = code
BY DEF Reply, Reports

LEMMA KickKeeps == ASSUME IInv, Kick PROVE IInv'
<1>1. frame # None /\ frame.stage = "running" /\ Operation[work[frame.dispatch].id] = "kick"
  BY DEF Kick, Executing
<1>2. PICK i \in Target(frame.dispatch) :
          /\ identities' = identities \ {i}
          /\ kicked' = kicked \union {<<i.token, client[i.slot]>>}
          /\ done' = done \union {frame.dispatch}
  BY DEF Kick
<1>3. Report(Reply("ok")) /\ Reply("ok") \in Reports /\ Reply("ok").code = "ok" /\ listed' = listed
  BY CodesReply DEF Kick
<1>4. /\ frame.dispatch \in DOMAIN work /\ DOMAIN work' = DOMAIN work
      /\ \A k \in DOMAIN work : /\ Over(k) => Over(k)'
                                /\ work'[k].id = work[k].id /\ work'[k].target = work[k].target
      /\ TokensFit' /\ DOMAIN listed' \subseteq Nat \X Slot => IInv'
  BY <1>1, <1>2, <1>3, ReportStep
<1>5. /\ i \in identities /\ i.token = work[frame.dispatch].target /\ i.conn = client[i.slot]
      /\ client[i.slot] \notin Protected
  BY DEF Target, Matches
<1>6. i.token \in DOMAIN listed /\ listed[i.token] = client[i.slot]
  BY <1>1, <1>4, <1>5 DEF IInv, TokensFit
<1>7. \A k \in kicked' : k[1] \in DOMAIN listed /\ listed[k[1]] = k[2] /\ k[2] \notin Protected
  BY <1>2, <1>5, <1>6 DEF IInv, TokensFit
<1>8. TokensFit'
  BY <1>2, <1>3, <1>4, <1>7 DEF IInv, TokensFit, Over
<1> QED BY <1>3, <1>4, <1>8 DEF IInv, Typed

LEMMA NewIdentityFields == ASSUME NEW s PROVE {"token", "conn"} \subseteq DOMAIN NewIdentity(s)
BY DEF NewIdentity

LEMMA ListPlayersKeeps == ASSUME IInv, ListPlayers PROVE IInv'
<1>1. frame # None /\ frame.stage = "running" /\ kicked' = kicked
  BY DEF ListPlayers, Executing
<1>2. PICK d \in DOMAIN work : d = frame.dispatch
  BY <1>1 DEF IInv, RunningFits
<1>3. CASE /\ identities' = {NewIdentity(s) : s \in Connected}
           /\ listed' = [t \in DOMAIN listed \union {<<frame.dispatch, s>> : s \in Connected} |->
                           IF t \in DOMAIN listed THEN listed[t] ELSE client[t[2]]]
           /\ done' = done \union {frame.dispatch}
           /\ Report([code |-> "ok", roster |-> frame.dispatch])
  <2>1. PICK reply \in Reports : reply.code = "ok" /\ Report(reply)
    <3>1. [code |-> "ok", roster |-> d] \in Reports
      BY DEF Reports, IInv, Typed
    <3> QED BY <1>2, <1>3, <3>1
  <2>2. /\ d \in DOMAIN work /\ ~Over(d) /\ DOMAIN work' = DOMAIN work
        /\ \A k \in DOMAIN work : /\ Over(k) => Over(k)'
                                  /\ work'[k].id = work[k].id /\ work'[k].target = work[k].target
        /\ TokensFit' /\ DOMAIN listed' \subseteq Nat \X Slot => IInv'
    BY <1>1, <1>2, <1>3, <2>1, ReportStep
  <2>3. Over(d)'
    BY <1>1, <1>2, <1>3, <2>1, ReportStep
  <2>4. \A t \in DOMAIN listed : t[1] # d
    BY <2>2 DEF IInv, TokensFit
  <2>5. /\ DOMAIN listed' = DOMAIN listed \union {<<d, s>> : s \in Connected}
        /\ \A t \in DOMAIN listed : listed'[t] = listed[t]
        /\ \A s \in Connected : listed'[<<d, s>>] = client[s]
    BY <1>2, <1>3, <2>4
  <2>6. \A i \in identities' : \E s \in Connected : i.token = <<d, s>> /\ i.conn = client[s]
    BY <1>2, <1>3 DEF NewIdentity
  <2>7. \A t \in DOMAIN listed' : Over(t[1])'
    BY <2>2, <2>3, <2>5 DEF IInv, TokensFit, Over
  <2>8. \A i \in identities' : Over(i.token[1])' /\ listed'[i.token] = i.conn
    <3> SUFFICES ASSUME NEW i \in identities' PROVE Over(i.token[1])' /\ listed'[i.token] = i.conn
      OBVIOUS
    <3>1. PICK s \in Connected : i.token = <<d, s>> /\ i.conn = client[s]
      BY <2>6
    <3>2. i.token[1] = d
      BY <3>1
    <3> QED BY <2>3, <2>5, <3>1, <3>2
  <2>9. \A k \in kicked' : k[1] \in DOMAIN listed' /\ listed'[k[1]] = k[2] /\ k[2] \notin Protected
    BY <1>1, <2>5 DEF IInv, TokensFit
  <2>10. \A n \in DOMAIN work' : Operation[work'[n].id] = "kick" => work'[n].target \in DOMAIN listed'
    BY <2>2, <2>5 DEF IInv, TokensFit
  <2>11. TokensFit'
    <3>1. \A i \in identities' : {"token", "conn"} \subseteq DOMAIN i
      BY <1>3, NewIdentityFields
    <3> QED BY <2>7, <2>8, <2>9, <2>10, <3>1 DEF TokensFit
  <2>12. DOMAIN listed' \subseteq Nat \X Slot
    BY <2>5 DEF IInv, Typed, Connected
  <2> QED BY <2>2, <2>11, <2>12
<1>4. CASE /\ \E some \in SUBSET Connected : identities' = {NewIdentity(s) : s \in some}
           /\ Report(Reply("internal_error")) /\ UNCHANGED <<listed, done>>
  <2>1. Reply("internal_error") \in Reports /\ Reply("internal_error").code # "ok"
    BY CodesReply
  <2>2. /\ d \in DOMAIN work /\ ~Over(d) /\ DOMAIN work' = DOMAIN work
        /\ \A k \in DOMAIN work : /\ Over(k) => Over(k)'
                                  /\ work'[k].id = work[k].id /\ work'[k].target = work[k].target
        /\ TokensFit' /\ DOMAIN listed' \subseteq Nat \X Slot => IInv'
    BY <1>1, <1>2, <1>4, <2>1, ReportStep
  <2>3. Over(d)'
    BY <1>1, <1>2, <1>4, <2>1, ReportStep
  <2>4. \A i \in identities' : i.token[1] = d
    BY <1>2, <1>4 DEF NewIdentity
  <2>5. \A i \in identities' : Over(i.token[1])' /\ i.token \notin DOMAIN listed
    BY <2>2, <2>3, <2>4 DEF IInv, TokensFit
  <2>6. TokensFit'
    <3>1. \A i \in identities' : {"token", "conn"} \subseteq DOMAIN i
      BY <1>4, NewIdentityFields
    <3> QED BY <1>1, <1>4, <2>2, <2>5, <3>1 DEF IInv, TokensFit, Over
  <2> QED BY <1>4, <2>2, <2>6 DEF IInv, Typed
<1> QED BY <1>3, <1>4 DEF ListPlayers

LEMMA ExecuteKeeps == ASSUME IInv, Execute PROVE IInv'
<1>1. frame # None /\ frame.stage = "running"
  BY DEF Execute, RefuseAll, ListPlayers, Announce, RefuseTarget, Warn, Kick, Executing
<1>2. CASE RefuseAll \/ Announce \/ RefuseTarget \/ Warn
  <2>1. UNCHANGED <<identities, listed, kicked>>
    BY <1>2 DEF RefuseAll, Announce, RefuseTarget, Warn
  <2>2. \/ Report(Reply("ok")) /\ done' = done \union {frame.dispatch}
        \/ Report(Reply("refused")) /\ done' = done
    BY <1>2 DEF RefuseAll, Announce, RefuseTarget, Warn
  <2>3. /\ Reply("ok") \in Reports /\ Reply("ok").code = "ok"
        /\ Reply("refused") \in Reports /\ Reply("refused").code # "ok"
    BY CodesReply
  <2>4. CASE Report(Reply("ok")) /\ done' = done \union {frame.dispatch}
    BY <1>1, <2>1, <2>3, <2>4, PlainReport
  <2>5. CASE Report(Reply("refused")) /\ done' = done
    BY <1>1, <2>1, <2>3, <2>5, PlainReport
  <2> QED BY <2>2, <2>4, <2>5
<1> QED BY <1>2, ListPlayersKeeps, KickKeeps DEF Execute

-----------------------------------------------------------------------------
(* The worker answers and dispatches *)

\* The answers of the last dispatches stay the answers of the last dispatches.
AreLast(answered, n, ids) ==
    /\ Len(answered) = IF n < Remembered THEN n ELSE Remembered
    /\ \A i \in 1..Len(answered) : answered[i].id = ids[n - Len(answered) + i]

LEMMA AnswerAt ==
  ASSUME NEW answered, NEW n, NEW ids, AreLast(answered, n, ids), NEW i \in 1..Len(answered)
  PROVE  answered[i].id = ids[n - Len(answered) + i]
BY DEF AreLast

LEMMA RememberNext ==
  ASSUME NEW E, completed \in Seq(E), NEW id, NEW reply, NEW e \in E, e = [id |-> id, reply |-> reply],
         NEW ids, NEW a \in Nat, ids[a + 1] = id, AreLast(completed, a, ids),
         NEW kept, kept = Remember(id, reply)
  PROVE  kept \in Seq(E) /\ AreLast(kept, a + 1, ids)
<1> USE DEF AreLast
<1>1. e.id = id
  OBVIOUS
<1>2. PICK r : r = Append(completed, e)
  OBVIOUS
<1>3. PICK n \in Nat : n = Len(completed)
  BY LenProperties
<1>4. /\ r \in Seq(E) /\ r # <<>> /\ Len(r) = n + 1 /\ r[n + 1] = e
      /\ \A i \in 1..n : r[i] = completed[i]
  BY <1>2, <1>3, AppendProperties
<1>5. Remember(id, reply) = IF n + 1 > Remembered THEN Tail(r) ELSE r
  BY <1>1, <1>2, <1>4 DEF Remember, RemembersAny
<1>6. PICK m \in Nat \ {0} : m = Remembered
  BY AdminAssumption
<1>7. CASE n + 1 > m
  <2>1. PICK t \in Seq(E) : t = Tail(r) /\ Len(t) = n /\ \A i \in 1..n : t[i] = r[i + 1]
    <3>1. PICK t : t = Tail(r)
      OBVIOUS
    <3>2. t \in Seq(E) /\ Len(t) = Len(r) - 1 /\ \A i \in 1..Len(t) : t[i] = r[i + 1]
      BY <1>4, <3>1, HeadTailProperties
    <3>3. Len(t) = n
      BY <1>4, <3>2
    <3> QED BY <3>1, <3>2, <3>3
  <2>2. n = m /\ a >= m
    BY <1>3, <1>6, <1>7
  <2>3. ASSUME NEW i \in 1..m PROVE t[i].id = ids[a + 1 - m + i]
    <3>1. CASE i = m
      <4>1. t[i] = e /\ a + 1 - m + i = a + 1
        BY <1>4, <2>1, <2>2, <3>1
      <4> QED BY <1>1, <4>1
    <3>2. CASE i # m
      <4>1. i + 1 \in 1..n /\ a - n + (i + 1) = a + 1 - m + i
        BY <2>2, <3>2
      <4>2. completed[i + 1].id = ids[a + 1 - m + i]
        BY <1>3, <4>1
      <4>3. t[i] = completed[i + 1]
        BY <1>4, <2>1, <2>2, <4>1
      <4> QED BY <4>2, <4>3
    <3> QED BY <3>1, <3>2
  <2>4. Remember(id, reply) = t /\ Len(t) = m /\ ~(a + 1 < m)
    BY <1>5, <1>6, <1>7, <2>1, <2>2
  <2> QED BY <1>6, <2>3, <2>4
<1>8. CASE ~(n + 1 > m)
  <2>1. n = a /\ a + 1 <= m
    BY <1>3, <1>6, <1>8
  <2>2. ASSUME NEW i \in 1..a + 1 PROVE r[i].id = ids[i]
    <3>1. CASE i = a + 1
      BY <1>1, <1>4, <2>1, <3>1
    <3>2. CASE i # a + 1
      <4>1. i \in 1..n /\ a - n + i = i
        BY <2>1, <3>2
      <4>2. completed[i].id = ids[i]
        BY <1>3, <4>1
      <4> QED BY <1>4, <4>1, <4>2
    <3> QED BY <3>1, <3>2
  <2>3. Remember(id, reply) = r /\ Len(r) = a + 1
    BY <1>4, <1>5, <1>6, <1>8, <2>1
  <2>4. \A i \in 1..a + 1 : a + 1 - (a + 1) + i = i
    OBVIOUS
  <2>5. \A i \in 1..Len(r) : r[i].id = ids[a + 1 - Len(r) + i]
    BY <2>2, <2>3, <2>4
  <2>6. Len(r) = IF a + 1 < m THEN a + 1 ELSE m
    BY <2>1, <2>3
  <2> QED BY <1>4, <1>6, <2>3, <2>5, <2>6
<1> QED BY <1>7, <1>8

LEMMA ConcludeStep ==
  ASSUME IInv, serving # None, NEW reply \in Replies, Conclude(reply),
         reply.code = "ok" => serving \in done,
         reply.code = "expired" => work[serving].state = "cancelled",
         reply.code = "refused" => work[serving].reply # None /\ work[serving].reply.code = "refused",
         reply.code # "busy"
  PROVE  IInv'
<1>1. serving = Len(work) /\ serving \in DOMAIN work /\ work \in Seq(Item) /\ work[serving] \in Item
  BY DEF IInv, ServingFits, Typed
<1>2. /\ UNCHANGED <<work, scheduled, queued, frame, identities, listed, done, kicked>> /\ serving' = None
      /\ completed' = Remember(work[serving].id, reply)
      /\ answers' = answers \union
            {[dispatch |-> serving, code |-> reply.code, roster |-> reply.roster, waiting |-> Cardinality(scheduled)]}
  BY DEF Conclude, Answer, queue, registry
<1>3. PICK a : a = [dispatch |-> serving, code |-> reply.code, roster |-> reply.roster, waiting |-> Cardinality(scheduled)]
  OBVIOUS
<1>4. /\ a \in [dispatch : DOMAIN work, code : Codes, roster : Nat, waiting : Nat]
      /\ a.dispatch = serving /\ a.code = reply.code
  BY <1>1, <1>3, FS_CardinalityType DEF Replies, IInv, ScheduledFits
<1>5. answers' = answers \union {a}
  BY <1>2, <1>3
<1>6. PICK n \in Nat : n = Answered /\ Len(work) = n + 1
  BY <1>1 DEF Answered
<1>7. Answered' = n + 1
  BY <1>2, <1>6 DEF Answered
<1>8. PICK ids : ids = [k \in DOMAIN work |-> work[k].id]
  OBVIOUS
<1>9. completed' \in Seq([id : Id, reply : Replies]) /\ RemembersLast'
  <2>1. completed \in Seq([id : Id, reply : Replies]) /\ [id |-> work[serving].id, reply |-> reply] \in [id : Id, reply : Replies]
    BY <1>1 DEF IInv, Typed, Item
  <2>2. ids[n + 1] = work[serving].id
    BY <1>1, <1>6, <1>8
  <2>3. Len(completed) = IF n < Remembered THEN n ELSE Remembered
    BY <1>6 DEF IInv, RemembersLast
  <2>4. \A i \in 1..Len(completed) : completed[i].id = ids[n - Len(completed) + i]
    <3>1. \A i \in 1..Len(completed) : n - Len(completed) + i \in DOMAIN work
      BY <1>1, <1>6, <2>1, <2>3, AdminAssumption
    <3> QED BY <1>6, <1>8, <3>1 DEF IInv, RemembersLast
  <2>5. /\ completed' \in Seq([id : Id, reply : Replies])
        /\ Len(completed') = IF n + 1 < Remembered THEN n + 1 ELSE Remembered
        /\ \A i \in 1..Len(completed') : completed'[i].id = ids[n + 1 - Len(completed') + i]
    <3>1. PICK E : E = [id : Id, reply : Replies]
      OBVIOUS
    <3>5. PICK id : id = work[serving].id /\ ids[n + 1] = id
      BY <2>2
    <3>2. PICK e \in E : e = [id |-> id, reply |-> reply]
      BY <2>1, <3>1, <3>5
    <3>6. completed \in Seq(E) /\ AreLast(completed, n, ids)
      BY <2>1, <2>3, <2>4, <3>1 DEF AreLast
    <3>3. PICK kept : kept = Remember(id, reply)
      OBVIOUS
    <3>4. kept \in Seq(E) /\ AreLast(kept, n + 1, ids)
      BY <3>2, <3>3, <3>5, <3>6, RememberNext
    <3>7. completed' = kept
      BY <1>2, <3>3, <3>5
    <3> QED BY <3>1, <3>4, <3>7 DEF AreLast
  <2>6. \A i \in 1..Len(completed') : n + 1 - Len(completed') + i \in DOMAIN work
    <3>1. DOMAIN work = 1..n + 1
      BY <1>1, <1>6
    <3> QED BY <2>5, <3>1, AdminAssumption
  <2>7. \A i \in 1..Len(completed') : completed'[i].id = work'[n + 1 - Len(completed') + i].id
    BY <1>2, <1>8, <2>5, <2>6
  <2>8. Len(completed') = IF Answered' < Remembered THEN Answered' ELSE Remembered
    BY <1>7, <2>5
  <2>9. \A i \in 1..Len(completed') : completed'[i].id = work'[Answered' - Len(completed') + i].id
    BY <1>7, <2>7
  <2> QED BY <2>5, <2>8, <2>9 DEF RemembersLast
<1>10. Typed'
  BY <1>2, <1>4, <1>5, <1>9 DEF IInv, Typed
<1>11. AnswersFit'
  BY <1>2, <1>4, <1>5 DEF IInv, AnswersFit, Over, Runs
<1>12. ScheduledFits' /\ RunningFits' /\ ItemsFit' /\ ServingFits' /\ Spaced' /\ TokensFit'
  BY <1>2 DEF IInv, ScheduledFits, RunningFits, ItemsFit, ServingFits, Spaced, TokensFit, Calls, Untouched, Runs, Over
<1> QED BY <1>9, <1>10, <1>11, <1>12 DEF IInv

LEMMA ConcludeKeeps == ASSUME IInv, TakeReply \/ TakeLateReply \/ ResultUnknown \/ Expired PROVE IInv'
<1>1. serving # None /\ serving \in DOMAIN work /\ work[serving] \in Item
  BY DEF TakeReply, TakeLateReply, ResultUnknown, Expired, IInv, ServingFits, Typed
<1>2. CASE TakeReply \/ TakeLateReply
  <2>1. PICK reply \in Reports : reply = work[serving].reply /\ Conclude(reply)
    BY <1>1, <1>2 DEF TakeReply, TakeLateReply, Item
  <2>2. reply # None
    BY <1>2, <2>1 DEF TakeReply, TakeLateReply
  <2>3. reply \in Replies /\ reply.code \in {"ok", "refused", "internal_error"}
    BY DEF Reports, Replies, Codes
  <2>4. reply.code = "ok" => serving \in done
    BY <1>1, <2>1, <2>2 DEF IInv, ItemsFit
  <2> QED BY <1>1, <2>1, <2>2, <2>3, <2>4, ConcludeStep
<1>3. CASE ResultUnknown \/ Expired
  <2>1. \A code \in Codes : Reply(code) \in Replies /\ Reply(code).code = code
    BY DEF Reply, Replies
  <2>2. CASE ResultUnknown
    BY <1>1, <2>1, <2>2, ConcludeStep DEF ResultUnknown, Codes
  <2>3. CASE Expired
    BY <1>1, <2>1, <2>3, ConcludeStep DEF Expired, Codes
  <2> QED BY <1>3, <2>2, <2>3
<1> QED BY <1>2, <1>3

LEMMA DispatchKeeps ==
  ASSUME IInv, NEW id \in Id, NEW target \in {None} \union DOMAIN listed, Dispatch(id, target),
         Operation[id] = "kick" => target \in DOMAIN listed
  PROVE  IInv'
<1>1. PICK w : w = [id |-> id, target |-> target, state |-> "pending", late |-> FALSE, reply |-> None]
  OBVIOUS
<1>2. w \in Item /\ w.id = id /\ w.target = target /\ w.state = "pending" /\ w.reply = None
  BY <1>1 DEF Item, IInv, Typed
<1>3. PICK l \in Nat : l = Len(work)
  BY LenProperties DEF IInv, Typed
<1>4. DOMAIN work = 1..l /\ work \in Seq(Item)
  BY <1>3 DEF IInv, Typed
<1>5. /\ work' \in Seq(Item) /\ Len(work') = l + 1 /\ DOMAIN work' = 1..l + 1 /\ work'[l + 1] = w
      /\ \A k \in DOMAIN work : work'[k] = work[k]
  <2>1. work' = Append(work, w)
    BY <1>1 DEF Dispatch
  <2>2. /\ work' \in Seq(Item) /\ Len(work') = l + 1 /\ work'[l + 1] = w
        /\ \A k \in 1..l : work'[k] = work[k]
    BY <1>2, <1>3, <1>4, <2>1, AppendProperties
  <2>3. DOMAIN work' = 1..l + 1
    BY <2>2, LenProperties
  <2> QED BY <1>4, <2>2, <2>3
<1>6. /\ serving = None /\ ~IsRemembered(id)
      /\ UNCHANGED <<frame, identities, listed, kicked>>
  BY DEF Dispatch, registry
<1>7. l + 1 \notin DOMAIN work /\ l + 1 \notin scheduled /\ l + 1 \notin done /\ ~Runs(l + 1)
  <2>1. l + 1 \notin DOMAIN work
    BY <1>4
  <2> QED BY <2>1 DEF IInv, Typed, ScheduledFits, RunningFits, Runs
<1>8. /\ \A k \in DOMAIN work : /\ Calls(k)' = Calls(k) /\ Runs(k)' = Runs(k)
                                /\ k \in scheduled' <=> k \in scheduled
                                /\ k \in done' <=> k \in done
                                /\ Untouched(k)' = Untouched(k)
      /\ Calls(l + 1)' = (Operation[id] # "hello") /\ Runs(l + 1)' = FALSE
  <2>1. \A k \in DOMAIN work : (k \in scheduled' <=> k \in scheduled) /\ (k \in done' <=> k \in done)
    BY <1>3, <1>5, <1>7 DEF Dispatch
  <2>2. \A k : Runs(k)' = Runs(k)
    BY <1>6 DEF Runs
  <2> QED BY <1>2, <1>5, <1>7, <2>1, <2>2 DEF Calls, Untouched
<1>9. \A k \in DOMAIN work : Over(k) => Over(k)'
  BY <1>4, <1>5, <1>6, <1>8 DEF Over
<1>10. RunningFits'
  <2> SUFFICES ASSUME frame # None PROVE RunningFits'
    BY <1>6 DEF RunningFits
  <2>1. PICK k \in DOMAIN work : k = frame.dispatch
    BY DEF IInv, RunningFits
  <2>2. frame' \in [dispatch : DOMAIN work', stage : {"checked", "running", "reported"}]
    BY <1>4, <1>5, <1>6 DEF IInv, RunningFits
  <2> QED BY <1>5, <1>6, <1>8, <2>1, <2>2 DEF IInv, RunningFits
<1>11. TokensFit'
  <2>1. \A n \in DOMAIN work' : Operation[work'[n].id] = "kick" => work'[n].target \in DOMAIN listed
    BY <1>2, <1>4, <1>5 DEF IInv, TokensFit
  <2>2. \A k : Over(k) => Over(k)'
    BY <1>9 DEF Over
  <2> QED BY <1>6, <2>1, <2>2 DEF IInv, TokensFit
<1>12. Spaced'
  <2>1. ASSUME NEW m \in 1..l, work[m].id = id PROVE l + 1 - m > Remembered
    <3>1. PICK c \in Nat : c = Len(completed)
      BY LenProperties DEF IInv, Typed
    <3>2. c = IF l < Remembered THEN l ELSE Remembered
      BY <1>3, <1>6, <3>1 DEF IInv, RemembersLast, Answered
    <3>3. \A i \in 1..c : completed[i].id = work[l - c + i].id
      BY <1>3, <1>6, <3>1 DEF IInv, RemembersLast, Answered
    <3>4. \A i \in 1..c : completed[i].id # id
      BY <1>6, <3>1 DEF IsRemembered, IInv, Typed
    <3>5. m \notin l - c + 1..l
      <4> SUFFICES ASSUME m \in l - c + 1..l PROVE FALSE
        OBVIOUS
      <4>1. m - (l - c) \in 1..c /\ l - c + (m - (l - c)) = m
        BY <3>2, AdminAssumption
      <4> QED BY <2>1, <3>3, <3>4, <4>1
    <3> QED BY <3>2, <3>5, AdminAssumption
  <2> QED BY <1>2, <1>4, <1>5, <2>1 DEF IInv, Spaced
<1>13. ItemsFit'
  <2> SUFFICES ASSUME NEW k \in 1..l + 1
               PROVE  /\ work'[k].state = "cancelled" => Untouched(k)' /\ Calls(k)'
                      /\ work'[k].reply # None => (work'[k].reply.code = "ok" <=> k \in done')
    BY <1>5 DEF ItemsFit
  <2>1. CASE k = l + 1
    BY <1>2, <1>5, <2>1
  <2>2. CASE k # l + 1
    BY <1>4, <1>5, <1>8, <2>2 DEF IInv, ItemsFit
  <2> QED BY <2>1, <2>2
<1>14. PICK ids : (\A k \in 1..l + 1 : ids[k] = work'[k].id) /\ ids[l + 1] = id
  <2>1. [k \in 1..l + 1 |-> work'[k].id][l + 1] = id
    BY <1>2, <1>5
  <2>2. \A k \in 1..l + 1 : [j \in 1..l + 1 |-> work'[j].id][k] = work'[k].id
    OBVIOUS
  <2> QED BY <2>1, <2>2
<1>15. AreLast(completed, l, ids)
  <2>1. PICK c \in Nat : c = Len(completed)
    BY LenProperties DEF IInv, Typed
  <2>2. c = IF l < Remembered THEN l ELSE Remembered
    BY <1>3, <1>6, <2>1 DEF IInv, RemembersLast, Answered
  <2>3. \A i \in 1..c : completed[i].id = work[l - c + i].id
    BY <1>3, <1>6, <2>1 DEF IInv, RemembersLast, Answered
  <2>4. \A i \in 1..c : l - c + i \in 1..l
    BY <2>2, AdminAssumption
  <2>5. \A k \in 1..l : ids[k] = work[k].id
    BY <1>4, <1>5, <1>14
  <2> QED BY <2>1, <2>2, <2>3, <2>4, <2>5 DEF AreLast
\* "hello" and a full queue are answered at once.
<1>16. ASSUME NEW code \in {"ok", "busy"}, Answer(l + 1, id, Reply(code), Cardinality(scheduled)),
              UNCHANGED <<serving, scheduled, queued>>,
              done' = IF code = "ok" THEN done \union {l + 1} ELSE done,
              code = "busy" => queued >= QueueCapacity
       PROVE  IInv'
  <2>1. PICK reply \in Replies : reply = Reply(code) /\ reply.code = code
    <3>1. Reply(code) \in Replies /\ Reply(code).code = code
      BY DEF Reply, Replies, Codes
    <3> QED BY <3>1
  <2>2. PICK a : a = [dispatch |-> l + 1, code |-> reply.code, roster |-> reply.roster, waiting |-> Cardinality(scheduled)]
    OBVIOUS
  <2>3. /\ a \in [dispatch : DOMAIN work', code : Codes, roster : Nat, waiting : Nat]
        /\ a.dispatch = l + 1 /\ a.code = code /\ a.waiting = queued
    BY <1>5, <2>1, <2>2, FS_CardinalityType DEF Replies, IInv, ScheduledFits
  <2>4. answers' = answers \union {a} /\ completed' = Remember(id, reply)
    BY <1>16, <2>1, <2>2 DEF Answer
  <2>5. PICK E, e, kept : /\ E = [id : Id, reply : Replies] /\ e \in E
                          /\ e = [id |-> id, reply |-> reply] /\ kept = Remember(id, reply)
    <3>1. [id |-> id, reply |-> reply] \in [id : Id, reply : Replies]
      OBVIOUS
    <3> QED BY <3>1
  <2>6. completed \in Seq(E)
    BY <2>5 DEF IInv, Typed
  <2>7. kept \in Seq(E) /\ AreLast(kept, l + 1, ids)
    <3>1. ids[l + 1] = id /\ e \in E /\ e = [id |-> id, reply |-> reply] /\ kept = Remember(id, reply)
      BY <1>14, <2>5
    <3> QED BY <1>15, <2>6, <3>1, RememberNext
  <2>8. completed' = kept
    BY <2>4, <2>5
  <2>9. Answered' = l + 1
    BY <1>5, <1>6, <1>16 DEF Answered
  <2>10. \A i \in 1..Len(completed') : l + 1 - Len(completed') + i \in 1..l + 1
    <3>1. PICK k \in Nat : k = Len(completed') /\ k <= l + 1
      <4>1. Len(completed') = IF l + 1 < Remembered THEN l + 1 ELSE Remembered
        BY <2>7, <2>8 DEF AreLast
      <4>2. Remembered \in Nat
        BY AdminAssumption
      <4> QED BY <4>1, <4>2
    <3> QED BY <3>1
  <2>11. RemembersLast'
    <3>1. \A i \in 1..Len(completed') : completed'[i].id = work'[l + 1 - Len(completed') + i].id
      <4> SUFFICES ASSUME NEW i \in 1..Len(kept) PROVE kept[i].id = work'[l + 1 - Len(kept) + i].id
        BY <2>8
      <4>1. kept[i].id = ids[l + 1 - Len(kept) + i]
        <5>1. AreLast(kept, l + 1, ids) /\ i \in 1..Len(kept)
          BY <2>7
        <5> QED BY <5>1, AnswerAt
      <4>2. l + 1 - Len(kept) + i \in 1..l + 1
        BY <2>8, <2>10
      <4> QED BY <1>14, <4>1, <4>2
    <3> QED BY <2>7, <2>8, <2>9, <3>1 DEF AreLast, RemembersLast
  <2>12. Typed'
    <3>1. done' \subseteq DOMAIN work' /\ answers \subseteq [dispatch : DOMAIN work', code : Codes, roster : Nat, waiting : Nat]
      BY <1>4, <1>5, <1>16 DEF IInv, Typed
    <3> QED BY <1>5, <1>6, <2>3, <2>4, <2>5, <2>7, <2>8, <3>1 DEF IInv, Typed
  <2>13. ScheduledFits'
    BY <1>4, <1>5, <1>8, <1>16 DEF IInv, ScheduledFits
  <2>14. ServingFits'
    BY <1>6, <1>16 DEF ServingFits
  <2>15. AnswersFit'
    <3>1. ASSUME NEW b \in answers
          PROVE  /\ b.code = "ok" => b.dispatch \in done'
                 /\ b.code = "expired" => work'[b.dispatch].state = "cancelled"
                 /\ b.code = "refused" => work'[b.dispatch].reply # None /\ work'[b.dispatch].reply.code = "refused"
                 /\ b.code = "busy" => Over(b.dispatch)' /\ b.dispatch \notin done' /\ b.waiting >= QueueCapacity
      BY <1>5, <1>8, <1>9, <3>1 DEF IInv, Typed, AnswersFit
    <3>2. a.code = "busy" => Over(l + 1)' /\ l + 1 \notin done' /\ a.waiting >= QueueCapacity
      BY <1>5, <1>7, <1>8, <1>16, <2>3 DEF Over
    <3>3. a.code = "ok" => l + 1 \in done'
      BY <1>16, <2>3
    <3> QED BY <2>3, <2>4, <3>1, <3>2, <3>3 DEF AnswersFit
  <2> QED BY <1>10, <1>11, <1>12, <1>13, <2>11, <2>12, <2>13, <2>14, <2>15 DEF IInv
<1>17. CASE /\ Operation[id] # "hello" /\ queued' = queued + 1
            /\ scheduled' = scheduled \union {l + 1} /\ serving' = l + 1
            /\ UNCHANGED <<completed, answers, done>>
  <2>1. ScheduledFits'
    <3>1. IsFiniteSet(scheduled') /\ queued' = Cardinality(scheduled')
      BY <1>7, <1>17, FS_AddElement DEF IInv, ScheduledFits
    <3>2. Calls(l + 1)' /\ ~Runs(l + 1)' /\ Untouched(l + 1)' /\ work'[l + 1].state = "pending"
      BY <1>2, <1>5, <1>7, <1>8, <1>17 DEF Untouched
    <3>3. \A n \in scheduled : /\ n \in DOMAIN work' /\ Calls(n)' /\ ~Runs(n)' /\ Untouched(n)'
                               /\ work'[n].state \in {"pending", "cancelled"}
      BY <1>4, <1>5, <1>8 DEF IInv, ScheduledFits
    <3> QED BY <1>5, <1>17, <3>1, <3>2, <3>3 DEF ScheduledFits
  <2>2. ServingFits'
    BY <1>2, <1>5, <1>7, <1>8, <1>17 DEF ServingFits, Untouched, Calls
  <2>3. Typed'
    BY <1>4, <1>5, <1>6, <1>17 DEF IInv, Typed
  <2>4. AnswersFit'
    BY <1>5, <1>8, <1>9, <1>17 DEF IInv, Typed, AnswersFit
  <2>5. Answered' = l
    <3>1. serving' # None
      BY <1>17, AdminAssumption
    <3> QED BY <1>5, <3>1 DEF Answered
  <2>6. \A i \in 1..Len(completed) : l - Len(completed) + i \in 1..l + 1
    <3>1. PICK c \in Nat : c = Len(completed)
      BY LenProperties DEF IInv, Typed
    <3> QED BY <1>15, <3>1, AdminAssumption DEF AreLast
  <2>7. RemembersLast'
    BY <1>14, <1>15, <1>17, <2>5, <2>6 DEF AreLast, RemembersLast
  <2> QED BY <1>10, <1>11, <1>12, <1>13, <2>1, <2>2, <2>3, <2>4, <2>7 DEF IInv
<1>18. \/ /\ Answer(l + 1, id, Reply("ok"), Cardinality(scheduled)) /\ done' = done \union {l + 1}
          /\ UNCHANGED <<serving, scheduled, queued>>
       \/ /\ Answer(l + 1, id, Reply("busy"), Cardinality(scheduled)) /\ done' = done /\ queued >= QueueCapacity
          /\ UNCHANGED <<serving, scheduled, queued>>
       \/ /\ Operation[id] # "hello" /\ queued' = queued + 1
          /\ scheduled' = scheduled \union {l + 1} /\ serving' = l + 1
          /\ UNCHANGED <<completed, answers, done>>
  BY <1>5 DEF Dispatch
<1> QED BY <1>16, <1>17, <1>18

-----------------------------------------------------------------------------
(* The invariant holds *)

LEMMA InvStep == IInv /\ [Next]_vars => IInv'
<1> SUFFICES ASSUME IInv, [Next]_vars PROVE IInv'
  OBVIOUS
<1>1. ASSUME NEW id \in Id,
             IF Operation[id] \in {"warn", "kick"} THEN \E t \in Known : Dispatch(id, t) ELSE Dispatch(id, None)
      PROVE  IInv'
  BY <1>1, DispatchKeeps DEF Known
<1>2. CASE TakeReply \/ TakeLateReply \/ ResultUnknown \/ Expired
  BY <1>2, ConcludeKeeps
<1>3. CASE GiveUp \/ DeadlinePasses \/ BeginWork \/ Execute \/ Complete
  BY <1>3, GiveUpKeeps, DeadlineKeeps, BeginWorkKeeps, ExecuteKeeps, CompleteKeeps
<1>4. ASSUME NEW n \in scheduled, StartCallback(n) PROVE IInv'
  BY <1>4, StartCallbackKeeps
<1>5. CASE Stop \/ MapChange \/ NoticeReady \/ UNCHANGED vars
  BY <1>5, EngineStep DEF Stop, MapChange, NoticeReady, vars, worker, queue, registry, history
<1>6. ASSUME NEW s \in Slot, Leave(s) \/ \E c \in Conn : Connect(s, c) PROVE IInv'
  BY <1>6, EngineStep DEF Leave, Connect, worker, queue, history
<1>7. CASE TokenExpires
  <2>1. PICK i \in identities : identities' = (identities \ {i}) \union {[i EXCEPT !.expired = TRUE]}
    BY <1>7 DEF TokenExpires
  <2>2. PICK k : k = [i EXCEPT !.expired = TRUE]
    OBVIOUS
  <2>3. {"token", "conn"} \subseteq DOMAIN i
    BY DEF IInv, TokensFit
  <2>4. k.token = i.token /\ k.conn = i.conn /\ DOMAIN k = DOMAIN i
    BY <2>2, <2>3
  <2>5. \A m \in identities' : \E n \in identities : m.token = n.token /\ m.conn = n.conn /\ DOMAIN m = DOMAIN n
    BY <2>1, <2>2, <2>4
  <2> QED BY <1>7, <2>5, EngineStep DEF TokenExpires, worker, queue, history
<1> QED BY <1>1, <1>2, <1>3, <1>4, <1>5, <1>6, <1>7 DEF Next

LEMMA InvInit == Init => IInv
<1> SUFFICES ASSUME Init PROVE IInv
  OBVIOUS
<1>1. IsFiniteSet({}) /\ Cardinality({}) = 0
  BY FS_EmptySet
<1>2. Answered = 0
  BY DEF Init, Answered
<1> QED BY <1>1, <1>2, AdminAssumption
        DEF Init, IInv, Typed, ScheduledFits, RunningFits, ItemsFit, ServingFits, AnswersFit, RemembersLast, Spaced, TokensFit

LEMMA Invariant == Spec => []IInv
BY InvInit, InvStep, PTL DEF Spec

-----------------------------------------------------------------------------
(* What follows *)

\* server_admin.cpp: "ok" is an answer only to what was carried out, and "expired", "busy" and
\* "refused" only to what was not and never will be, whatever is still scheduled.
THEOREM AnswerIsTrueAlways == Spec => []AnswerIsTrue
BY Invariant, Properties, PTL

\* server_admin.cpp converse: a request under an id whose answer may be remembered does not act
\* again, for any number of answers kept.
THEOREM ActsOncePerIdAlways == Spec => []ActsOncePerId
BY Invariant, Properties, PTL

\* server_admin.cpp matches: a kick reaches the connection its token was made for, not one that
\* took the slot since, nor one that is protected.
THEOREM KickedAsListedAlways == Spec => []KickedAsListed
BY Invariant, Properties, PTL

-----------------------------------------------------------------------------
(* The types of the registry, and the room of the queue *)

Token == Nat \X Slot
Identity == [token : Token, slot : Slot, conn : Conn, epoch : 0..MaxEpoch, expired : BOOLEAN]

FlagsTyped ==
    notice \in BOOLEAN /\ match \in BOOLEAN /\ stopping \in BOOLEAN /\ givenUp \in BOOLEAN
RegistryTyped ==
    /\ identities \subseteq Identity /\ epoch \in 0..MaxEpoch
    /\ FlagsTyped
    /\ client \in [Slot -> Conn \union {None}] /\ fresh \subseteq Conn
    /\ \A t \in DOMAIN listed : listed[t] \in Conn
    /\ kicked \subseteq Token \X Conn
RoomKept == queued <= QueueCapacity

AdminTypeOK ==
    /\ work \in Seq(Item) /\ completed \in Seq([id : Id, reply : Replies])
    /\ serving \in DOMAIN work \union {None}
    /\ scheduled \subseteq DOMAIN work /\ queued \in 0..QueueCapacity
    /\ frame \in [dispatch : DOMAIN work, stage : {"checked", "running", "reported"}] \union {None}
    /\ answers \subseteq [dispatch : DOMAIN work, code : Codes, roster : Nat, waiting : Nat]
    /\ done \subseteq DOMAIN work /\ DOMAIN listed \subseteq Token
    /\ RegistryTyped

\* queued_work: every callback that is scheduled is counted until it runs, none twice.
QueueIsCounted == queued = Cardinality(scheduled) /\ queued <= QueueCapacity

LEMMA ClientsAreConnections ==
  ASSUME RegistryTyped
  PROVE  \A s \in Slot : client[s] # None => client[s] \in Conn
BY DEF RegistryTyped

LEMMA RegistryStays ==
  ASSUME RegistryTyped,
         UNCHANGED <<identities, epoch, notice, match, client, fresh, listed, kicked>>,
         stopping' \in BOOLEAN, givenUp' \in BOOLEAN
  PROVE  RegistryTyped'
<1>1. FlagsTyped'
  BY Zenon DEF RegistryTyped, FlagsTyped
<1> QED BY <1>1 DEF RegistryTyped

LEMMA RegistryExecute ==
  ASSUME IInv, RegistryTyped, Execute
  PROVE  RegistryTyped' /\ UNCHANGED <<scheduled, queued>>
<1>1. /\ UNCHANGED <<epoch, notice, match, fresh, stopping, givenUp>>
      /\ UNCHANGED <<scheduled, queued>>
  BY DEF Execute, RefuseAll, ListPlayers, Announce, RefuseTarget, Warn, Kick, Report, worker
<1>2. \E operation \in {"players", "announce", "warn", "kick"} : Executing(operation)
  BY DEF Execute, RefuseAll, ListPlayers, Announce, RefuseTarget, Warn, Kick
<1>3. frame # None /\ frame.dispatch \in DOMAIN work /\ frame.dispatch \in Nat
  BY <1>2 DEF Executing, IInv, RunningFits, Typed
<1>0. FlagsTyped'
  BY <1>1, Zenon DEF RegistryTyped, FlagsTyped
<1>4. CASE UNCHANGED <<identities, client, listed, kicked>>
  BY <1>0, <1>1, <1>4 DEF RegistryTyped
<1>5. CASE ListPlayers
  <2>1. UNCHANGED <<client, kicked>>
    BY <1>5 DEF ListPlayers
  <2>2. \A s \in Connected : NewIdentity(s) \in Identity /\ client[s] \in Conn /\ s \in Slot /\ <<frame.dispatch, s>> \in Token
    BY <1>3, ClientsAreConnections DEF Connected, NewIdentity, Identity, Token, RegistryTyped
  <2>3. identities' \subseteq {NewIdentity(s) : s \in Connected}
    BY <1>5 DEF ListPlayers
  <2>4. identities' \subseteq Identity
    BY <2>2, <2>3
  <2>5. \A t \in DOMAIN listed' : listed'[t] \in Conn
    <3>1. CASE UNCHANGED listed
      BY <3>1 DEF RegistryTyped
    <3>2. CASE listed' = [t \in DOMAIN listed \union {<<frame.dispatch, s>> : s \in Connected} |->
                IF t \in DOMAIN listed THEN listed[t] ELSE client[t[2]]]
      <4>1. ASSUME NEW t \in DOMAIN listed' PROVE listed'[t] \in Conn
        <5>1. CASE t \in DOMAIN listed
          BY <3>2, <5>1 DEF RegistryTyped
        <5>2. CASE t \notin DOMAIN listed
          <6>1. PICK s \in Connected : t = <<frame.dispatch, s>>
            BY <3>2, <4>1, <5>2
          <6>2. listed'[t] = client[s]
            BY <3>2, <4>1, <5>2, <6>1
          <6> QED BY <2>2, <6>2
        <5> QED BY <5>1, <5>2
      <4> QED BY <4>1
    <3> QED BY <1>5, <3>1, <3>2 DEF ListPlayers
  <2> QED BY <1>0, <1>1, <2>1, <2>4, <2>5 DEF RegistryTyped
<1>6. CASE Kick
  <2>1. PICK i \in identities : /\ Matches(i)
                                /\ client' = [client EXCEPT ![i.slot] = None] /\ identities' = identities \ {i}
                                /\ kicked' = kicked \union {<<i.token, client[i.slot]>>}
    BY <1>6 DEF Kick, Target
  <2>2. i \in Identity
    BY DEF RegistryTyped
  <2>3. i.slot \in Slot /\ i.token \in Token /\ client[i.slot] \in Conn
    BY <2>1, <2>2, ClientsAreConnections DEF Identity, Matches
  <2>4. client' \in [Slot -> Conn \union {None}]
    BY <2>1 DEF RegistryTyped
  <2>5. kicked' \subseteq Token \X Conn
    BY <2>1, <2>3 DEF RegistryTyped
  <2> QED BY <1>0, <1>1, <1>6, <2>1, <2>4, <2>5 DEF RegistryTyped, Kick
<1> QED BY <1>4, <1>5, <1>6 DEF Execute, RefuseAll, Announce, RefuseTarget, Warn

LEMMA RegistryEngine ==
  ASSUME RegistryTyped,
         \/ MapChange \/ NoticeReady \/ TokenExpires \/ Stop
         \/ \E s \in Slot : Leave(s) \/ \E c \in Conn : Connect(s, c)
  PROVE  RegistryTyped' /\ UNCHANGED <<scheduled, queued>>
<1>1. UNCHANGED <<scheduled, queued>>
  BY DEF MapChange, NoticeReady, TokenExpires, Stop, Leave, Connect, queue
<1>2. CASE MapChange
  <2>1. MaxEpoch \in Nat
    BY AdminAssumption
  <2>2. FlagsTyped'
    BY <1>2, Zenon DEF MapChange, RegistryTyped, FlagsTyped, worker
  <2>3. epoch' \in 0..MaxEpoch
    BY <1>2, <2>1 DEF MapChange, RegistryTyped
  <2> QED BY <1>1, <1>2, <2>2, <2>3 DEF MapChange, RegistryTyped, history
<1>3. CASE NoticeReady \/ Stop
  <2>1. FlagsTyped'
    BY <1>3, Zenon DEF NoticeReady, Stop, RegistryTyped, FlagsTyped, worker
  <2>2. UNCHANGED <<identities, epoch, client, fresh, listed, kicked>>
    BY <1>3 DEF NoticeReady, Stop, history
  <2> QED BY <1>1, <2>1, <2>2 DEF RegistryTyped
<1>4. CASE TokenExpires
  <2>1. PICK i \in identities : identities' = (identities \ {i}) \union {[i EXCEPT !.expired = TRUE]}
    BY <1>4 DEF TokenExpires
  <2>2. i \in Identity
    BY DEF RegistryTyped
  <2>3. [i EXCEPT !.expired = TRUE] \in Identity
    BY <2>2 DEF Identity
  <2>4. identities' \subseteq Identity
    BY <2>1, <2>3 DEF RegistryTyped
  <2>5. FlagsTyped'
    BY <1>4, Zenon DEF TokenExpires, RegistryTyped, FlagsTyped, worker
  <2>6. UNCHANGED <<epoch, client, fresh, listed, kicked>>
    BY <1>4 DEF TokenExpires, history
  <2> QED BY <1>1, <2>4, <2>5, <2>6 DEF RegistryTyped
<1>5. ASSUME NEW s \in Slot, Leave(s) PROVE RegistryTyped'
  <2>1. FlagsTyped'
    BY <1>5, Zenon DEF Leave, RegistryTyped, FlagsTyped, worker
  <2>2. UNCHANGED <<identities, epoch, fresh, listed, kicked>> /\ client' \in [Slot -> Conn \union {None}]
    BY <1>5 DEF Leave, RegistryTyped, history
  <2> QED BY <2>1, <2>2 DEF RegistryTyped
<1>6. ASSUME NEW s \in Slot, NEW c \in Conn, Connect(s, c) PROVE RegistryTyped'
  <2>1. FlagsTyped'
    BY <1>6, Zenon DEF Connect, RegistryTyped, FlagsTyped, worker
  <2>2. /\ UNCHANGED <<identities, epoch, listed, kicked>> /\ fresh' \subseteq Conn
        /\ client' \in [Slot -> Conn \union {None}]
    BY <1>6 DEF Connect, RegistryTyped
  <2> QED BY <2>1, <2>2 DEF RegistryTyped
<1> QED BY <1>1, <1>2, <1>3, <1>4, <1>5, <1>6

LEMMA RegistryStep ==
  ASSUME IInv, RegistryTyped, RoomKept, [Next]_vars
  PROVE  RegistryTyped' /\ RoomKept'
<1>0. stopping \in BOOLEAN /\ givenUp \in BOOLEAN
  BY Zenon DEF RegistryTyped, FlagsTyped
<1>1. queued \in Nat /\ QueueCapacity \in Nat
  BY AdminAssumption, FS_CardinalityType DEF IInv, ScheduledFits
<1>2. ASSUME NEW id \in Id, NEW target, Dispatch(id, target) PROVE RegistryTyped' /\ RoomKept'
  <2>1. /\ UNCHANGED <<identities, epoch, notice, match, client, fresh, listed, kicked, stopping>>
        /\ givenUp' = givenUp \/ givenUp' = FALSE
        /\ queued' = queued \/ (queued < QueueCapacity /\ queued' = queued + 1)
    BY <1>2 DEF Dispatch, registry
  <2>2. stopping' \in BOOLEAN /\ givenUp' \in BOOLEAN
    BY <1>0, <2>1, Zenon
  <2>3. RegistryTyped'
    BY <2>1, <2>2, RegistryStays
  <2> QED BY <1>1, <2>1, <2>3 DEF RoomKept
<1>3. CASE TakeReply \/ TakeLateReply \/ ResultUnknown \/ Expired
  <2>1. /\ UNCHANGED <<identities, epoch, notice, match, client, fresh, listed, kicked, stopping, queued>>
        /\ givenUp' = FALSE
    BY <1>3 DEF TakeReply, TakeLateReply, ResultUnknown, Expired, Conclude, registry, queue
  <2>2. stopping' \in BOOLEAN /\ givenUp' \in BOOLEAN
    BY <1>0, <2>1, Zenon
  <2> QED BY <2>1, <2>2, RegistryStays DEF RoomKept
<1>4. CASE GiveUp \/ DeadlinePasses \/ BeginWork \/ Complete
  <2>1. /\ UNCHANGED <<identities, epoch, notice, match, client, fresh, listed, kicked, stopping, queued>>
        /\ givenUp' = givenUp \/ givenUp' = TRUE
    BY <1>4 DEF GiveUp, DeadlinePasses, BeginWork, Complete, registry, history, worker
  <2>2. stopping' \in BOOLEAN /\ givenUp' \in BOOLEAN
    BY <1>0, <2>1, Zenon
  <2> QED BY <2>1, <2>2, RegistryStays DEF RoomKept
<1>5. ASSUME NEW n \in scheduled, StartCallback(n) PROVE RegistryTyped' /\ RoomKept'
  <2>1. /\ UNCHANGED <<identities, epoch, notice, match, client, fresh, listed, kicked, stopping, givenUp>>
        /\ queued' = queued - 1
    BY <1>5 DEF StartCallback, registry, history, worker
  <2>2. stopping' \in BOOLEAN /\ givenUp' \in BOOLEAN
    BY <1>0, <2>1, Zenon
  <2>3. RegistryTyped'
    BY <2>1, <2>2, RegistryStays
  <2> QED BY <1>1, <2>1, <2>3 DEF RoomKept
<1>6. CASE Execute
  BY <1>6, RegistryExecute DEF RoomKept
<1>7. CASE \/ MapChange \/ NoticeReady \/ TokenExpires \/ Stop
           \/ \E s \in Slot : Leave(s) \/ \E c \in Conn : Connect(s, c)
  BY <1>7, RegistryEngine DEF RoomKept
<1>8. CASE UNCHANGED vars
  BY <1>0, <1>8, RegistryStays DEF RoomKept, vars, worker, queue, registry, history
<1>9. \/ \E id \in Id : \E target \in Known \union {None} : Dispatch(id, target)
      \/ TakeReply \/ GiveUp \/ TakeLateReply \/ ResultUnknown \/ Expired
      \/ DeadlinePasses \/ Stop
      \/ \E n \in scheduled : StartCallback(n)
      \/ BeginWork \/ Execute \/ Complete
      \/ \E s \in Slot : Leave(s) \/ \E c \in Conn : Connect(s, c)
      \/ MapChange \/ NoticeReady \/ TokenExpires \/ UNCHANGED vars
  BY DEF Next
<1> QED BY <1>2, <1>3, <1>4, <1>5, <1>6, <1>7, <1>8, <1>9

LEMMA RegistryInit == Init => RegistryTyped /\ RoomKept
<1> SUFFICES ASSUME Init PROVE RegistryTyped /\ RoomKept
  OBVIOUS
<1>1. /\ MaxEpoch \in Nat /\ QueueCapacity \in Nat
  BY AdminAssumption
<1>2. FlagsTyped
  BY Zenon DEF Init, FlagsTyped
<1>3. client \in [Slot -> Conn \union {None}] /\ \A t \in DOMAIN listed : listed[t] \in Conn
  BY DEF Init
<1> QED BY <1>1, <1>2, <1>3 DEF Init, RegistryTyped, RoomKept

LEMMA RegistryInvariant == Spec => [](RegistryTyped /\ RoomKept)
BY Invariant, RegistryInit, RegistryStep, PTL DEF Spec

\* Every variable of the pipe and its registry keeps its type; a request the worker waits for
\* and a callback that runs are work items.
THEOREM AdminTypeCorrect == Spec => []AdminTypeOK
<1>1. IInv /\ RegistryTyped /\ RoomKept => AdminTypeOK
  <2> SUFFICES ASSUME IInv, RegistryTyped, RoomKept PROVE AdminTypeOK
    OBVIOUS
  <2>1. queued \in 0..QueueCapacity
    BY AdminAssumption, FS_CardinalityType DEF IInv, ScheduledFits, RoomKept
  <2> QED BY <2>1 DEF AdminTypeOK, IInv, Typed, ServingFits, ScheduledFits, RunningFits, Token
<1> QED BY <1>1, Invariant, RegistryInvariant, PTL

\* server_admin.cpp queued_work: no more callbacks wait for a frame than there is room for, and
\* the count goes down for each exactly once, whether it acts, comes too late or was cancelled.
THEOREM QueueIsCountedAlways == Spec => []QueueIsCounted
<1>1. IInv /\ RoomKept => QueueIsCounted
  BY DEF IInv, ScheduledFits, RoomKept, QueueIsCounted
<1> QED BY <1>1, Invariant, RegistryInvariant, PTL

-----------------------------------------------------------------------------
(* The Server Manager: the inductive invariant *)

AnyPort == Port \union {OtherPort}
Process == [born : 1..births, port : AnyPort, nonce : Job \union {Null},
            by : {"start", "script", "launcher", "other"}]
\* From its claim to its end.
Claimed == {"startScan", "launch", "script", "find", "write", "register", "record", "look", "kill"}
Task == [port : Port, at : Claimed \union {"startClaim", "stopClaim", "deleteScan", "deleteFiles"}, via : Via,
         again : Port \union {Null}, pid : Pid \union {Null}, born : Nat, nonce : Job \union {Null}, targets : SUBSET Pid,
         failed : BOOLEAN]
CardPlaces == [Port -> Port \union {Null}]
LauncherAt == {l \in [at : {"idle", "launch", "write"}, port : Port \union {Null}, pid : Pid \union {Null}] :
                   /\ l.at # "idle" => l.port # Null
                   /\ l.at = "write" => l.pid # Null}
LaunchRecord == [pid : Pid, born : 1..births, instance : Job \union {Null}]

FleetTyped ==
    /\ births \in 0..MaxBirths
    /\ process \in [Pid -> Process \union {Null}]
    /\ coming \subseteq [port : Port, nonce : Job \union {Null}]
    /\ pidFile \in [Port -> Pid \union {Null}]
    /\ record \in [Port -> LaunchRecord \union {Null}]
    /\ busy \subseteq Port /\ cards \in CardPlaces
    /\ status \in [Port -> Status]
    /\ job \in [Job -> Task \union {Null}]
    /\ launcher \in LauncherAt
    /\ clicks \in 0..MaxClicks /\ launches \in 0..MaxLauncher

\* ServerController._busy is held by at most one task of a port.
HoldsClaim(j) == job[j] # Null /\ job[j].at \in Claimed
Exclusive == \A j \in Job : HoldsClaim(j) =>
                /\ job[j].port \in busy
                /\ \A k \in Job : HoldsClaim(k) /\ job[k].port = job[j].port => k = j

\* A process that was created at that time, if it is still there, is the server of that launch.
Owns(i, born, p, nonce) ==
    process[i] # Null /\ process[i].born = born => Serves(i, p) /\ process[i].nonce = nonce
Pinned(t) == t.pid # Null /\ t.born \in 1..births /\ Owns(t.pid, t.born, t.port, t.nonce)

\* What a start has found lasts until it launches, or until it has written its pid and its record.
StartFits ==
    \A j \in Job : job[j] # Null =>
        /\ job[j].at = "launch" => \A i \in Serving(job[j].port) : process[i].by # "start"
        /\ job[j].at \in {"write", "register"} => job[j].pid # Null
        /\ job[j].at = "record" => Pinned(job[j])

\* The numbers of the clicks to come are free.
Unused == \A j \in Job : j >= clicks => job[j] = Null

FleetInv == FleetTyped /\ Exclusive /\ Unused /\ StartFits /\ OneServerPerPort /\ OwnershipIsTrue

-----------------------------------------------------------------------------
(* What a scan of the processes names *)

LEMMA LeastNatural == ASSUME NEW T \in SUBSET Nat, T # {} PROVE \E x \in T : \A y \in T : x <= y
<1>1. IsWellFoundedOn(OpToRel(<, Nat), Nat)
  BY NatLessThanWellFounded
<1>2. \A y, x \in Nat : y < x => <<y, x>> \in OpToRel(<, Nat)
  BY DEF OpToRel
<1>3. PICK R : R = OpToRel(<, Nat)
  OBVIOUS
<1>4. IsWellFoundedOn(R, Nat) /\ \A y, x \in Nat : y < x => <<y, x>> \in R
  BY ONLY <1>1, <1>2, <1>3, Zenon
<1>5. \E x \in T : \A y \in T : ~ (<<y, x>> \in R)
  <2>1. IsWellFoundedOn(R, Nat)
    BY <1>4
  <2>2. T \subseteq Nat
    OBVIOUS
  <2> QED BY ONLY <2>1, <2>2, T # {}, WFMin, Zenon
<1>6. PICK x \in T : \A y \in T : ~ (<<y, x>> \in R)
  BY <1>5
<1>7. \A y \in T : ~(y < x)
  BY ONLY <1>4, <1>6, T \in SUBSET Nat, x \in T
<1> QED BY ONLY <1>7, T \in SUBSET Nat, x \in T

LEMMA OldestServes ==
  ASSUME FleetTyped, NEW p, Serving(p) # {}
  PROVE  Oldest(p) \in Serving(p)
<1> DEFINE T == {process[i].born : i \in Serving(p)}
<1>1. T \in SUBSET Nat /\ T # {}
  <2>1. \A i \in Serving(p) : process[i] \in Process
    BY DEF FleetTyped, Serving, Serves
  <2>2. \A i \in Serving(p) : process[i].born \in Nat
    BY <2>1, FleetAssumption DEF Process, FleetTyped
  <2> QED BY <2>2
<1>2. PICK x \in T : \A y \in T : x <= y
  BY <1>1, LeastNatural
<1>3. PICK i \in Serving(p) : process[i].born = x
  BY <1>2
<1>4. \A k \in Serving(p) : process[i].born <= process[k].born
  BY <1>2, <1>3
<1> QED BY <1>4 DEF Oldest

LEMMA ScanNames ==
  ASSUME FleetTyped, NEW p, NEW complete \in BOOLEAN
  PROVE  /\ Seen(p, complete) \subseteq Pid \union {Null}
         /\ Null \in Seen(p, TRUE) => Serving(p) = {}
<1>1. Serving(p) \subseteq Pid
  BY DEF Serving
<1>2. Serving(p) # {} => Oldest(p) \in Pid /\ Oldest(p) # Null
  BY <1>1, OldestServes, FleetAssumption
<1> QED BY <1>1, <1>2 DEF Seen

-----------------------------------------------------------------------------
(* The claims *)

LEMMA ClaimsKept ==
  ASSUME FleetTyped, Exclusive, NEW j \in Job, job[j] # Null, NEW t \in Task \union {Null},
         job' = [job EXCEPT ![j] = t],
         \/ ~HoldsClaim(j) /\ (t = Null \/ t.at \notin Claimed) /\ busy' = busy
         \/ ~HoldsClaim(j) /\ t \in Task /\ t.port \notin busy /\ busy' = busy \union {t.port}
         \/ HoldsClaim(j) /\ t.at \in Claimed /\ t.port = job[j].port /\ busy' = busy
         \/ HoldsClaim(j) /\ (t = Null \/ t.at \notin Claimed) /\ busy' = busy \ {job[j].port}
  PROVE  Exclusive'
<1>1. job'[j] = t /\ \A k \in Job \ {j} : job'[k] = job[k]
  BY DEF FleetTyped
<1>2. \A k \in Job \ {j} : HoldsClaim(k)' = HoldsClaim(k)
  BY <1>1 DEF HoldsClaim
<1>3. HoldsClaim(j)' = (t # Null /\ t.at \in Claimed)
  BY <1>1 DEF HoldsClaim
<1>4. \A k \in Job \ {j} : HoldsClaim(k)' => job[k].port \in busy' /\ job'[k].port = job[k].port
  BY <1>1, <1>2 DEF Exclusive
<1>5. HoldsClaim(j)' => t.port \in busy' /\ \A k \in Job \ {j} : HoldsClaim(k) => job[k].port # t.port
  <2>1. CASE HoldsClaim(j)
    BY <1>3, <2>1 DEF Exclusive
  <2>2. CASE ~HoldsClaim(j)
    BY <1>3, <2>2 DEF Exclusive
  <2> QED BY <2>1, <2>2
<1> HIDE DEF HoldsClaim
<1>6. \A k, l \in Job \ {j} : HoldsClaim(k)' /\ HoldsClaim(l)' /\ job'[k].port = job'[l].port => k = l
  BY <1>2, <1>4 DEF Exclusive
<1> QED BY <1>1, <1>2, <1>4, <1>5, <1>6 DEF Exclusive

LEMMA TaskStep ==
  ASSUME FleetInv, NEW j \in Job, job[j] # Null, NEW t \in Task \union {Null},
         job' = [job EXCEPT ![j] = t],
         \/ ~HoldsClaim(j) /\ (t = Null \/ t.at \notin Claimed) /\ busy' = busy
         \/ ~HoldsClaim(j) /\ t \in Task /\ t.port \notin busy /\ busy' = busy \union {t.port}
         \/ HoldsClaim(j) /\ t.at \in Claimed /\ t.port = job[j].port /\ busy' = busy
         \/ HoldsClaim(j) /\ (t = Null \/ t.at \notin Claimed) /\ busy' = busy \ {job[j].port},
         t # Null => /\ t.at = "launch" => Serving(t.port) = {}
                     /\ t.at \in {"write", "register"} => t.pid # Null
                     /\ t.at = "record" => Pinned(t),
         UNCHANGED <<process, births, record, status, round, launcher, bounds>>,
         coming' \subseteq [port : Port, nonce : Job \union {Null}],
         pidFile' \in [Port -> Pid \union {Null}],
         cards' \in CardPlaces
  PROVE  FleetInv'
<1>1. Exclusive'
  BY ClaimsKept DEF FleetInv
<1>2. busy' \subseteq Port
  BY DEF FleetInv, FleetTyped, Task
<1>3. job' \in [Job -> Task \union {Null}]
  BY DEF FleetInv, FleetTyped
<1>4. FleetTyped'
  BY <1>2, <1>3 DEF FleetInv, FleetTyped, bounds, Task, Process, LaunchRecord
<1>5. job'[j] = t /\ \A k \in Job \ {j} : job'[k] = job[k]
  BY DEF FleetInv, FleetTyped
<1>6. Unused'
  BY <1>5 DEF FleetInv, Unused, bounds
<1>7. \A p : Serving(p)' = Serving(p)
  BY DEF Serving, Serves
<1>8. StartFits'
  BY <1>5, <1>7 DEF FleetInv, StartFits, Pinned, Owns, Serves
<1>9. OneServerPerPort' /\ OwnershipIsTrue'
  BY <1>7 DEF FleetInv, OneServerPerPort, OwnershipIsTrue, Serves
<1> QED BY <1>1, <1>4, <1>6, <1>8, <1>9 DEF FleetInv

-----------------------------------------------------------------------------
(* Processes *)

LEMMA ProcessEnds ==
  ASSUME FleetInv, births' = births, record' = record, process' \in [Pid -> Process \union {Null}],
         \A i \in Pid : process'[i] # Null => process'[i] = process[i]
  PROVE  /\ \A p : \A i \in Serving(p)' : i \in Serving(p) /\ process'[i] = process[i]
         /\ OneServerPerPort' /\ OwnershipIsTrue'
         /\ \A t \in Task : Pinned(t) => Pinned(t)'
<1>1. \A p : \A i \in Serving(p)' : i \in Serving(p) /\ process'[i] = process[i]
  BY DEF Serving, Serves
<1>2. OneServerPerPort'
  BY <1>1 DEF FleetInv, OneServerPerPort
<1>3. OwnershipIsTrue'
  BY DEF FleetInv, OwnershipIsTrue, Serves, FleetTyped, LaunchRecord
<1>4. \A t \in Task : Pinned(t) => Pinned(t)'
  BY DEF Pinned, Owns, Serves, Task
<1> QED BY <1>1, <1>2, <1>3, <1>4

LEMMA ProcessBorn ==
  ASSUME FleetInv, NEW i \in Pid, NEW p \in AnyPort, NEW nonce \in Job \union {Null},
         NEW by \in {"start", "script", "launcher", "other"}, Create(i, p, nonce, by), record' = record,
         by = "start" => \A k \in Serving(p) : process[k].by # "start"
  PROVE  /\ births' \in 0..MaxBirths /\ process' \in [Pid -> Process' \union {Null}]
         /\ record' \in [Port -> LaunchRecord' \union {Null}]
         /\ \A q : \A k \in Serving(q)' :
             (k = i /\ q = p /\ process'[k].by = by) \/ (k \in Serving(q) /\ process'[k] = process[k])
         /\ OneServerPerPort' /\ OwnershipIsTrue'
         /\ \A t \in Task : Pinned(t) => Pinned(t)'
<1> DEFINE made == [born |-> births + 1, port |-> p, nonce |-> nonce, by |-> by]
<1>1. births \in Nat /\ births' = births + 1 /\ births' \in 0..MaxBirths
  BY FleetAssumption DEF FleetInv, FleetTyped, Create
<1>2. made \in Process' /\ Process \subseteq Process' /\ LaunchRecord \subseteq LaunchRecord'
  BY <1>1 DEF Process, LaunchRecord
<1>3. process[i] = Null /\ process' = [process EXCEPT ![i] = made] /\ process \in [Pid -> Process \union {Null}]
  BY DEF Create, FreePid, FleetInv, FleetTyped
<1>4. made.born = births + 1 /\ made.port = p /\ made.by = by
  OBVIOUS
<1> HIDE DEF made
<1>5. process' \in [Pid -> Process' \union {Null}] /\ process'[i] = made
      /\ \A k \in Pid \ {i} : process'[k] = process[k]
  BY <1>2, <1>3
<1>6. \A q : \A k \in Serving(q)' :
             (k = i /\ q = p /\ process'[k].by = by) \/ (k \in Serving(q) /\ process'[k] = process[k])
  <2> SUFFICES ASSUME NEW q, NEW k \in Pid, process'[k] # Null, process'[k].port = q
               PROVE  \/ k = i /\ q = p /\ process'[k].by = by
                      \/ process[k] # Null /\ process[k].port = q /\ process'[k] = process[k]
    BY DEF Serving, Serves
  <2>1. CASE k = i
    BY <1>4, <1>5, <2>1
  <2>2. CASE k # i
    BY <1>5, <2>2
  <2> QED BY <2>1, <2>2
<1>7. record \in [Port -> LaunchRecord \union {Null}]
  BY DEF FleetInv, FleetTyped
<1>8. record' \in [Port -> LaunchRecord' \union {Null}]
  BY <1>2, <1>7
<1>9. OneServerPerPort'
  BY <1>6 DEF FleetInv, OneServerPerPort
<1>10. ASSUME NEW q \in Port, record[q] # Null, process'[record[q].pid] # Null,
              process'[record[q].pid].born = record[q].born
       PROVE  record[q].pid # i
  BY <1>1, <1>4, <1>5, <1>7, <1>10 DEF LaunchRecord
<1>11. \A q \in Port : record[q] # Null => record[q].pid \in Pid
  BY <1>7 DEF LaunchRecord
<1>12. OwnershipIsTrue'
  BY <1>5, <1>10, <1>11 DEF FleetInv, OwnershipIsTrue, Serves
<1>13. ASSUME NEW t \in Task, Pinned(t) PROVE Pinned(t)'
  <2>1. t.pid \in Pid /\ t.pid # Null /\ t.born \in 1..births /\ t.born \in 1..births'
    BY <1>1, <1>13 DEF Pinned, Task
  <2>2. process'[t.pid] # Null /\ process'[t.pid].born = t.born => t.pid # i
    BY <1>1, <1>4, <1>5, <2>1
  <2> QED BY <1>5, <1>13, <2>1, <2>2 DEF Pinned, Owns, Serves
<1> QED BY <1>1, <1>5, <1>6, <1>8, <1>9, <1>12, <1>13

\* A process that ends or, of another maker, begins disturbs no task.
LEMMA WindowsStep ==
  ASSUME FleetInv, UNCHANGED <<record, busy, job, bounds>>,
         FleetTyped', OneServerPerPort', OwnershipIsTrue',
         \A p : \A i \in Serving(p)' : process'[i].by = "start" => i \in Serving(p) /\ process'[i] = process[i],
         \A t \in Task : Pinned(t) => Pinned(t)'
  PROVE  FleetInv'
<1>1. Exclusive' /\ Unused'
  BY DEF FleetInv, Exclusive, HoldsClaim, Unused, bounds
<1>2. \A j \in Job : job[j] # Null => job[j] \in Task
  BY DEF FleetInv, FleetTyped
<1>3. StartFits'
  BY <1>2 DEF FleetInv, StartFits
<1> QED BY <1>1, <1>3 DEF FleetInv

LEMMA OtherBirth ==
  ASSUME FleetInv, NEW i \in Pid, NEW p \in AnyPort, NEW nonce \in Job \union {Null},
         NEW by \in {"script", "launcher", "other"}, Create(i, p, nonce, by),
         coming' \subseteq coming,
         UNCHANGED <<files, busy, job, cards, status, round, bounds>>,
         launcher' \in LauncherAt
  PROVE  FleetInv'
<1>1. /\ births' \in 0..MaxBirths /\ process' \in [Pid -> Process' \union {Null}]
      /\ record' \in [Port -> LaunchRecord' \union {Null}]
      /\ \A q : \A k \in Serving(q)' :
             (k = i /\ q = p /\ process'[k].by = by) \/ (k \in Serving(q) /\ process'[k] = process[k])
      /\ OneServerPerPort' /\ OwnershipIsTrue'
      /\ \A t \in Task : Pinned(t) => Pinned(t)'
  BY ProcessBorn DEF files
<1>2. FleetTyped'
  BY <1>1 DEF FleetInv, FleetTyped, files, bounds, Task
<1> QED BY <1>1, <1>2, WindowsStep DEF files

-----------------------------------------------------------------------------
(* Tasks *)

LEMMA Advanced ==
  ASSUME FleetInv, NEW j \in Job, job[j] # Null,
         NEW at \in Claimed \union {"startClaim", "stopClaim", "deleteScan", "deleteFiles"}, Goes(j, at)
  PROVE  \E t \in Task : /\ job' = [job EXCEPT ![j] = t]
                         /\ t.at = at /\ t.port = job[j].port /\ t.pid = job[j].pid
<1>1. job[j] \in Task
  BY DEF FleetInv, FleetTyped
<1>2. PICK t : t = [job[j] EXCEPT !.at = at]
  OBVIOUS
<1>3. t \in Task /\ t.at = at /\ t.port = job[j].port /\ t.pid = job[j].pid
  BY <1>1, <1>2 DEF Task
<1>4. job' = [job EXCEPT ![j] = t]
  BY <1>2 DEF Goes
<1> QED BY <1>3, <1>4

LEMMA ClaimKeeps == ASSUME FleetInv, NEW j \in Job, Claim(j) PROVE FleetInv'
<1> DEFINE p == job[j].port
           at == IF At(j, "startClaim") THEN "startScan" ELSE "look"
<1>1. job[j] # Null /\ ~HoldsClaim(j) /\ job[j] \in Task
  BY DEF Claim, At, HoldsClaim, Claimed, FleetInv, FleetTyped
<1>2. CASE Claimable(p)
  <2>1. PICK t \in Task : job' = [job EXCEPT ![j] = t] /\ t.at = at /\ t.port = p
    BY <1>1, <1>2, Advanced DEF Claim, Claimed
  <2>2. p \notin busy /\ busy' = busy \union {p}
    BY <1>2 DEF Claim, Claimable
  <2>3. t.at # "launch" /\ t.at \notin {"write", "register", "record"}
    BY <2>1
  <2> QED BY <1>1, <2>1, <2>2, <2>3, TaskStep DEF Claim, windows, files, FleetInv, FleetTyped
<1>3. CASE ~Claimable(p)
  BY <1>1, <1>3, TaskStep DEF Claim, windows, files, FleetInv, FleetTyped
<1> QED BY <1>2, <1>3

\* A task that ends in a claimed stage gives the port back.
LEMMA EndKeeps ==
  ASSUME FleetInv, NEW j \in Job, HoldsClaim(j), Ends(j), UNCHANGED <<windows, record, cards, status, round, launcher, bounds>>,
         pidFile' \in [Port -> Pid \union {Null}]
  PROVE  FleetInv'
<1>1. job[j] # Null
  BY DEF HoldsClaim
<1>2. job' = [job EXCEPT ![j] = Null] /\ busy' = busy \ {job[j].port}
  BY DEF Ends
<1> QED BY <1>1, <1>2, TaskStep DEF windows, FleetInv, FleetTyped

LEMMA StartScanKeeps == ASSUME FleetInv, NEW j \in Job, StartScan(j) PROVE FleetInv'
<1>1. HoldsClaim(j) /\ job[j] # Null
  BY DEF StartScan, At, HoldsClaim, Claimed
<1>2. CASE Ends(j)
  BY <1>1, <1>2, EndKeeps DEF StartScan, files, FleetInv, FleetTyped
<1>3. CASE /\ Null \in Seen(job[j].port, TRUE)
           /\ Goes(j, IF job[j].via = "direct" THEN "launch" ELSE "script") /\ busy' = busy
  <2>1. Serving(job[j].port) = {}
    BY <1>3, ScanNames DEF FleetInv
  <2>2. PICK t \in Task : job' = [job EXCEPT ![j] = t] /\ t.at \in {"launch", "script"} /\ t.port = job[j].port
    BY <1>1, <1>3, Advanced DEF Claimed
  <2>3. t.at \in Claimed /\ t.at \notin {"write", "register", "record"}
    BY <2>2 DEF Claimed
  <2> QED BY <1>1, <1>3, <2>1, <2>2, <2>3, TaskStep DEF StartScan, windows, files, FleetInv, FleetTyped
<1> QED BY <1>2, <1>3 DEF StartScan

LEMMA LaunchKeeps == ASSUME FleetInv, NEW j \in Job, Launch(j) PROVE FleetInv'
<1>1. HoldsClaim(j) /\ job[j] # Null /\ job[j] \in Task /\ job[j].port \in AnyPort /\ job[j].at = "launch"
  BY DEF Launch, At, HoldsClaim, Claimed, FleetInv, FleetTyped, Task, AnyPort
<1>2. PICK i \in Pid : /\ Create(i, job[j].port, j, "start")
                       /\ job' = [job EXCEPT ![j].at = "write", ![j].pid = i, ![j].nonce = j]
  BY DEF Launch
<1>3. PICK t : t = [job[j] EXCEPT !.at = "write", !.pid = i, !.nonce = j]
  OBVIOUS
<1>4. t \in Task /\ t.at = "write" /\ t.pid = i /\ t.port = job[j].port
  BY <1>1, <1>3 DEF Task, Claimed
<1>5. job' = [job EXCEPT ![j] = t]
  BY <1>2, <1>3 DEF FleetInv, FleetTyped
<1>6. \A k \in Serving(job[j].port) : process[k].by # "start"
  BY <1>1 DEF FleetInv, StartFits
<1>7. /\ births' \in 0..MaxBirths /\ process' \in [Pid -> Process' \union {Null}]
      /\ record' \in [Port -> LaunchRecord' \union {Null}]
      /\ \A q : \A k \in Serving(q)' :
             (k = i /\ q = job[j].port /\ process'[k].by = "start") \/ (k \in Serving(q) /\ process'[k] = process[k])
      /\ OneServerPerPort' /\ OwnershipIsTrue'
      /\ \A u \in Task : Pinned(u) => Pinned(u)'
  BY <1>1, <1>2, <1>6, ProcessBorn DEF Launch, files
<1>8. job' \in [Job -> Task \union {Null}] /\ job'[j] = t /\ \A k \in Job \ {j} : job'[k] = job[k]
  BY <1>4, <1>5 DEF FleetInv, FleetTyped
<1>9. FleetTyped'
  BY <1>7, <1>8 DEF Launch, FleetInv, FleetTyped, files, bounds, Task
<1>10. Exclusive'
  BY <1>1, <1>4, <1>5, ClaimsKept DEF Launch, FleetInv, Claimed
<1>11. Unused'
  BY <1>1, <1>8 DEF Launch, FleetInv, Unused, bounds
<1>12. ASSUME NEW k \in Job, job'[k] # Null
       PROVE  /\ job'[k].at = "launch" => \A l \in Serving(job[k].port)' : process'[l].by # "start"
              /\ job'[k].at \in {"write", "register"} => job'[k].pid # Null
              /\ job'[k].at = "record" => Pinned(job[k])'
  <2>1. CASE k = j
    BY <1>4, <1>8, <2>1, FleetAssumption
  <2>2. CASE k # j
    <3>1. job'[k] = job[k] /\ job[k] # Null /\ job[k] \in Task
      BY <1>8, <1>12, <2>2 DEF FleetInv, FleetTyped
    <3>2. job[k].at = "launch" => job[k].port # job[j].port
      BY <1>1, <2>2, <3>1 DEF FleetInv, Exclusive, HoldsClaim, Claimed
    <3> QED BY <1>7, <3>1, <3>2 DEF FleetInv, StartFits
  <2> QED BY <2>1, <2>2
<1> QED BY <1>7, <1>9, <1>10, <1>11, <1>12 DEF FleetInv, StartFits

LEMMA RunScriptKeeps == ASSUME FleetInv, NEW j \in Job, RunScript(j) PROVE FleetInv'
<1> DEFINE nonce == IF job[j].via = "profile" THEN j ELSE Null
<1>1. HoldsClaim(j) /\ job[j] # Null /\ job[j] \in Task
  BY DEF RunScript, At, HoldsClaim, Claimed, FleetInv, FleetTyped
<1>2. PICK t : t = [job[j] EXCEPT !.at = "find", !.nonce = nonce]
  OBVIOUS
<1>3. t \in Task /\ t.at = "find" /\ t.port = job[j].port
  BY <1>1, <1>2 DEF Task, Claimed
<1>4. job' = [job EXCEPT ![j] = t]
  BY <1>2 DEF RunScript, FleetInv, FleetTyped
<1>5. coming' \subseteq [port : Port, nonce : Job \union {Null}]
  BY <1>1 DEF RunScript, FleetInv, FleetTyped, Task
<1>6. t.at \in Claimed /\ t.at # "launch" /\ t.at \notin {"write", "register", "record"}
  BY <1>3 DEF Claimed
<1> QED BY <1>1, <1>3, <1>4, <1>5, <1>6, TaskStep DEF RunScript, files, FleetInv, FleetTyped

LEMMA FindKeeps == ASSUME FleetInv, NEW j \in Job, Find(j) PROVE FleetInv'
<1>1. HoldsClaim(j) /\ job[j] # Null /\ job[j] \in Task
  BY DEF Find, At, HoldsClaim, Claimed, FleetInv, FleetTyped
<1>2. PICK i \in Pid : i # Null /\ job' = [job EXCEPT ![j].at = "write", ![j].pid = i]
  BY ScanNames DEF Find, FleetInv
<1>3. PICK t : t = [job[j] EXCEPT !.at = "write", !.pid = i]
  OBVIOUS
<1>4. t \in Task /\ t.at = "write" /\ t.pid = i /\ t.port = job[j].port
  BY <1>1, <1>3 DEF Task, Claimed
<1>5. job' = [job EXCEPT ![j] = t]
  BY <1>2, <1>3 DEF FleetInv, FleetTyped
<1>6. t.at \in Claimed /\ t.at # "launch" /\ t.at # "record"
  BY <1>4 DEF Claimed
<1>7. UNCHANGED <<process, births, record, status, round, launcher, bounds, busy, coming, pidFile, cards>>
  BY DEF Find, windows, files
<1>8. /\ coming' \subseteq [port : Port, nonce : Job \union {Null}] /\ cards' \in CardPlaces
      /\ pidFile' \in [Port -> Pid \union {Null}]
  BY <1>7 DEF FleetInv, FleetTyped
<1> QED BY <1>1, <1>2, <1>4, <1>5, <1>6, <1>7, <1>8, TaskStep

LEMMA WritePidKeeps == ASSUME FleetInv, NEW j \in Job, WritePid(j) PROVE FleetInv'
<1>1. HoldsClaim(j) /\ job[j] # Null /\ job[j].pid \in Pid
  BY DEF WritePid, At, HoldsClaim, Claimed, FleetInv, FleetTyped, Task, StartFits
<1>2. pidFile' \in [Port -> Pid \union {Null}]
  BY <1>1 DEF WritePid, FleetInv, FleetTyped
<1>3. CASE Ends(j)
  BY <1>1, <1>2, <1>3, EndKeeps DEF WritePid
<1>4. CASE Goes(j, "register") /\ busy' = busy
  <2>1. PICK t \in Task : job' = [job EXCEPT ![j] = t] /\ t.at = "register" /\ t.port = job[j].port /\ t.pid # Null
    BY <1>1, <1>4, Advanced, FleetAssumption DEF Claimed
  <2>2. t.at \in Claimed /\ t.at # "launch" /\ t.at # "record"
    BY <2>1 DEF Claimed
  <2> QED BY <1>1, <1>2, <1>4, <2>1, <2>2, TaskStep DEF WritePid, windows, FleetInv, FleetTyped
<1> QED BY <1>3, <1>4 DEF WritePid

LEMMA ValidateKeeps == ASSUME FleetInv, NEW j \in Job, Validate(j) PROVE FleetInv'
<1> DEFINE i == job[j].pid
<1>1. HoldsClaim(j) /\ job[j] # Null /\ job[j] \in Task
  BY DEF Validate, At, HoldsClaim, Claimed, FleetInv, FleetTyped
<1>2. i \in Pid /\ i # Null /\ process[i] \in Process
  <2>1. i \in Pid /\ i # Null
    BY <1>1 DEF Validate, At, FleetInv, StartFits, Task
  <2> QED BY <2>1 DEF Validate, Valid, Serves, FleetInv, FleetTyped
<1>3. process[i].born \in 1..births /\ process[i].born \in Nat
  BY <1>2, FleetAssumption DEF Process, FleetInv, FleetTyped
<1>4. PICK t : t = [job[j] EXCEPT !.at = "record", !.born = process[i].born]
  OBVIOUS
<1>5. /\ t \in Task /\ t.at = "record" /\ t.port = job[j].port /\ t.pid = i
      /\ t.born = process[i].born /\ t.nonce = job[j].nonce
  BY <1>1, <1>3, <1>4 DEF Task, Claimed
<1>6. job' = [job EXCEPT ![j] = t]
  BY <1>4 DEF Validate, FleetInv, FleetTyped
<1>7. Pinned(t)
  BY <1>2, <1>3, <1>5 DEF Pinned, Owns, Validate, Valid
<1>8. t.at \in Claimed /\ t.at # "launch" /\ t.at \notin {"write", "register"}
  BY <1>5 DEF Claimed
<1>9. UNCHANGED <<process, births, record, status, round, launcher, bounds, busy, coming, pidFile, cards>>
  BY DEF Validate, windows, files
<1>10. /\ coming' \subseteq [port : Port, nonce : Job \union {Null}] /\ cards' \in CardPlaces
       /\ pidFile' \in [Port -> Pid \union {Null}]
  BY <1>9 DEF FleetInv, FleetTyped
<1> QED BY <1>1, <1>5, <1>6, <1>7, <1>8, <1>9, <1>10, TaskStep

LEMMA RegisterKeeps == ASSUME FleetInv, NEW j \in Job, Register(j) PROVE FleetInv'
<1> DEFINE p == job[j].port
           made == [pid |-> job[j].pid, born |-> job[j].born, instance |-> job[j].nonce]
<1>1. HoldsClaim(j) /\ job[j] # Null /\ job[j] \in Task /\ p \in Port
  BY DEF Register, At, HoldsClaim, Claimed, FleetInv, FleetTyped, Task
<1>2. Pinned(job[j])
  BY <1>1 DEF Register, At, FleetInv, StartFits
<1>3. made \in LaunchRecord
  BY <1>1, <1>2 DEF LaunchRecord, Pinned, Task
<1>4. /\ job' = [job EXCEPT ![j] = Null] /\ busy' = busy \ {p}
      /\ record' = [record EXCEPT ![p] = made]
  BY DEF Register, Ends
<1>5. made.pid = job[j].pid /\ made.born = job[j].born /\ made.instance = job[j].nonce
  OBVIOUS
<1> HIDE DEF made
<1>6. record' \in [Port -> LaunchRecord \union {Null}] /\ record'[p] = made
      /\ \A q \in Port \ {p} : record'[q] = record[q]
  BY <1>1, <1>3, <1>4 DEF FleetInv, FleetTyped
<1>7. Exclusive'
  BY <1>1, <1>4, ClaimsKept DEF FleetInv
<1>8. job' \in [Job -> Task \union {Null}] /\ \A k \in Job : job'[k] # Null => job'[k] = job[k]
  BY <1>4 DEF FleetInv, FleetTyped
<1>9. FleetTyped'
  BY <1>4, <1>6, <1>8 DEF Register, windows, bounds, FleetInv, FleetTyped, Task, Process, LaunchRecord
<1>10. Unused' /\ OneServerPerPort'
  BY <1>8 DEF Register, windows, bounds, FleetInv, Unused, OneServerPerPort, Serving, Serves
<1>11. StartFits'
  BY <1>8 DEF Register, windows, FleetInv, StartFits, Pinned, Owns, Serving, Serves
<1>12. process' = process
  BY DEF Register, windows
<1>13. OwnershipIsTrue'
  BY <1>2, <1>5, <1>6, <1>12 DEF FleetInv, OwnershipIsTrue, Pinned, Owns, Serves
<1> QED BY <1>7, <1>9, <1>10, <1>11, <1>13 DEF FleetInv

LEMMA LookKeeps == ASSUME FleetInv, NEW j \in Job, Look(j) PROVE FleetInv'
<1>1. HoldsClaim(j) /\ job[j] # Null /\ job[j] \in Task /\ job[j].port \in Port
  BY DEF Look, At, HoldsClaim, Claimed, FleetInv, FleetTyped, Task
<1>2. PICK targets \in SUBSET Pid : job' = [job EXCEPT ![j].at = "kill", ![j].targets = targets]
  <2>1. PICK complete \in BOOLEAN : \E seen \in Seen(job[j].port, complete) :
           job' = [job EXCEPT ![j].at = "kill", ![j].targets = {seen, pidFile[job[j].port]} \ {Null}]
    BY Zenon DEF Look
  <2>2. Seen(job[j].port, complete) \subseteq Pid \union {Null}
    BY ScanNames DEF FleetInv
  <2>3. pidFile[job[j].port] \in Pid \union {Null}
    BY <1>1 DEF FleetInv, FleetTyped
  <2>4. PICK seen \in Seen(job[j].port, complete) :
           job' = [job EXCEPT ![j].at = "kill", ![j].targets = {seen, pidFile[job[j].port]} \ {Null}]
    BY <2>1, Zenon
  <2>5. {seen, pidFile[job[j].port]} \ {Null} \in SUBSET Pid
    BY <2>2, <2>3
  <2> QED BY <2>4, <2>5, Zenon
<1>3. PICK t : t = [job[j] EXCEPT !.at = "kill", !.targets = targets]
  OBVIOUS
<1>4. t \in Task /\ t.at = "kill" /\ t.port = job[j].port
  BY <1>1, <1>3 DEF Task, Claimed
<1>5. job' = [job EXCEPT ![j] = t]
  BY <1>2, <1>3 DEF FleetInv, FleetTyped
<1>6. t.at \in Claimed /\ t.at # "launch" /\ t.at \notin {"write", "register", "record"}
  BY <1>4 DEF Claimed
<1>7. UNCHANGED <<process, births, record, status, round, launcher, bounds, busy, coming, pidFile, cards>>
  BY DEF Look, windows, files
<1>8. /\ coming' \subseteq [port : Port, nonce : Job \union {Null}] /\ cards' \in CardPlaces
      /\ pidFile' \in [Port -> Pid \union {Null}]
  BY <1>7 DEF FleetInv, FleetTyped
<1> QED BY <1>1, <1>4, <1>5, <1>6, <1>7, <1>8, TaskStep

LEMMA KillKeeps == ASSUME FleetInv, NEW j \in Job, NEW i \in Pid, Kill(j, i) PROVE FleetInv'
<1>1. HoldsClaim(j) /\ job[j] # Null /\ job[j] \in Task /\ job[j].at = "kill"
  BY DEF Kill, At, HoldsClaim, Claimed, FleetInv, FleetTyped, Task
<1>2. PICK failed \in BOOLEAN : job' = [job EXCEPT ![j].targets = @ \ {i}, ![j].failed = failed]
  <2>1. job' = [job EXCEPT ![j].targets = @ \ {i}] => job' = [job EXCEPT ![j].targets = @ \ {i}, ![j].failed = job[j].failed]
    BY <1>1 DEF FleetInv, FleetTyped, Task
  <2> QED BY <1>1, <2>1 DEF Kill, Task
<1>3. PICK t : t = [job[j] EXCEPT !.targets = @ \ {i}, !.failed = failed]
  OBVIOUS
<1>4. t \in Task /\ t.at = "kill" /\ t.port = job[j].port
  BY <1>1, <1>3 DEF Task, Claimed
<1>5. job' = [job EXCEPT ![j] = t]
  BY <1>2, <1>3 DEF FleetInv, FleetTyped
<1>6. job' \in [Job -> Task \union {Null}] /\ job'[j] = t /\ \A k \in Job \ {j} : job'[k] = job[k]
  BY <1>4, <1>5 DEF FleetInv, FleetTyped
<1>7. process' \in [Pid -> Process \union {Null}] /\ \A k \in Pid : process'[k] # Null => process'[k] = process[k]
  BY DEF Kill, FleetInv, FleetTyped
<1>8. /\ \A p : \A k \in Serving(p)' : k \in Serving(p) /\ process'[k] = process[k]
      /\ OneServerPerPort' /\ OwnershipIsTrue'
      /\ \A u \in Task : Pinned(u) => Pinned(u)'
  BY <1>7, ProcessEnds DEF Kill, files
<1>9. FleetTyped'
  BY <1>6, <1>7 DEF Kill, files, bounds, FleetInv, FleetTyped, Task, Process, LaunchRecord
<1>10. Exclusive'
  BY <1>1, <1>4, <1>5, ClaimsKept DEF Kill, FleetInv, Claimed
<1>11. Unused'
  BY <1>1, <1>6 DEF Kill, FleetInv, Unused, bounds
<1>12. StartFits'
  BY <1>4, <1>6, <1>8 DEF FleetInv, FleetTyped, StartFits
<1> QED BY <1>8, <1>9, <1>10, <1>11, <1>12 DEF FleetInv

LEMMA DropPidKeeps == ASSUME FleetInv, NEW j \in Job, DropPid(j) PROVE FleetInv'
<1>1. HoldsClaim(j) /\ job[j] # Null /\ job[j] \in Task
  BY DEF DropPid, At, HoldsClaim, Claimed, FleetInv, FleetTyped, Task
<1>2. pidFile' \in [Port -> Pid \union {Null}]
  BY DEF DropPid, FleetInv, FleetTyped
<1>3. PICK t : t = [job[j] EXCEPT !.at = "startClaim", !.port = job[j].again, !.again = Null]
  OBVIOUS
<1>4. job[j].again # Null => t \in Task /\ t.at = "startClaim"
  BY <1>1, <1>3 DEF Task
<1>5. (job[j].again # Null /\ job' = [job EXCEPT ![j] = t]) \/ job' = [job EXCEPT ![j] = Null]
  BY <1>3 DEF DropPid
<1>6. t.at = "startClaim" => t.at \notin Claimed /\ t.at # "launch" /\ t.at \notin {"write", "register", "record"}
  BY DEF Claimed
<1>7. CASE job[j].again # Null /\ job' = [job EXCEPT ![j] = t]
  BY <1>1, <1>2, <1>4, <1>6, <1>7, TaskStep DEF DropPid, windows, FleetInv, FleetTyped
<1>8. CASE job' = [job EXCEPT ![j] = Null]
  BY <1>1, <1>2, <1>8, TaskStep DEF DropPid, windows, FleetInv, FleetTyped
<1> QED BY <1>5, <1>7, <1>8

LEMMA DeleteKeeps == ASSUME FleetInv, NEW j \in Job, DeleteScan(j) \/ DeleteFiles(j) PROVE FleetInv'
<1>1. ~HoldsClaim(j) /\ job[j] # Null /\ job[j] \in Task
  BY DEF DeleteScan, DeleteFiles, At, HoldsClaim, Claimed, FleetInv, FleetTyped
<1>2. pidFile' \in [Port -> Pid \union {Null}] /\ cards' \in CardPlaces
  BY DEF DeleteScan, DeleteFiles, files, FleetInv, FleetTyped, CardPlaces
<1>3. UNCHANGED <<windows, record, busy, status, round, launcher, bounds>>
  BY DEF DeleteScan, DeleteFiles, files
<1>4. CASE Goes(j, "deleteFiles")
  <2>1. PICK t \in Task : job' = [job EXCEPT ![j] = t] /\ t.at = "deleteFiles"
    BY <1>1, <1>4, Advanced
  <2>2. t.at \notin Claimed /\ t.at # "launch" /\ t.at \notin {"write", "register", "record"}
    BY <2>1 DEF Claimed
  <2> QED BY <1>1, <1>2, <1>3, <2>1, <2>2, TaskStep DEF windows, FleetInv, FleetTyped
<1>5. CASE job' = [job EXCEPT ![j] = Null]
  BY <1>1, <1>2, <1>3, <1>5, TaskStep DEF windows, FleetInv, FleetTyped
<1> QED BY <1>4, <1>5 DEF DeleteScan, DeleteFiles

LEMMA BeginKeeps ==
  ASSUME FleetInv, NEW j \in Job, NEW p \in Port, NEW at \in {"startClaim", "stopClaim", "deleteScan"},
         NEW via \in Via, NEW again \in Port \union {Null}, Begin(j, p, at, via, again),
         cards' \in CardPlaces
  PROVE  FleetInv'
<1> DEFINE t == [port |-> p, at |-> at, via |-> via, again |-> again,
                 pid |-> Null, born |-> 0, nonce |-> Null, targets |-> {}, failed |-> FALSE]
<1>1. t \in Task /\ t.at \notin Claimed /\ t.at \notin {"launch", "write", "register", "record"}
  BY DEF Task, Claimed
<1>2. job' = [job EXCEPT ![j] = t] /\ j = clicks
  BY DEF Begin
<1> HIDE DEF t
<1>3. /\ job' \in [Job -> Task \union {Null}] /\ job'[j] = t /\ job[j] = Null
      /\ \A k \in Job \ {j} : job'[k] = job[k]
  BY <1>1, <1>2, FleetAssumption DEF FleetInv, FleetTyped, Unused, Job
<1>4. clicks' = clicks + 1 /\ clicks' \in 0..MaxClicks
  BY <1>2, FleetAssumption DEF Begin, Job, FleetInv, FleetTyped
<1>5. FleetTyped'
  BY <1>3, <1>4 DEF Begin, windows, files, FleetInv, FleetTyped, Task, Process, LaunchRecord
<1>6. HoldsClaim(j)' = FALSE /\ \A k \in Job \ {j} : HoldsClaim(k)' = HoldsClaim(k)
  BY <1>1, <1>3 DEF HoldsClaim
<1>7. Exclusive'
  BY <1>3, <1>6 DEF Begin, FleetInv, Exclusive
<1>8. Unused'
  BY <1>2, <1>3, <1>4, FleetAssumption DEF FleetInv, FleetTyped, Unused, Job
<1>9. StartFits'
  BY <1>1, <1>3 DEF Begin, windows, FleetInv, StartFits, Pinned, Owns, Serving, Serves
<1>10. OneServerPerPort' /\ OwnershipIsTrue'
  BY DEF Begin, windows, files, FleetInv, OneServerPerPort, OwnershipIsTrue, Serving, Serves
<1> QED BY <1>5, <1>7, <1>8, <1>9, <1>10 DEF FleetInv

-----------------------------------------------------------------------------
(* The invariant holds *)

\* The poll and the cards of the ports.
LEMMA CardsKeep ==
  ASSUME FleetInv, UNCHANGED <<windows, files, busy, job, launcher, bounds>>,
         cards' \in CardPlaces, status' \in [Port -> Status]
  PROVE  FleetInv'
<1>1. FleetTyped'
  BY DEF windows, files, bounds, FleetInv, FleetTyped, Task, Process, LaunchRecord
<1> QED BY <1>1 DEF windows, files, bounds, FleetInv, Exclusive, HoldsClaim, Unused, StartFits, Pinned, Owns,
                    OneServerPerPort, OwnershipIsTrue, Serving, Serves

LEMMA LauncherKeeps ==
  ASSUME FleetInv, (\E p \in Port : LauncherStops(p)) \/ LauncherLaunches \/ LauncherWritesPid
  PROVE  FleetInv'
<1>1. ASSUME NEW p \in Port, LauncherStops(p) PROVE FleetInv'
  <2>1. process' \in [Pid -> Process \union {Null}] /\ \A i \in Pid : process'[i] # Null => process'[i] = process[i]
    BY <1>1 DEF LauncherStops, FleetInv, FleetTyped
  <2>2. births' = births /\ record' = record
    BY <1>1 DEF LauncherStops
  <2>3. /\ \A q : \A i \in Serving(q)' : i \in Serving(q) /\ process'[i] = process[i]
        /\ OneServerPerPort' /\ OwnershipIsTrue'
        /\ \A t \in Task : Pinned(t) => Pinned(t)'
    BY <2>1, <2>2, ProcessEnds
  <2>4. launcher' \in LauncherAt
    BY <1>1, FleetAssumption DEF LauncherStops, LauncherAt
  <2>5. launches' \in 0..MaxLauncher
    BY <1>1, FleetAssumption DEF LauncherStops, FleetInv, FleetTyped
  <2>6. FleetTyped'
    BY <1>1, <2>1, <2>4, <2>5 DEF LauncherStops, FleetInv, FleetTyped, Task, Process, LaunchRecord
  <2>7. Exclusive' /\ Unused'
    BY <1>1 DEF LauncherStops, FleetInv, Exclusive, HoldsClaim, Unused
  <2>8. StartFits'
    BY <1>1, <2>3 DEF LauncherStops, FleetInv, FleetTyped, StartFits
  <2> QED BY <2>3, <2>6, <2>7, <2>8 DEF FleetInv
<1>2. CASE LauncherLaunches
  <2>1. PICK i \in Pid : Create(i, launcher.port, Null, "launcher") /\ launcher' = [launcher EXCEPT !.at = "write", !.pid = i]
    BY <1>2 DEF LauncherLaunches
  <2>2. launcher \in LauncherAt /\ launcher.at = "launch"
    BY <1>2 DEF LauncherLaunches, FleetInv, FleetTyped
  <2>3. launcher.port \in AnyPort
    BY <2>2 DEF AnyPort, LauncherAt
  <2>4. launcher' \in LauncherAt
    BY <2>1, <2>2, FleetAssumption DEF LauncherAt
  <2> QED BY <1>2, <2>1, <2>3, <2>4, OtherBirth DEF LauncherLaunches
<1>3. CASE LauncherWritesPid
  <2>1. launcher' \in LauncherAt /\ pidFile' \in [Port -> Pid \union {Null}]
    BY <1>3 DEF LauncherWritesPid, LauncherAt, FleetInv, FleetTyped
  <2>2. FleetTyped'
    BY <1>3, <2>1 DEF LauncherWritesPid, windows, bounds, FleetInv, FleetTyped, Task, Process, LaunchRecord
  <2> QED BY <1>3, <2>2 DEF LauncherWritesPid, windows, bounds, FleetInv, Exclusive, HoldsClaim, Unused, StartFits,
                            Pinned, Owns, OneServerPerPort, OwnershipIsTrue, Serving, Serves
<1> QED BY <1>1, <1>2, <1>3

LEMMA ExitKeeps == ASSUME FleetInv, NEW i \in Pid, Exit(i) PROVE FleetInv'
<1>1. process' \in [Pid -> Process \union {Null}] /\ \A k \in Pid : process'[k] # Null => process'[k] = process[k]
  BY DEF Exit, FleetInv, FleetTyped
<1>2. /\ \A p : \A k \in Serving(p)' : k \in Serving(p) /\ process'[k] = process[k]
      /\ OneServerPerPort' /\ OwnershipIsTrue'
      /\ \A t \in Task : Pinned(t) => Pinned(t)'
  BY <1>1, ProcessEnds DEF Exit, files
<1>3. FleetTyped'
  BY <1>1 DEF Exit, files, bounds, FleetInv, FleetTyped, Task, Process, LaunchRecord
<1> QED BY <1>2, <1>3, WindowsStep DEF Exit, files

LEMMA FleetInvStep == FleetInv /\ [FleetNext]_fleetVars => FleetInv'
<1> SUFFICES ASSUME FleetInv, [FleetNext]_fleetVars PROVE FleetInv'
  OBVIOUS
<1>1. ASSUME NEW i \in Pid, Exit(i) PROVE FleetInv'
  BY <1>1, ExitKeeps
<1>2. ASSUME NEW i \in Pid, OtherStarts(i) PROVE FleetInv'
  <2>1. OtherPort \in AnyPort
    BY DEF AnyPort
  <2> QED BY <1>2, <2>1, OtherBirth DEF OtherStarts, FleetInv, FleetTyped
<1>3. ASSUME NEW i \in Pid, NEW l \in coming, ComesUp(l, i) PROVE FleetInv'
  <2>1. l.port \in AnyPort /\ l.nonce \in Job \union {Null}
    BY DEF AnyPort, FleetInv, FleetTyped
  <2> QED BY <1>3, <2>1, OtherBirth DEF ComesUp, FleetInv, FleetTyped
<1>4. ASSUME NEW j \in Job, NEW p \in Port,
             ClickStart(j, p) \/ ClickStop(j, p) \/ ClickDelete(j, p) \/ \E q \in Port : ClickRestart(j, p, q)
      PROVE  FleetInv'
  <2>1. cards \in CardPlaces
    BY DEF FleetInv, FleetTyped
  <2>2. ASSUME NEW q \in Port, ClickRestart(j, p, q) PROVE FleetInv'
    <3>1. cards' \in CardPlaces
      BY <2>1, <2>2 DEF ClickRestart, CardPlaces
    <3> QED BY <2>2, <3>1, BeginKeeps DEF ClickRestart
  <2>3. ASSUME ClickStart(j, p) \/ ClickStop(j, p) \/ ClickDelete(j, p) PROVE FleetInv'
    BY <2>1, <2>3, BeginKeeps DEF ClickStart, ClickStop, ClickDelete, Via
  <2> QED BY <1>4, <2>2, <2>3
<1>5. ASSUME NEW j \in Job, StartFails(j) PROVE FleetInv'
  BY <1>5, EndKeeps DEF StartFails, At, HoldsClaim, Claimed, files, FleetInv, FleetTyped
<1>6. ASSUME NEW j \in Job, NEW i \in Pid, Kill(j, i) PROVE FleetInv'
  BY <1>6, KillKeeps
<1>7. ASSUME NEW j \in Job,
             \/ Claim(j) \/ StartScan(j) \/ Launch(j) \/ RunScript(j) \/ Find(j) \/ WritePid(j)
             \/ Validate(j) \/ Register(j) \/ Look(j) \/ DropPid(j) \/ DeleteScan(j) \/ DeleteFiles(j)
      PROVE  FleetInv'
  BY <1>7, ClaimKeeps, StartScanKeeps, LaunchKeeps, RunScriptKeeps, FindKeeps, WritePidKeeps, ValidateKeeps,
     RegisterKeeps, LookKeeps, DropPidKeeps, DeleteKeeps
<1>8. CASE Poll
  <2>1. status' \in [Port -> Status]
    BY <1>8 DEF Poll, PollScan, PollHears, Apply, PollFails, Applied, Gone, Status, FleetInv, FleetTyped
  <2>2. cards' \in CardPlaces
    BY <1>8 DEF Poll, PollScan, PollHears, Apply, PollFails, CardPlaces, FleetInv, FleetTyped
  <2> QED BY <1>8, <2>1, <2>2, CardsKeep DEF Poll, PollScan, PollHears, Apply, PollFails
<1>9. CASE (\E p \in Port : LauncherStops(p)) \/ LauncherLaunches \/ LauncherWritesPid
  BY <1>9, LauncherKeeps
<1>10. CASE UNCHANGED fleetVars
  BY <1>10, CardsKeep DEF fleetVars, FleetInv, FleetTyped
<1> QED BY <1>1, <1>2, <1>3, <1>4, <1>5, <1>6, <1>7, <1>8, <1>9, <1>10 DEF FleetNext

LEMMA FleetInvInit == FleetInit => FleetInv
<1> SUFFICES ASSUME FleetInit PROVE FleetInv
  OBVIOUS
<1>1. FleetTyped
  BY FleetAssumption DEF FleetInit, FleetTyped, Status, CardPlaces, LauncherAt
<1> QED BY <1>1 DEF FleetInit, FleetInv, Exclusive, HoldsClaim, Unused, StartFits, OneServerPerPort, OwnershipIsTrue, Serving, Serves

LEMMA FleetInvariant == FleetSpec => []FleetInv
BY FleetInvInit, FleetInvStep, PTL DEF FleetSpec

-----------------------------------------------------------------------------
(* What follows *)

\* Every variable of the Manager, its files and its tasks keeps its type.
THEOREM TypeCorrect == FleetSpec => []TypeOK
<1>1. FleetInv => TypeOK
  BY DEF FleetInv, FleetTyped, TypeOK, CardPlaces, Process, Task
<1> QED BY <1>1, FleetInvariant, PTL

\* ServerController.cs _busy and the scan: the Manager's own launches never put two
\* servers on a port, whatever starts, restarts, deletes, crashes and the launcher do.
THEOREM OneServerPerPortAlways == FleetSpec => []OneServerPerPort
<1>1. FleetInv => OneServerPerPort
  BY DEF FleetInv
<1> QED BY <1>1, FleetInvariant, PTL

\* ManagedServerOwnershipStore.cs: a record names the server of that launch on that
\* port, or a process that is gone, however often its pid was used again.
THEOREM OwnershipIsTrueAlways == FleetSpec => []OwnershipIsTrue
<1>1. FleetInv => OwnershipIsTrue
  BY DEF FleetInv
<1> QED BY <1>1, FleetInvariant, PTL
=============================================================================
