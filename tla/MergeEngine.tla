----------------------------- MODULE MergeEngine -----------------------------
(***************************************************************************)
(* The Hub's in-memory projection of the fleet: the pure operations of     *)
(* crates/fleet-hub/src/merge.rs with the rollups of                       *)
(* crates/fleet-protocol/src/rollup.rs.  There is no state here: every     *)
(* operation maps an engine to the engine the Rust method leaves behind.   *)
(*                                                                         *)
(* An engine is the session map together with the insertion order of its   *)
(* keys, held as the relation "x was inserted before y".  Runs are keyed   *)
(* by run id, because upsert_run replaces in place and appends otherwise,  *)
(* so a session never holds two runs with one id.  Titles, locations,      *)
(* tags and messages are left out: no operation reads them.                *)
(***************************************************************************)
EXTENDS Integers

CONSTANTS
  SessionIds,  \* the session ids reporters register under
  RunIds,      \* the run ids reporters assign
  Absent       \* stands for a missing session, run or mark

State   == {"waiting", "error", "working", "done", "idle", "dead"}
Urgency == {"approval", "question", "idle-done", "none"}

\* An urgency of None and the explicit token "none" are one value: the rollup
\* treats them alike, and the wire shows both as absence.
AgentRun == [state : State, urgency : Urgency, updated_at : Nat]

Runs == [RunIds -> AgentRun \cup {Absent}]

Session == [runs : Runs, rollup_state : State, rollup_urgency : Urgency,
            muted : BOOLEAN, soloed : BOOLEAN, unread : BOOLEAN,
            updated_at : Nat]

Engine == [sessions : [SessionIds -> Session \cup {Absent}],
           older    : SUBSET (SessionIds \X SessionIds)]

\* Absent is none of the values it stands in for.
ASSUME AbsentIsNew == Absent \notin AgentRun \cup Session

NoRuns == [r \in RunIds |-> Absent]

EmptyEngine == [sessions |-> [s \in SessionIds |-> Absent], older |-> {}]

Present(e) == {s \in SessionIds : e.sessions[s] # Absent}

\* The order lists every session that is there exactly once, and no other.
Ordered(e) ==
  /\ e.older \subseteq Present(e) \X Present(e)
  /\ \A s, t \in Present(e) : <<s, t>> \in e.older <=> s # t /\ <<t, s>> \notin e.older
  /\ \A s, t, u \in Present(e) :
       <<s, t>> \in e.older /\ <<t, u>> \in e.older => <<s, u>> \in e.older

-----------------------------------------------------------------------------
(* Rollups: the most urgent state and urgency across a session's runs.     *)

state_rank == [waiting |-> 5, error |-> 4, working |-> 3, done |-> 2, idle |-> 1, dead |-> 0]

urgency_rank == [u \in Urgency |->
  CASE u = "approval" -> 3 [] u = "question" -> 2 [] u = "idle-done" -> 1 [] OTHER -> 0]

MostUrgent(values, rank) ==
  CHOOSE v \in values : \A w \in values : rank[w] <= rank[v]

RunStates(runs) == {runs[r].state : r \in {q \in RunIds : runs[q] # Absent}}

RunUrgencies(runs) == {runs[r].urgency : r \in {q \in RunIds : runs[q] # Absent}}

\* No runs at all is the idle sentinel.
rollup_state(runs) ==
  IF RunStates(runs) = {} THEN "idle" ELSE MostUrgent(RunStates(runs), state_rank)

rollup_urgency(runs) == MostUrgent(RunUrgencies(runs) \cup {"none"}, urgency_rank)

recompute_rollups(session) ==
  [session EXCEPT !.rollup_state   = rollup_state(session.runs),
                  !.rollup_urgency = rollup_urgency(session.runs)]

-----------------------------------------------------------------------------
(* Pings: a session notifies when it waits, is not muted, and no other     *)
(* session is soloed.  The unread badge follows the edges of that.         *)

any_soloed(e) == \E s \in Present(e) : e.sessions[s].soloed

should_notify_session(session, anySoloed) ==
  /\ session.rollup_state = "waiting"
  /\ ~session.muted
  /\ anySoloed => session.soloed

Notifies(e, s) ==
  s \in Present(e) /\ should_notify_session(e.sessions[s], any_soloed(e))

update_unread_for_notify_transition(session, oldNotify, newNotify) ==
  [session EXCEPT !.unread = IF oldNotify = newNotify THEN @ ELSE newNotify]

\* The badges of f after a change from e, for every session at once.
reconcile_unread_from(e, f) ==
  [f EXCEPT !.sessions = [s \in SessionIds |->
     IF s \in Present(f)
     THEN update_unread_for_notify_transition(f.sessions[s], Notifies(e, s), Notifies(f, s))
     ELSE Absent]]

-----------------------------------------------------------------------------
(* Reporter mutations.                                                     *)

upsert_session(e, id, session) ==
  LET any   == any_soloed(e)
      fresh == recompute_rollups(session)
      put   == update_unread_for_notify_transition(
                 fresh, Notifies(e, id), should_notify_session(fresh, any))
  IN  [sessions |-> [e.sessions EXCEPT ![id] = put],
       older    |-> IF id \in Present(e) THEN e.older
                    ELSE e.older \cup {<<x, id>> : x \in Present(e)}]

\* A faulty removal that drops the session and leaves the badges of the others.
RemoveWithoutReconcile(e, id) ==
  [sessions |-> [e.sessions EXCEPT ![id] = Absent],
   older    |-> {p \in e.older : p[1] # id /\ p[2] # id}]

remove_session(e, id) ==
  IF id \notin Present(e) THEN e
  ELSE reconcile_unread_from(e,
         [sessions |-> [e.sessions EXCEPT ![id] = Absent],
          older    |-> {p \in e.older : p[1] # id /\ p[2] # id}])

\* The tail upsert_run and remove_run share: new runs, new rollups, new badge.
WithRuns(e, id, runs) ==
  LET fresh == recompute_rollups([e.sessions[id] EXCEPT !.runs = runs])
  IN  [e EXCEPT !.sessions[id] =
         update_unread_for_notify_transition(
           fresh, Notifies(e, id), should_notify_session(fresh, any_soloed(e)))]

upsert_run(e, id, rid, run) ==
  IF id \notin Present(e) THEN e
  ELSE WithRuns(e, id, [e.sessions[id].runs EXCEPT ![rid] = run])

HasRun(e, id, rid) == id \in Present(e) /\ e.sessions[id].runs[rid] # Absent

remove_run(e, id, rid) ==
  IF ~HasRun(e, id, rid) THEN e
  ELSE WithRuns(e, id, [e.sessions[id].runs EXCEPT ![rid] = Absent])

-----------------------------------------------------------------------------
(* Face commands.  An engine that comes back unchanged is the no-op return. *)

SetFlags(session, muted, soloed) ==
  [session EXCEPT !.muted = muted, !.soloed = soloed]

apply_mute(e, id) ==
  IF id \notin Present(e) \/ (e.sessions[id].muted /\ ~e.sessions[id].soloed) THEN e
  ELSE reconcile_unread_from(e,
         [e EXCEPT !.sessions[id] = SetFlags(e.sessions[id], TRUE, FALSE)])

apply_unmute(e, id) ==
  IF id \notin Present(e) \/ (~e.sessions[id].muted /\ ~e.sessions[id].soloed) THEN e
  ELSE reconcile_unread_from(e,
         [e EXCEPT !.sessions[id] = SetFlags(e.sessions[id], FALSE, FALSE)])

\* A faulty solo that forgets to clear the flag on the other sessions.
SoloKeepsOthers(e, id) ==
  IF id \notin Present(e) THEN e
  ELSE reconcile_unread_from(e,
         [e EXCEPT !.sessions[id] = SetFlags(e.sessions[id], FALSE, TRUE)])

apply_solo(e, id) ==
  IF id \notin Present(e) THEN e
  ELSE reconcile_unread_from(e,
         [e EXCEPT !.sessions = [s \in SessionIds |->
            IF s \notin Present(e) THEN Absent
            ELSE SetFlags(e.sessions[s], e.sessions[s].muted /\ s # id, s = id)]])

apply_focus(e, id) ==
  IF id \in Present(e) /\ e.sessions[id].unread
  THEN [e EXCEPT !.sessions[id].unread = FALSE]
  ELSE e

\* The sessions a change from e to f reports with a session.updated event.
Changed(e, f) == {s \in Present(f) : e.sessions[s] # f.sessions[s]}
=============================================================================
