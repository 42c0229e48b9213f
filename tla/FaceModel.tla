------------------------------ MODULE FaceModel ------------------------------
(***************************************************************************)
(* The events the Hub broadcasts (merge.rs) and the reducer every face     *)
(* folds them with, InboxModel of crates/fleet-host-core/src/view.rs.  A   *)
(* face's model has the shape of an engine: a session map and its order.   *)
(* `fleet ls` has a reducer of its own, CliState of                        *)
(* crates/fleet-cli/src/render.rs: a map without an order.                 *)
(*                                                                         *)
(* The added and updated forms of an event are one form here, as they are  *)
(* one arm of the reducer.                                                 *)
(***************************************************************************)
EXTENDS MergeEngine, FiniteSets, Sequences

Snapshot(e)             == [type |-> "fleet.snapshot", inbox |-> e]
SessionUpdated(id, x)   == [type |-> "session.updated", id |-> id, session |-> x]
SessionRemoved(id)      == [type |-> "session.removed", id |-> id]
RunUpdated(id, rid, x)  == [type |-> "run.updated", id |-> id, run_id |-> rid, run |-> x]
RunRemoved(id, rid)     == [type |-> "run.removed", id |-> id, run_id |-> rid]

Event ==
  [type : {"fleet.snapshot"}, inbox : Engine]
    \cup [type : {"session.updated"}, id : SessionIds, session : Session]
    \cup [type : {"session.removed"}, id : SessionIds]
    \cup [type : {"run.updated"}, id : SessionIds, run_id : RunIds, run : AgentRun]
    \cup [type : {"run.removed"}, id : SessionIds, run_id : RunIds]

-----------------------------------------------------------------------------
(* What the Hub broadcasts for a change of the engine from e to f.         *)

\* Where a session comes among ids, in the order of the inbox, and back.
place(f, ids, s) == Cardinality({t \in ids : t = s \/ <<t, s>> \in f.older})

at_place(f, ids, i) == CHOOSE s \in ids : place(f, ids, s) = i

\* One session.updated for each session of ids, in that order.
updated_events_for(f, ids) ==
  [i \in 1..Cardinality(ids) |->
     SessionUpdated(at_place(f, ids, i), f.sessions[at_place(f, ids, i)])]

session_upsert_events(f, id) == <<SessionUpdated(id, f.sessions[id])>>

\* A faulty removal that leaves out the badges it changes.
RemovalEventOnly(e, f, id) == <<SessionRemoved(id)>>

session_remove_events(e, f, id) == <<SessionRemoved(id)>> \o updated_events_for(f, Changed(e, f))

\* A faulty upsert that sends the run and not the session it changes.
RunEventOnly(f, id, rid) == <<RunUpdated(id, rid, f.sessions[id].runs[rid])>>

run_upsert_events(f, id, rid) ==
  <<RunUpdated(id, rid, f.sessions[id].runs[rid]), SessionUpdated(id, f.sessions[id])>>

run_remove_events(f, id, rid) == <<RunRemoved(id, rid), SessionUpdated(id, f.sessions[id])>>

-----------------------------------------------------------------------------
(* The reducer.                                                            *)

\* A face keeps the rolled-up state of a session whose last run has gone.
face_rollups(session) ==
  [session EXCEPT
     !.rollup_state   = IF RunStates(session.runs) = {} THEN @ ELSE rollup_state(session.runs),
     !.rollup_urgency = rollup_urgency(session.runs)]

put(model, id, session) ==
  [sessions |-> [model.sessions EXCEPT ![id] = session],
   older    |-> IF id \in Present(model) THEN model.older
                ELSE model.older \cup {<<x, id>> : x \in Present(model)}]

put_run(model, id, rid, run) ==
  IF id \notin Present(model) THEN model
  ELSE put(model, id, face_rollups([model.sessions[id] EXCEPT !.runs[rid] = run]))

InboxModel_apply(model, ev) ==
  CASE ev.type = "fleet.snapshot"  -> ev.inbox
    [] ev.type = "session.updated" -> put(model, ev.id, ev.session)
    [] ev.type = "session.removed" ->
         [sessions |-> [model.sessions EXCEPT ![ev.id] = Absent],
          older    |-> {p \in model.older : p[1] # ev.id /\ p[2] # ev.id}]
    [] ev.type = "run.updated"     -> put_run(model, ev.id, ev.run_id, ev.run)
    [] ev.type = "run.removed"     -> put_run(model, ev.id, ev.run_id, Absent)

apply_all(model, events) ==
  LET after[k \in 0..Len(events)] ==
        IF k = 0 THEN model ELSE InboxModel_apply(after[k - 1], events[k])
  IN  after[Len(events)]

-----------------------------------------------------------------------------
(* The reducer of `fleet ls`.                                              *)

CliState_new == [s \in SessionIds |-> Absent]

\* The table rolls a session up again, and shows one without runs as idle.
row_run(table, id, rid, run) ==
  IF table[id] = Absent THEN table
  ELSE [table EXCEPT ![id] = recompute_rollups([@ EXCEPT !.runs[rid] = run])]

CliState_apply(table, ev) ==
  CASE ev.type = "fleet.snapshot"  -> ev.inbox.sessions
    [] ev.type = "session.updated" -> [table EXCEPT ![ev.id] = ev.session]
    [] ev.type = "session.removed" -> [table EXCEPT ![ev.id] = Absent]
    [] ev.type = "run.updated"     -> row_run(table, ev.id, ev.run_id, ev.run)
    [] ev.type = "run.removed"     -> row_run(table, ev.id, ev.run_id, Absent)
=============================================================================
