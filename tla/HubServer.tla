------------------------------ MODULE HubServer ------------------------------
(***************************************************************************)
(* The Hub as its faces see it, crates/fleet-hub/src/server.rs: mutations  *)
(* run one at a time under the store lock, and then publish the snapshot   *)
(* and broadcast their events in one critical section; a face subscribes   *)
(* in one critical section of the same lock, and a task per connection     *)
(* moves its backlog to the socket.  At the other end of the socket is the *)
(* host's link, crates/fleet-host/src/hub_client.rs, and its reducer.      *)
(* Beside it runs `fleet ls`, crates/fleet-cli/src/main.rs, on a stream    *)
(* that carries the same: one process for each connection.                 *)
(*                                                                         *)
(* The store is MergeEngine here.  A delta whose append fails leaves it as *)
(* it was, so that is no step; a GC pass whose append fails has already    *)
(* removed its earlier victims.  The grace and the ttl are HubStore's: any *)
(* dead run and any session may be a victim of a pass.                     *)
(***************************************************************************)
EXTENDS FaceModel

CONSTANTS
  Starts,      \* the projections the Hub may have replayed when it starts
  Faces,       \* the connections of faces
  RunInputs,   \* the [state, urgency] pairs a run is upserted with
  Commands,    \* the face commands given, of "mute", "unmute", "solo", "focus"
  Faults,      \* what the environment may do, of "append", "drop"
  Capacity,    \* BROADCAST_CAPACITY: the events a backlog holds
  Room,        \* the frames a socket buffers before a send has to wait
  MaxCommits   \* bound on the mutations; the passes of the GC are not bounded

\* A log is finite, and its replay leaves the order and the rollups in place.
ASSUME ServerConstants ==
  /\ \A e \in Starts :
       /\ e \in Engine /\ Ordered(e) /\ IsFiniteSet(Present(e))
       /\ \A s \in Present(e) : recompute_rollups(e.sessions[s]) = e.sessions[s]
  /\ RunInputs \subseteq [state : State, urgency : Urgency]
  /\ Capacity \in Nat \ {0} /\ Room \in Nat \ {0}
  /\ MaxCommits \in Nat

VARIABLES
  engine,     \* the store's projection
  holder,     \* who holds the store lock: nobody, a "delta" or a "gc" pass
  outbox,     \* the events the holder will broadcast
  published,  \* Publish.snapshot
  link,       \* whether each face's connection is "up" (subscribed) or "down"
  backlog,    \* each subscription's unread part of the broadcast channel
  wire,       \* the frames on each socket
  lagged,     \* history: the subscription missed a delta, overwritten unread or never sent
  model,      \* each face's InboxModel
  table,      \* the CliState of the `fleet ls` on each connection
  commits,    \* the mutations so far
  found       \* history: the store as the holder of the lock found it

store == <<engine, holder, outbox, commits, found>>
faces == <<link, backlog, wire, lagged, model, table>>
vars  == <<store, published, faces>>

Init ==
  /\ engine \in Starts
  /\ holder = "nobody"
  /\ outbox = <<>>
  /\ published = engine
  /\ link    = [f \in Faces |-> "down"]
  /\ backlog = [f \in Faces |-> <<>>]
  /\ wire    = [f \in Faces |-> <<>>]
  /\ lagged  = [f \in Faces |-> FALSE]
  /\ model   = [f \in Faces |-> EmptyEngine]
  /\ table   = [f \in Faces |-> CliState_new]
  /\ commits = 0
  /\ found = engine

-----------------------------------------------------------------------------
(* Mutations: f in commit, under the store lock, off the async worker.     *)

TakeLock(kind) ==
  /\ holder = "nobody"
  /\ holder' = kind
  /\ found' = engine
  /\ UNCHANGED <<published, faces>>

Delta(after, events) ==
  /\ TakeLock("delta")
  /\ commits < MaxCommits
  /\ commits' = commits + 1
  /\ engine' = after
  /\ outbox' = events

InputRuns == {[state |-> i.state, urgency |-> i.urgency, updated_at |-> 0] : i \in RunInputs}

\* The reporter's session, with the Hub's own fields where it is known already.
Registered(eng, id, runs) ==
  IF id \in Present(eng) THEN [eng.sessions[id] EXCEPT !.runs = runs]
  ELSE [runs |-> runs, rollup_state |-> "idle", rollup_urgency |-> "none",
        muted |-> FALSE, soloed |-> FALSE, unread |-> FALSE, updated_at |-> 0]

SessionUpsert(id, runs) ==
  LET after == upsert_session(engine, id, Registered(engine, id, runs))
  IN  Delta(after, session_upsert_events(after, id))

\* A reporter's session.remove and a face's dismiss are one mutation.
SessionRemove(id) ==
  LET after == remove_session(engine, id)
  IN  /\ id \in Present(engine)
      /\ Delta(after, session_remove_events(engine, after, id))

RunUpsert(id, rid, run) ==
  LET after == upsert_run(engine, id, rid, run)
  IN  /\ id \in Present(engine)
      /\ Delta(after, run_upsert_events(after, id, rid))

RunRemove(id, rid) ==
  LET after == remove_run(engine, id, rid)
  IN  /\ HasRun(engine, id, rid)
      /\ Delta(after, run_remove_events(after, id, rid))

\* A command that changes nothing commits no event and the snapshot as it is.
FlagCommand(after) == Delta(after, updated_events_for(after, Changed(engine, after)))

Mute(id)   == "mute"   \in Commands /\ FlagCommand(apply_mute(engine, id))
Unmute(id) == "unmute" \in Commands /\ FlagCommand(apply_unmute(engine, id))
Solo(id)   == "solo"   \in Commands /\ FlagCommand(apply_solo(engine, id))
Focus(id)  == "focus"  \in Commands /\ FlagCommand(apply_focus(engine, id))

gc == TakeLock("gc") /\ UNCHANGED <<engine, outbox, commits>>

reap_dead(id, rid) ==
  LET after == remove_run(engine, id, rid)
  IN  /\ holder = "gc"
      /\ HasRun(engine, id, rid) /\ engine.sessions[id].runs[rid].state = "dead"
      /\ engine' = after
      /\ outbox' = outbox \o run_remove_events(after, id, rid)
      /\ UNCHANGED <<holder, commits, found, published, faces>>

sweep_expired_sessions(id) ==
  LET after == remove_session(engine, id)
  IN  /\ holder = "gc"
      /\ id \in Present(engine)
      /\ engine' = after
      /\ outbox' = outbox \o session_remove_events(engine, after, id)
      /\ UNCHANGED <<holder, commits, found, published, faces>>

\* An append of the pass fails: its ? drops the events of the earlier victims.
GcFails ==
  /\ "append" \in Faults
  /\ holder = "gc"
  /\ holder' = "nobody"
  /\ outbox' = <<>>
  /\ found' = engine
  /\ UNCHANGED <<engine, commits, published, faces>>

\* The channel keeps the last Capacity events a receiver has not read.
KeepLast(q) == SubSeq(q, Len(q) - Capacity + 1, Len(q))

Receives(f) == backlog[f] \o outbox

\* The broadcast to every receiver, and the end of the commit.
Broadcast ==
  /\ holder' = "nobody"
  /\ outbox' = <<>>
  /\ backlog' = [f \in Faces |->
       IF link[f] = "down" THEN <<>>
       ELSE IF Len(Receives(f)) <= Capacity THEN Receives(f) ELSE KeepLast(Receives(f))]
  /\ lagged' = [f \in Faces |->
       lagged[f] \/ (link[f] = "up" /\ (Len(Receives(f)) > Capacity \/ found # published))]
  /\ found' = engine
  /\ UNCHANGED <<engine, commits, link, wire, model, table>>

\* A faulty publish that keeps the snapshot if there is nothing to broadcast.
PublishIfEvents ==
  /\ holder # "nobody"
  /\ published' = IF outbox = <<>> THEN published ELSE engine
  /\ Broadcast

\* The publish section of commit: snapshot and broadcast in one step.
Publish ==
  /\ holder # "nobody"
  /\ published' = engine
  /\ Broadcast

-----------------------------------------------------------------------------
(* Connections.                                                            *)

\* `fleet ls` connects once, subscribes at once and begins with an empty table.
connect(f) == table' = [table EXCEPT ![f] = CliState_new]

\* One turn of its loop: it applies the event, and prints what is then there.
cmd_ls(f) == table' = [table EXCEPT ![f] = CliState_apply(@, Head(wire[f]))]

\* A faulty subscribe that reads the snapshot from the store.
SubscribeReadsStore(f) ==
  /\ link[f] = "down"
  /\ link' = [link EXCEPT ![f] = "up"]
  /\ wire' = [wire EXCEPT ![f] = <<Snapshot(engine)>>]
  /\ lagged' = [lagged EXCEPT ![f] = FALSE]
  /\ connect(f)
  /\ UNCHANGED <<store, published, backlog, model>>

\* A connection and its subscribe: snapshot and receiver in one section, and
\* the snapshot is the first frame.
Subscribe(f) ==
  /\ link[f] = "down"
  /\ link' = [link EXCEPT ![f] = "up"]
  /\ wire' = [wire EXCEPT ![f] = <<Snapshot(published)>>]
  /\ lagged' = [lagged EXCEPT ![f] = FALSE]
  /\ connect(f)
  /\ UNCHANGED <<store, published, backlog, model>>

forward_broadcast(f) ==
  /\ backlog[f] # <<>>
  /\ Len(wire[f]) < Room
  /\ wire' = [wire EXCEPT ![f] = Append(@, Head(backlog[f]))]
  /\ backlog' = [backlog EXCEPT ![f] = Tail(@)]
  /\ UNCHANGED <<store, published, link, lagged, model, table>>

Receive(f) ==
  /\ wire[f] # <<>>
  /\ model' = [model EXCEPT ![f] = InboxModel_apply(@, Head(wire[f]))]
  /\ cmd_ls(f)
  /\ wire' = [wire EXCEPT ![f] = Tail(@)]
  /\ UNCHANGED <<store, published, link, backlog, lagged>>

\* The link breaks; what is on the wire is lost.  The host keeps its model and
\* `fleet ls` ends, with the table on the terminal.
Disconnect(f) ==
  /\ "drop" \in Faults
  /\ link[f] = "up"
  /\ link' = [link EXCEPT ![f] = "down"]
  /\ backlog' = [backlog EXCEPT ![f] = <<>>]
  /\ wire' = [wire EXCEPT ![f] = <<>>]
  /\ UNCHANGED <<store, published, lagged, model, table>>

Next ==
  \/ \E id \in SessionIds, runs \in [RunIds -> InputRuns \cup {Absent}] : SessionUpsert(id, runs)
  \/ \E id \in SessionIds : SessionRemove(id)
  \/ \E id \in SessionIds, rid \in RunIds, run \in InputRuns : RunUpsert(id, rid, run)
  \/ \E id \in SessionIds, rid \in RunIds : RunRemove(id, rid)
  \/ \E id \in SessionIds : Mute(id)
  \/ \E id \in SessionIds : Unmute(id)
  \/ \E id \in SessionIds : Solo(id)
  \/ \E id \in SessionIds : Focus(id)
  \/ gc
  \/ \E id \in SessionIds, rid \in RunIds : reap_dead(id, rid)
  \/ \E id \in SessionIds : sweep_expired_sessions(id)
  \/ GcFails
  \/ Publish
  \/ \E f \in Faces : Subscribe(f)
  \/ \E f \in Faces : forward_broadcast(f)
  \/ \E f \in Faces : Receive(f)
  \/ \E f \in Faces : Disconnect(f)

Spec == Init /\ [][Next]_vars

\* The GC timer keeps firing and not every append fails; every task that can
\* run gets to run; a face reconnects.  Mutations come when they come.
Fairness ==
  /\ WF_vars(gc)
  /\ SF_vars(Publish)
  /\ \A f \in Faces :
       /\ WF_vars(Subscribe(f))
       /\ WF_vars(forward_broadcast(f))
       /\ WF_vars(Receive(f))

FairSpec == Spec /\ Fairness

-----------------------------------------------------------------------------
(* Properties.                                                             *)

\* Every variable holds what its Rust type can hold, and no queue is longer
\* than its bound.
TypeOK ==
  /\ engine \in Engine /\ found \in Engine /\ published \in Engine
  /\ holder \in {"nobody", "delta", "gc"}
  /\ outbox \in Seq(Event)
  /\ link \in [Faces -> {"up", "down"}]
  /\ \A f \in Faces :
       /\ backlog[f] \in Seq(Event) /\ Len(backlog[f]) <= Capacity
       /\ wire[f] \in Seq(Event) /\ Len(wire[f]) <= Room
       /\ model[f] \in Engine /\ table[f] \in [SessionIds -> Session \cup {Absent}]
  /\ lagged \in [Faces -> BOOLEAN]

\* A face's stream is the snapshot at its subscription and every broadcast
\* after that (server.rs 57-61): whatever is under way, what a face shows and
\* what it has still to read add up to what the Hub has published.
StreamLeadsToPublished ==
  \A f \in Faces :
    link[f] = "up" /\ ~lagged[f] =>
      apply_all(model[f], wire[f] \o backlog[f]) = published

\* The events a commit will broadcast turn the store it found into the store
\* it leaves: no change is without the event that tells a face of it.
OutboxLeadsToStore == apply_all(found, outbox) = engine

\* The two reducers, written apart, agree on every event the Hub can send: once
\* the snapshot is in, `fleet ls` shows what the host shows.  They differ where
\* the last run of a session has gone and its session.updated is still to come:
\* the table says idle then, and the host the state of before.
TablesAgree ==
  \A f \in Faces : link[f] = "up" /\ (wire[f] # <<>> => Head(wire[f]).type # "fleet.snapshot") =>
    table[f] = [s \in SessionIds |->
      IF s \in Present(model[f]) THEN recompute_rollups(model[f].sessions[s]) ELSE Absent]

\* Queues within their limits, events that tell all of a commit, and faces that
\* read them alike.
ServerInv == TypeOK /\ OutboxLeadsToStore /\ TablesAgree

\* A failed GC pass leaves the store ahead of what is published, and the next
\* commit, be it one that changes nothing, publishes it.
StoreGetsPublished == []<>(published = engine)

\* A face that stays connected and loses no delta comes to show what is
\* published, once mutations stop coming.
FacesCatchUp ==
  \A f \in Faces : <>[](link[f] = "up" /\ ~lagged[f]) => <>[](model[f] = published)
=============================================================================
