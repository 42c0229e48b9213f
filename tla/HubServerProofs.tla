--------------------------- MODULE HubServerProofs ---------------------------
(***************************************************************************)
(* What holds of the Hub and its faces for every set of sessions, runs and *)
(* faces, every log the Hub starts from, every length of the queues and    *)
(* every number of commits: the events of a commit turn the store it found *)
(* into the one it leaves, a face's stream leads to what is published, and *)
(* the table of `fleet ls` agrees with the host's model.                   *)
(***************************************************************************)
EXTENDS HubServer, MergeEngineProofs

-----------------------------------------------------------------------------
(* The two reducers.                                                       *)

Table == [SessionIds -> Session \cup {Absent}]

\* What the table of `fleet ls` shows of the host's model m.
Rows(m) ==
  [s \in SessionIds |-> IF s \in Present(m) THEN recompute_rollups(m.sessions[s]) ELSE Absent]

\* What a socket carries: what is broadcast, and snapshots rolled up.
Frame == Sent \cup {ev \in Event : ev.type = "fleet.snapshot" /\ AllRolledUp(ev.inbox)}

\* A rolled-up session is what recomputing makes of it.
LEMMA AlreadyRolledUp ==
  ASSUME NEW x \in Session, RolledUp(x)
  PROVE  recompute_rollups(x) = x
BY DEF recompute_rollups, RolledUp, Session

\* The rows of a model in which one session is put.
LEMMA RowsPut ==
  ASSUME NEW m \in Engine, NEW id \in SessionIds, NEW x \in Session
  PROVE  Rows(put(m, id, x)) = [Rows(m) EXCEPT ![id] = recompute_rollups(x)]
<1>. DEFINE g == put(m, id, x)
<1>1. /\ Present(g) = Present(m) \cup {id}
      /\ g.sessions = [m.sessions EXCEPT ![id] = x]
  <2>1. /\ g \in Engine
        /\ Present(g) = Present(m) \cup {id}
        /\ g.sessions = [m.sessions EXCEPT ![id] = x]
        /\ g.older = IF id \in Present(m) THEN m.older
                     ELSE m.older \cup {<<y, id>> : y \in Present(m)}
    BY PutType
  <2>. HIDE DEF g
  <2>. QED BY <2>1
<1>. HIDE DEF g
<1>2. m.sessions = [s \in SessionIds |-> m.sessions[s]] BY DEF Engine
<1>3. \A s \in SessionIds : g.sessions[s] = IF s = id THEN x ELSE m.sessions[s] BY <1>1, <1>2
<1>4. Rows(g) = [Rows(m) EXCEPT ![id] = recompute_rollups(x)]
  BY <1>1, <1>3 DEF Rows
<1>. QED BY <1>4 DEF g

\* Where the table agrees with the model, it agrees on a change of one run.
LEMMA RowRun ==
  ASSUME NEW m \in Engine, NEW id \in SessionIds, NEW rid \in RunIds,
         NEW run \in AgentRun \cup {Absent}
  PROVE  /\ put_run(m, id, rid, run) \in Engine
         /\ row_run(Rows(m), id, rid, run) = Rows(put_run(m, id, rid, run))
<1>1. CASE id \notin Present(m)
  BY <1>1 DEF put_run, row_run, Rows
<1>2. CASE id \in Present(m)
  <2>. DEFINE x == m.sessions[id]
              y == [x EXCEPT !.runs[rid] = run]
              z == face_rollups(y)
              c == recompute_rollups(x)
  <2>1. x \in Session BY <1>2, PresentType
  <2>2. /\ y \in Session /\ y.runs = [x.runs EXCEPT ![rid] = run]
        /\ z \in Session /\ recompute_rollups(z) = recompute_rollups(y)
    BY <2>1, FaceRolled
  <2>3. put_run(m, id, rid, run) = put(m, id, z) BY <1>2 DEF put_run
  <2>4. c \in Session /\ c.runs = x.runs BY <2>1, Recomputed
  <2>5. c # Absent BY <2>4, AbsentIsNew
  <2>6. Rows(m)[id] = c BY <1>2 DEF Rows
  <2>7. recompute_rollups([c EXCEPT !.runs[rid] = run]) = recompute_rollups(y)
    <3>1. \E a \in State, b \in Urgency :
            c = [x EXCEPT !.rollup_state = a, !.rollup_urgency = b]
      <4>1. x.runs \in Runs BY <2>1 DEF Session
      <4>2. rollup_state(x.runs) \in State /\ rollup_urgency(x.runs) \in Urgency
        BY <4>1, RollupState, RollupUrgency
      <4>. HIDE DEF x
      <4>. QED BY <4>2 DEF recompute_rollups
    <3>. HIDE DEF c, x
    <3>. QED BY <2>1, <3>1 DEF recompute_rollups, Session
  <2>8. row_run(Rows(m), id, rid, run) =
          [Rows(m) EXCEPT ![id] = recompute_rollups([Rows(m)[id] EXCEPT !.runs[rid] = run])]
    BY <2>5, <2>6 DEF row_run
  <2>9. row_run(Rows(m), id, rid, run) = [Rows(m) EXCEPT ![id] = recompute_rollups(z)]
    <3>. HIDE DEF c, z, y
    <3>. QED BY <2>2, <2>6, <2>7, <2>8
  <2>. HIDE DEF z
  <2>10. put(m, id, z) \in Engine BY <2>2, PutType
  <2>. QED BY <2>2, <2>3, <2>9, <2>10, RowsPut
<1>. QED BY <1>1, <1>2

\* The reducers keep their types, and where they agree they go on to agree.
LEMMA Reduced ==
  ASSUME NEW m \in Engine, NEW t \in Table, NEW ev \in Frame
  PROVE  /\ InboxModel_apply(m, ev) \in Engine
         /\ CliState_apply(t, ev) \in Table
         /\ ev.type = "fleet.snapshot" \/ t = Rows(m) =>
              CliState_apply(t, ev) = Rows(InboxModel_apply(m, ev))
<1>0. ev \in Event BY DEF Frame, Sent
<1>1. CASE ev.type = "fleet.snapshot"
  <2>1. ev.inbox \in Engine /\ AllRolledUp(ev.inbox) BY <1>0, <1>1, EventKinds DEF Frame, Sent
  <2>2. InboxModel_apply(m, ev) = ev.inbox /\ CliState_apply(t, ev) = ev.inbox.sessions
    BY <1>1 DEF InboxModel_apply, CliState_apply
  <2>3. ev.inbox.sessions \in Table BY <2>1 DEF Engine, Table
  <2>4. \A s \in Present(ev.inbox) : recompute_rollups(ev.inbox.sessions[s]) = ev.inbox.sessions[s]
    BY <2>1, PresentType, AlreadyRolledUp DEF AllRolledUp
  <2>5. \A s \in SessionIds : Rows(ev.inbox)[s] = ev.inbox.sessions[s]
    BY <2>1, <2>4, PresentType DEF Rows
  <2>6. Rows(ev.inbox) = ev.inbox.sessions BY <2>3, <2>5 DEF Rows, Table
  <2>. QED BY <2>1, <2>2, <2>3, <2>6
<1>2. CASE ev.type = "session.updated"
  <2>1. ev.id \in SessionIds /\ ev.session \in Session /\ RolledUp(ev.session)
    BY <1>0, <1>2, EventKinds DEF Frame, Sent
  <2>2. /\ InboxModel_apply(m, ev) = put(m, ev.id, ev.session)
        /\ CliState_apply(t, ev) = [t EXCEPT ![ev.id] = ev.session]
    BY <1>2 DEF InboxModel_apply, CliState_apply
  <2>3. put(m, ev.id, ev.session) \in Engine BY <2>1, PutType
  <2>4. Rows(put(m, ev.id, ev.session)) = [Rows(m) EXCEPT ![ev.id] = ev.session]
    BY <2>1, RowsPut, AlreadyRolledUp
  <2>5. [t EXCEPT ![ev.id] = ev.session] \in Table BY <2>1 DEF Table
  <2>. QED BY <1>2, <2>2, <2>3, <2>4, <2>5
<1>3. CASE ev.type = "session.removed"
  <2>. DEFINE g == [sessions |-> [m.sessions EXCEPT ![ev.id] = Absent],
                    older    |-> {p \in m.older : p[1] # ev.id /\ p[2] # ev.id}]
  <2>1. ev.id \in SessionIds BY <1>0, <1>3, EventKinds
  <2>2. /\ InboxModel_apply(m, ev) = g
        /\ CliState_apply(t, ev) = [t EXCEPT ![ev.id] = Absent]
    BY <1>3 DEF InboxModel_apply, CliState_apply
  <2>3. g \in Engine /\ Present(g) = Present(m) \ {ev.id} BY <2>1, TakenOut
  <2>4. \A s \in SessionIds \ {ev.id} : g.sessions[s] = m.sessions[s] BY <2>1 DEF Engine
  <2>. HIDE DEF g
  <2>5. Rows(g) = [Rows(m) EXCEPT ![ev.id] = Absent] BY <2>3, <2>4 DEF Rows
  <2>6. [t EXCEPT ![ev.id] = Absent] \in Table BY <2>1 DEF Table
  <2>. QED BY <1>3, <2>2, <2>3, <2>5, <2>6
<1>4. ASSUME NEW run \in AgentRun \cup {Absent}, ev.id \in SessionIds, ev.run_id \in RunIds,
             InboxModel_apply(m, ev) = put_run(m, ev.id, ev.run_id, run),
             CliState_apply(t, ev) = row_run(t, ev.id, ev.run_id, run),
             ev.type # "fleet.snapshot"
      PROVE  /\ InboxModel_apply(m, ev) \in Engine
             /\ CliState_apply(t, ev) \in Table
             /\ t = Rows(m) => CliState_apply(t, ev) = Rows(InboxModel_apply(m, ev))
  <2>1. row_run(t, ev.id, ev.run_id, run) \in Table
    <3>1. CASE t[ev.id] = Absent BY <3>1 DEF row_run
    <3>2. CASE t[ev.id] # Absent
      <4>1. t[ev.id] \in Session BY <1>4, <3>2 DEF Table
      <4>2. [t[ev.id] EXCEPT !.runs[ev.run_id] = run] \in Session BY <1>4, <4>1, FaceRolled
      <4>3. recompute_rollups([t[ev.id] EXCEPT !.runs[ev.run_id] = run]) \in Session
        BY <4>2, Recomputed
      <4>. QED BY <1>4, <3>2, <4>3 DEF row_run, Table
    <3>. QED BY <3>1, <3>2
  <2>. QED BY <1>4, <2>1, RowRun
<1>5. CASE ev.type = "run.updated"
  <2>1. ev.id \in SessionIds /\ ev.run_id \in RunIds /\ ev.run \in AgentRun
    BY <1>0, <1>5, EventKinds
  <2>2. /\ InboxModel_apply(m, ev) = put_run(m, ev.id, ev.run_id, ev.run)
        /\ CliState_apply(t, ev) = row_run(t, ev.id, ev.run_id, ev.run)
    BY <1>5 DEF InboxModel_apply, CliState_apply
  <2>. QED BY <1>4, <1>5, <2>1, <2>2
<1>6. CASE ev.type = "run.removed"
  <2>1. ev.id \in SessionIds /\ ev.run_id \in RunIds BY <1>0, <1>6, EventKinds
  <2>2. /\ InboxModel_apply(m, ev) = put_run(m, ev.id, ev.run_id, Absent)
        /\ CliState_apply(t, ev) = row_run(t, ev.id, ev.run_id, Absent)
    BY <1>6 DEF InboxModel_apply, CliState_apply
  <2>. QED BY <1>4, <1>6, <2>1, <2>2
<1>. QED BY <1>0, <1>1, <1>2, <1>3, <1>5, <1>6, EventKinds

-----------------------------------------------------------------------------
(* The inductive invariant.                                                *)

\* The projections are those of a log, and the events of the commit under way
\* lead from the store it found to the store as it is.
StoreOK ==
  /\ Well(engine) /\ Well(found) /\ Sound(published)
  /\ holder \in {"nobody", "delta", "gc"}
  /\ outbox \in Seq(Sent)
  /\ holder = "nobody" => outbox = <<>>
  /\ OutboxLeadsToStore

QueuesOK ==
  /\ link \in [Faces -> {"up", "down"}] /\ lagged \in [Faces -> BOOLEAN]
  /\ backlog \in [Faces -> Seq(Sent)] /\ wire \in [Faces -> Seq(Frame)]
  /\ model \in [Faces -> Engine] /\ table \in [Faces -> Table]

\* A closed connection carries nothing; an open one carries its snapshot first
\* and only then, and what it has still to bring leads to what is published.
FaceOK(f) ==
  /\ Len(backlog[f]) <= Capacity /\ Len(wire[f]) <= Room
  /\ link[f] = "down" => backlog[f] = <<>> /\ wire[f] = <<>>
  /\ \A i \in 2..Len(wire[f]) : wire[f][i] \in Sent
  /\ link[f] = "up" /\ ~lagged[f] => apply_all(model[f], wire[f] \o backlog[f]) = published
  /\ link[f] = "up" /\ (wire[f] # <<>> => wire[f][1].type # "fleet.snapshot") =>
       table[f] = Rows(model[f])

FacesOK == QueuesOK /\ \A f \in Faces : FaceOK(f)

IInv == StoreOK /\ FacesOK

-----------------------------------------------------------------------------
(* Mutations and the GC keep it.                                           *)

\* A delta whose events tell all of it.
LEMMA DeltaStep ==
  ASSUME StoreOK, NEW after, NEW events, Delta(after, events),
         Well(after), events \in Seq(Sent), apply_all(engine, events) = after
  PROVE  StoreOK'
<1>1. /\ engine' = after /\ outbox' = events /\ found' = engine /\ holder' = "delta"
      /\ published' = published
  BY DEF Delta, TakeLock
<1>. QED BY <1>1 DEF StoreOK, OutboxLeadsToStore

\* The runs that reporters send are runs.
LEMMA InputRunsType == InputRuns \subseteq AgentRun
BY ServerConstants DEF InputRuns, AgentRun

LEMMA SessionUpsertStep ==
  ASSUME StoreOK, NEW id \in SessionIds, NEW runs \in [RunIds -> InputRuns \cup {Absent}],
         SessionUpsert(id, runs)
  PROVE  StoreOK'
<1>. DEFINE x == Registered(engine, id, runs)
            after == upsert_session(engine, id, x)
            events == session_upsert_events(after, id)
<1>1. runs \in Runs BY InputRunsType DEF Runs
<1>2. x \in Session
  <2>1. CASE id \in Present(engine)
    <3>1. engine.sessions[id] \in Session BY <2>1, PresentType DEF StoreOK, Well, Sound
    <3>. QED BY <1>1, <2>1, <3>1 DEF Registered, Session
  <2>2. CASE id \notin Present(engine)
    BY <1>1, <2>2 DEF Registered, Session, State, Urgency
  <2>. QED BY <2>1, <2>2
<1>3. Well(engine) BY DEF StoreOK
<1>4. Delta(after, events) BY DEF SessionUpsert
<1>. HIDE DEF x
<1>5. Well(after) /\ events \in Seq(Sent) /\ apply_all(engine, events) = after
  BY <1>2, <1>3, UpsertTold
<1>. HIDE DEF after, events
<1>. QED BY <1>4, <1>5, DeltaStep

LEMMA SessionRemoveStep ==
  ASSUME StoreOK, NEW id \in SessionIds, SessionRemove(id)
  PROVE  StoreOK'
<1>. DEFINE after == remove_session(engine, id)
            events == session_remove_events(engine, after, id)
<1>1. Well(engine) BY DEF StoreOK
<1>2. id \in Present(engine) /\ Delta(after, events) BY DEF SessionRemove
<1>3. Well(after) /\ events \in Seq(Sent) /\ apply_all(engine, events) = after
  BY <1>1, <1>2, RemoveTold
<1>. HIDE DEF after, events
<1>. QED BY <1>2, <1>3, DeltaStep

LEMMA RunUpsertStep ==
  ASSUME StoreOK, NEW id \in SessionIds, NEW rid \in RunIds, NEW run \in InputRuns,
         RunUpsert(id, rid, run)
  PROVE  StoreOK'
<1>. DEFINE after == upsert_run(engine, id, rid, run)
            events == run_upsert_events(after, id, rid)
<1>1. Well(engine) /\ run \in AgentRun BY InputRunsType DEF StoreOK
<1>2. id \in Present(engine) /\ Delta(after, events) BY DEF RunUpsert
<1>3. Well(after) /\ events \in Seq(Sent) /\ apply_all(engine, events) = after
  BY <1>1, <1>2, UpsertRunTold
<1>. HIDE DEF after, events
<1>. QED BY <1>2, <1>3, DeltaStep

LEMMA RunRemoveStep ==
  ASSUME StoreOK, NEW id \in SessionIds, NEW rid \in RunIds, RunRemove(id, rid)
  PROVE  StoreOK'
<1>. DEFINE after == remove_run(engine, id, rid)
            events == run_remove_events(after, id, rid)
<1>1. Well(engine) BY DEF StoreOK
<1>2. HasRun(engine, id, rid) /\ Delta(after, events) BY DEF RunRemove
<1>3. Well(after) /\ events \in Seq(Sent) /\ apply_all(engine, events) = after
  BY <1>1, <1>2, RemoveRunTold
<1>. HIDE DEF after, events
<1>. QED BY <1>2, <1>3, DeltaStep

\* A command that sets flags or clears a badge.
LEMMA FlagCommandStep ==
  ASSUME StoreOK, NEW after, FlagCommand(after),
         Sound(after), after.older = engine.older, Present(after) = Present(engine)
  PROVE  StoreOK'
<1>. DEFINE events == updated_events_for(after, Changed(engine, after))
<1>1. Well(engine) /\ Delta(after, events) BY DEF StoreOK, FlagCommand
<1>2. Well(after) /\ events \in Seq(Sent) /\ apply_all(engine, events) = after
  BY <1>1, FlagsTold
<1>. HIDE DEF events
<1>. QED BY <1>1, <1>2, DeltaStep

LEMMA FlagStep ==
  ASSUME StoreOK, NEW id \in SessionIds, Mute(id) \/ Unmute(id) \/ Solo(id) \/ Focus(id)
  PROVE  StoreOK'
<1>0. Sound(engine) /\ engine \in Engine BY DEF StoreOK, Well, Sound
<1>1. ASSUME NEW after, FlagCommand(after),
             after = engine \/ \E m, o : Reflagged(engine, after, m, o)
      PROVE  StoreOK'
  <2>1. Sound(after) /\ after.older = engine.older /\ Present(after) = Present(engine)
    BY <1>0, <1>1, ReflaggedSound DEF Reflagged
  <2>. QED BY <1>1, <2>1, FlagCommandStep
<1>2. CASE id \notin Present(engine)
  <2>1. /\ apply_mute(engine, id) = engine /\ apply_unmute(engine, id) = engine
        /\ apply_solo(engine, id) = engine /\ apply_focus(engine, id) = engine
    BY <1>2 DEF apply_mute, apply_unmute, apply_solo, apply_focus
  <2>. QED BY <1>1, <2>1 DEF Mute, Unmute, Solo, Focus
<1>3. CASE id \in Present(engine)
  <2>1. CASE Mute(id)
    <3>1. \E m, o : Reflagged(engine, apply_mute(engine, id), m, o) BY <1>0, <1>3, MuteReflags
    <3>. QED BY <1>1, <2>1, <3>1 DEF Mute
  <2>2. CASE Unmute(id)
    <3>1. \E m, o : Reflagged(engine, apply_unmute(engine, id), m, o) BY <1>0, <1>3, UnmuteReflags
    <3>. QED BY <1>1, <2>2, <3>1 DEF Unmute
  <2>3. CASE Solo(id)
    <3>1. \E m, o : Reflagged(engine, apply_solo(engine, id), m, o) BY <1>0, <1>3, SoloReflags
    <3>. QED BY <1>1, <2>3, <3>1 DEF Solo
  <2>4. CASE Focus(id)
    <3>. DEFINE g == apply_focus(engine, id)
    <3>1. /\ g \in Engine /\ Present(g) = Present(engine) /\ g.older = engine.older
          /\ \A s \in Present(engine) : Alike(g.sessions[s], engine.sessions[s])
      BY <1>0, Focused
    <3>2. Sound(g) BY <1>0, FocusSound
    <3>3. FlagCommand(g) BY <2>4 DEF Focus
    <3>. HIDE DEF g
    <3>. QED BY <3>1, <3>2, <3>3, FlagCommandStep
  <2>. QED BY <2>1, <2>2, <2>3, <2>4
<1>. QED BY <1>2, <1>3

\* One victim of a pass: its events come after those of the victims before it.
LEMMA VictimStep ==
  ASSUME StoreOK, NEW after, NEW events, Well(after), events \in Seq(Sent),
         apply_all(engine, events) = after, holder = "gc",
         engine' = after, outbox' = outbox \o events,
         UNCHANGED <<holder, found, published>>
  PROVE  StoreOK'
<1>1. outbox \in Seq(Sent) /\ apply_all(found, outbox) = engine BY DEF StoreOK, OutboxLeadsToStore
<1>2. outbox \o events \in Seq(Sent) BY <1>1
<1>3. apply_all(found, outbox \o events) = after BY <1>1, AppliedConcat
<1>. QED BY <1>2, <1>3 DEF StoreOK, OutboxLeadsToStore

LEMMA gcStep ==
  ASSUME StoreOK, gc
  PROVE  StoreOK'
<1>1. holder = "nobody" /\ outbox = <<>> BY DEF gc, TakeLock, StoreOK
<1>2. apply_all(engine, <<>>) = engine BY AppliedNone
<1>. QED BY <1>1, <1>2 DEF gc, TakeLock, StoreOK, OutboxLeadsToStore

LEMMA reap_deadStep ==
  ASSUME StoreOK, NEW id \in SessionIds, NEW rid \in RunIds, reap_dead(id, rid)
  PROVE  StoreOK'
<1>. DEFINE after == remove_run(engine, id, rid)
            events == run_remove_events(after, id, rid)
<1>1. Well(engine) BY DEF StoreOK
<1>2. /\ HasRun(engine, id, rid) /\ holder = "gc"
      /\ engine' = after /\ outbox' = outbox \o events
      /\ UNCHANGED <<holder, found, published>>
  BY DEF reap_dead
<1>3. Well(after) /\ events \in Seq(Sent) /\ apply_all(engine, events) = after
  BY <1>1, <1>2, RemoveRunTold
<1>. HIDE DEF after, events
<1>. QED BY <1>2, <1>3, VictimStep

LEMMA sweep_expired_sessionsStep ==
  ASSUME StoreOK, NEW id \in SessionIds, sweep_expired_sessions(id)
  PROVE  StoreOK'
<1>. DEFINE after == remove_session(engine, id)
            events == session_remove_events(engine, after, id)
<1>1. Well(engine) BY DEF StoreOK
<1>2. /\ id \in Present(engine) /\ holder = "gc"
      /\ engine' = after /\ outbox' = outbox \o events
      /\ UNCHANGED <<holder, found, published>>
  BY DEF sweep_expired_sessions
<1>3. Well(after) /\ events \in Seq(Sent) /\ apply_all(engine, events) = after
  BY <1>1, <1>2, RemoveTold
<1>. HIDE DEF after, events
<1>. QED BY <1>2, <1>3, VictimStep

LEMMA GcFailsStep ==
  ASSUME StoreOK, GcFails
  PROVE  StoreOK'
<1>1. apply_all(engine, <<>>) = engine BY AppliedNone
<1>2. /\ holder' = "nobody" /\ outbox' = <<>> /\ found' = engine
      /\ UNCHANGED <<engine, published>>
  BY DEF GcFails
<1>. QED BY <1>1, <1>2 DEF StoreOK, OutboxLeadsToStore

LEMMA PublishStep ==
  ASSUME StoreOK, Publish
  PROVE  StoreOK'
<1>1. apply_all(engine, <<>>) = engine BY AppliedNone
<1>2. /\ holder' = "nobody" /\ outbox' = <<>> /\ found' = engine /\ published' = engine
      /\ UNCHANGED engine
  BY DEF Publish, Broadcast
<1>. QED BY <1>1, <1>2 DEF StoreOK, OutboxLeadsToStore, Well

-----------------------------------------------------------------------------
(* The faces keep theirs.                                                  *)

LEMMA SentAreFrames == Sent \subseteq Frame /\ Seq(Sent) \subseteq Seq(Frame)
<1>1. Sent \subseteq Frame BY DEF Frame
<1>2. ASSUME NEW q \in Seq(Sent) PROVE q \in Seq(Frame)
  <2>1. Len(q) \in Nat /\ q = [i \in 1..Len(q) |-> q[i]] /\ \A i \in 1..Len(q) : q[i] \in Sent
    OBVIOUS
  <2>2. \A i \in 1..Len(q) : q[i] \in Frame BY <1>1, <2>1
  <2>. QED BY <2>1, <2>2
<1>. QED BY <1>1, <1>2

\* A step that leaves the faces and what is published leaves what holds of them.
LEMMA FacesStay ==
  ASSUME FacesOK, UNCHANGED <<published, faces>>
  PROVE  FacesOK'
BY DEF FacesOK, QueuesOK, FaceOK, faces

\* A broadcast adds the commit to every stream, or overwrites what is unread.
LEMMA PublishFaces ==
  ASSUME StoreOK, FacesOK, Publish
  PROVE  FacesOK'
<1>. DEFINE New(f) == IF link[f] = "down" THEN <<>>
                      ELSE IF Len(Receives(f)) <= Capacity THEN Receives(f)
                      ELSE KeepLast(Receives(f))
<1>1. /\ published' = engine /\ UNCHANGED <<link, wire, model, table>>
      /\ backlog' = [f \in Faces |-> New(f)]
      /\ lagged' = [f \in Faces |->
           lagged[f] \/ (link[f] = "up" /\ (Len(Receives(f)) > Capacity \/ found # published))]
  BY DEF Publish, Broadcast
<1>2. outbox \in Seq(Sent) /\ apply_all(found, outbox) = engine BY DEF StoreOK, OutboxLeadsToStore
<1>3. ASSUME NEW f \in Faces
      PROVE  /\ New(f) \in Seq(Sent) /\ Len(New(f)) <= Capacity
             /\ Receives(f) \in Seq(Sent)
  <2>. DEFINE r == Receives(f)
  <2>1. r \in Seq(Sent) /\ Len(r) \in Nat BY <1>2 DEF Receives, FacesOK, QueuesOK
  <2>2. Capacity \in Nat \ {0} BY ServerConstants
  <2>. HIDE DEF r
  <2>3. <<>> \in Seq(Sent) /\ Len(<<>>) = 0 OBVIOUS
  <2>4. CASE Len(r) > Capacity
    <3>. DEFINE a == Len(r) - Capacity + 1
    <3>1. a \in 1..Len(r) BY <2>1, <2>2, <2>4
    <3>2. /\ SubSeq(r, a, Len(r)) \in Seq(Sent)
          /\ Len(SubSeq(r, a, Len(r))) = Len(r) - a + 1
      <4>. HIDE DEF a
      <4>1. Len(r) \in 1..Len(r) + 1 /\ a \in 1..Len(r) + 1 /\ a <= Len(r) BY <2>1, <3>1
      <4>. QED BY <2>1, <4>1
    <3>3. KeepLast(r) \in Seq(Sent) /\ Len(KeepLast(r)) = Capacity
      BY <2>1, <2>2, <3>2 DEF KeepLast
    <3>. QED BY <2>1, <2>2, <2>3, <2>4, <3>3 DEF r
  <2>5. CASE Len(r) <= Capacity BY <2>1, <2>2, <2>3, <2>5 DEF r
  <2>. QED BY <2>1, <2>2, <2>4, <2>5
<1>4. QueuesOK' BY <1>1, <1>3 DEF FacesOK, QueuesOK
<1>5. ASSUME NEW f \in Faces PROVE FaceOK(f)'
  <2>1. FaceOK(f) /\ backlog'[f] = New(f) /\ (link[f] = "down" => New(f) = <<>>)
    BY <1>1 DEF FacesOK
  <2>2. ASSUME link[f] = "up", ~lagged'[f]
        PROVE  apply_all(model[f], wire[f] \o backlog'[f]) = engine
    <3>1. ~lagged[f] /\ Len(Receives(f)) <= Capacity /\ found = published
      <4>1. Receives(f) \in Seq(Sent) /\ Capacity \in Nat BY <1>3, ServerConstants
      <4>2. Len(Receives(f)) \in Nat BY <4>1
      <4>3. ~lagged[f] /\ ~(Len(Receives(f)) > Capacity) /\ found = published BY <1>1, <2>2
      <4>. QED BY <4>1, <4>2, <4>3
    <3>2. backlog'[f] = backlog[f] \o outbox BY <2>1, <2>2, <3>1 DEF Receives
    <3>. DEFINE w == wire[f]
                b == backlog[f]
                m == model[f]
    <3>3. apply_all(m, w \o b) = published BY <2>1, <2>2, <3>1 DEF FaceOK
    <3>4. w \in Seq(Frame) /\ b \in Seq(Frame) /\ outbox \in Seq(Frame)
      BY <1>2, SentAreFrames DEF FacesOK, QueuesOK
    <3>. HIDE DEF w, b, m
    <3>5. w \o (b \o outbox) = (w \o b) \o outbox /\ w \o b \in Seq(Frame) BY <3>4
    <3>6. apply_all(m, (w \o b) \o outbox) = apply_all(apply_all(m, w \o b), outbox)
      <4>. DEFINE wb == w \o b
      <4>1. wb \in Seq(Frame) BY <3>5
      <4>. HIDE DEF wb
      <4>2. apply_all(m, wb \o outbox) = apply_all(apply_all(m, wb), outbox)
        BY <3>4, <4>1, AppliedConcat
      <4>. QED BY <4>2 DEF wb
    <3>. QED BY <1>2, <3>1, <3>2, <3>3, <3>5, <3>6 DEF w, b, m
  <2>3. Len(New(f)) <= Capacity BY <1>3
  <2>. HIDE DEF New
  <2>. QED BY <1>1, <2>1, <2>2, <2>3 DEF FaceOK
<1>. QED BY <1>4, <1>5 DEF FacesOK

\* A subscription takes what is published for the first frame.
LEMMA SubscribeFaces ==
  ASSUME StoreOK, FacesOK, NEW f \in Faces, Subscribe(f)
  PROVE  FacesOK'
<1>. DEFINE s == Snapshot(published)
<1>1. /\ link[f] = "down" /\ link' = [link EXCEPT ![f] = "up"]
      /\ wire' = [wire EXCEPT ![f] = <<s>>]
      /\ lagged' = [lagged EXCEPT ![f] = FALSE]
      /\ table' = [table EXCEPT ![f] = CliState_new]
      /\ UNCHANGED <<published, backlog, model>>
  BY DEF Subscribe, connect
<1>2. s \in Frame /\ s.type = "fleet.snapshot" /\ s.inbox = published
  BY DEF StoreOK, Sound, Snapshot, Frame, Event
<1>3. \A m : InboxModel_apply(m, s) = published BY <1>2 DEF InboxModel_apply
<1>. HIDE DEF s
<1>4. CliState_new \in Table BY DEF CliState_new, Table
<1>5. QueuesOK' BY <1>1, <1>2, <1>4 DEF FacesOK, QueuesOK
<1>6. ASSUME NEW g \in Faces PROVE FaceOK(g)'
  <2>1. CASE g # f BY <1>1, <2>1 DEF FacesOK, QueuesOK, FaceOK
  <2>2. CASE g = f
    <3>1. /\ wire'[g] = <<s>> /\ link'[g] = "up"
          /\ backlog'[g] = <<>> /\ model'[g] = model[g]
      BY <1>1, <2>2 DEF FacesOK, QueuesOK, FaceOK
    <3>2. <<s>> \o <<>> = <<s>> BY <1>2
    <3>3. apply_all(model[g], <<s>>) = published BY <1>3, AppliedOne
    <3>4. Len(<<s>>) = 1 /\ <<s>>[1] = s /\ Len(<<>>) = 0 OBVIOUS
    <3>5. Room \in Nat \ {0} /\ Capacity \in Nat \ {0} BY ServerConstants
    <3>6. Len(backlog'[g]) <= Capacity /\ Len(wire'[g]) <= Room BY <3>1, <3>4, <3>5
    <3>7. \A i \in 2..Len(wire'[g]) : wire'[g][i] \in Sent BY <3>1, <3>4
    <3>8. apply_all(model'[g], wire'[g] \o backlog'[g]) = published' BY <1>1, <3>1, <3>2, <3>3
    <3>9. wire'[g] # <<>> /\ wire'[g][1].type = "fleet.snapshot" BY <1>2, <3>1, <3>4
    <3>10. link'[g] # "down" BY <3>1
    <3>. QED BY <3>6, <3>7, <3>8, <3>9, <3>10 DEF FaceOK
  <2>. QED BY <2>1, <2>2
<1>. QED BY <1>5, <1>6 DEF FacesOK

\* A frame moves to the socket, behind those that are there.
LEMMA forward_broadcastFaces ==
  ASSUME FacesOK, NEW f \in Faces, forward_broadcast(f)
  PROVE  FacesOK'
<1>. DEFINE w == wire[f]
            b == backlog[f]
<1>1. /\ b # <<>> /\ Len(w) < Room
      /\ wire' = [wire EXCEPT ![f] = Append(w, Head(b))]
      /\ backlog' = [backlog EXCEPT ![f] = Tail(b)]
      /\ UNCHANGED <<published, link, lagged, model, table>>
  BY DEF forward_broadcast
<1>2. b \in Seq(Sent) /\ w \in Seq(Frame) /\ FaceOK(f) BY DEF FacesOK, QueuesOK
<1>3. /\ Head(b) \in Sent /\ Tail(b) \in Seq(Sent) /\ Len(b) > 0
      /\ Len(Tail(b)) = Len(b) - 1 /\ b \in Seq(Frame)
  <2>. HIDE DEF b
  <2>. QED BY <1>1, <1>2, SentAreFrames
<1>4. /\ Append(w, Head(b)) \in Seq(Frame)
      /\ Len(Append(w, Head(b))) = Len(w) + 1
      /\ \A i \in 1..Len(w) : Append(w, Head(b))[i] = w[i]
      /\ Append(w, Head(b))[Len(w) + 1] = Head(b)
  <2>1. Head(b) \in Frame BY <1>3, SentAreFrames
  <2>. HIDE DEF w, b
  <2>. QED BY <1>2, <2>1
<1>5. Append(w, Head(b)) \o Tail(b) = w \o b
  <2>. HIDE DEF w, b
  <2>. DEFINE x == Append(w, Head(b)) \o Tail(b)
              y == w \o b
  <2>1. Tail(b) \in Seq(Frame) BY <1>3, SentAreFrames
  <2>2. x \in Seq(Frame) /\ y \in Seq(Frame) /\ Len(x) = Len(y) BY <1>2, <1>3, <1>4, <2>1
  <2>3. \A i \in 1..Len(x) : x[i] = y[i] BY <1>2, <1>3, <1>4, <2>1
  <2>. HIDE DEF x, y
  <2>4. x = y BY <2>2, <2>3, SeqEqual
  <2>. QED BY <2>4 DEF x, y
<1>6. QueuesOK'
  <2>. HIDE DEF w, b
  <2>. QED BY <1>1, <1>3, <1>4 DEF FacesOK, QueuesOK
<1>7. ASSUME NEW g \in Faces PROVE FaceOK(g)'
  <2>1. CASE g # f BY <1>1, <2>1 DEF FacesOK, QueuesOK, FaceOK
  <2>2. CASE g = f
    <3>1. wire'[g] = Append(w, Head(b)) /\ backlog'[g] = Tail(b)
      BY <1>1, <2>2 DEF FacesOK, QueuesOK
    <3>2. \A i \in 2..Len(wire'[g]) : wire'[g][i] \in Sent
      <4>1. \A i \in 2..Len(w) : w[i] \in Sent /\ Len(w) \in Nat BY <1>2 DEF FaceOK
      <4>. HIDE DEF w, b
      <4>. QED BY <1>2, <1>3, <1>4, <3>1, <4>1
    <3>3. Len(wire'[g]) <= Room /\ Len(backlog'[g]) <= Capacity
      <4>1. Len(b) <= Capacity /\ Capacity \in Nat /\ Room \in Nat BY <1>2, ServerConstants DEF FaceOK
      <4>. HIDE DEF w, b
      <4>. QED BY <1>1, <1>2, <1>3, <1>4, <3>1, <4>1
    <3>4. link[g] # "down" BY <1>1, <1>2, <2>2 DEF FaceOK
    <3>5. wire'[g][1].type # "fleet.snapshot" => (w # <<>> => w[1].type # "fleet.snapshot")
      <4>. HIDE DEF w, b
      <4>1. CASE w = <<>> BY <4>1
      <4>2. CASE w # <<>>
        <5>1. 1 \in 1..Len(w) BY <1>2, <4>2
        <5>. QED BY <1>4, <3>1, <5>1
      <4>. QED BY <4>1, <4>2
    <3>6. wire'[g] # <<>>
      <4>. HIDE DEF w, b
      <4>1. Len(w) + 1 # 0 BY <1>2
      <4>2. Len(wire'[g]) # 0 BY <1>4, <3>1, <4>1
      <4>. QED BY <4>2
    <3>7. wire'[g] \o backlog'[g] = wire[g] \o backlog[g] BY <1>5, <2>2, <3>1
    <3>. QED BY <1>1, <1>2, <2>2, <3>2, <3>3, <3>4, <3>5, <3>6, <3>7 DEF FaceOK
  <2>. QED BY <2>1, <2>2
<1>. QED BY <1>6, <1>7 DEF FacesOK

\* A face reads a frame.
LEMMA ReceiveFaces ==
  ASSUME FacesOK, NEW f \in Faces, Receive(f)
  PROVE  FacesOK'
<1>. DEFINE w == wire[f]
            b == backlog[f]
            h == Head(w)
            m == InboxModel_apply(model[f], h)
            t == CliState_apply(table[f], h)
<1>1. /\ w # <<>>
      /\ model' = [model EXCEPT ![f] = m]
      /\ table' = [table EXCEPT ![f] = t]
      /\ wire' = [wire EXCEPT ![f] = Tail(w)]
      /\ UNCHANGED <<published, link, backlog, lagged>>
  BY DEF Receive, cmd_ls
<1>2. /\ w \in Seq(Frame) /\ b \in Seq(Frame) /\ FaceOK(f)
      /\ model[f] \in Engine /\ table[f] \in Table
  BY SentAreFrames DEF FacesOK, QueuesOK
<1>3. /\ h \in Frame /\ h = w[1] /\ Tail(w) \in Seq(Frame) /\ Len(w) > 0 /\ Len(w) \in Nat
      /\ Len(Tail(w)) = Len(w) - 1
      /\ \A i \in 1..Len(Tail(w)) : Tail(w)[i] = w[i + 1]
  <2>. HIDE DEF w
  <2>. QED BY <1>1, <1>2
<1>. HIDE DEF h
<1>4. /\ m \in Engine /\ t \in Table
      /\ h.type = "fleet.snapshot" \/ table[f] = Rows(model[f]) => t = Rows(m)
  BY <1>2, <1>3, Reduced
<1>5. QueuesOK'
  <2>. HIDE DEF w, m, t
  <2>. QED BY <1>1, <1>3, <1>4 DEF FacesOK, QueuesOK
<1>6. apply_all(model[f], w \o b) = apply_all(m, Tail(w) \o b)
  <2>. DEFINE one  == <<h>>
              rest == Tail(w) \o b
  <2>1. w \o b = one \o rest
    <3>1. w = one \o Tail(w) BY <1>1, <1>2, HeadFirst DEF h
    <3>2. one \in Seq(Frame) BY <1>3
    <3>. HIDE DEF w, b, one
    <3>3. (one \o Tail(w)) \o b = one \o (Tail(w) \o b) BY <1>2, <1>3, <3>2
    <3>. QED BY <3>1, <3>3
  <2>2. one \in Seq(Frame) BY <1>3
  <2>3. rest \in Seq(Frame)
    <3>. HIDE DEF w, b
    <3>. QED BY <1>2, <1>3
  <2>4. apply_all(model[f], one) = m BY AppliedOne
  <2>. HIDE DEF one, rest, m, w, b
  <2>5. apply_all(model[f], one \o rest) = apply_all(apply_all(model[f], one), rest)
    BY <2>2, <2>3, AppliedConcat
  <2>. QED BY <2>1, <2>4, <2>5 DEF rest
<1>7. ASSUME NEW g \in Faces PROVE FaceOK(g)'
  <2>1. CASE g # f BY <1>1, <2>1 DEF FacesOK, QueuesOK, FaceOK
  <2>2. CASE g = f
    <3>1. /\ wire'[g] = Tail(w) /\ backlog'[g] = b /\ model'[g] = m /\ table'[g] = t
          /\ link'[g] = link[g] /\ lagged'[g] = lagged[g] /\ published' = published
      <4>. HIDE DEF w, m, t
      <4>. QED BY <1>1, <2>2 DEF FacesOK, QueuesOK, b
    <3>2. link[g] = "up"
      <4>1. link[g] \in {"up", "down"} BY DEF FacesOK, QueuesOK
      <4>. QED BY <1>1, <1>2, <2>2, <4>1 DEF FaceOK
    <3>3. \A i \in 1..Len(Tail(w)) : Tail(w)[i] \in Sent
      <4>1. \A i \in 2..Len(w) : w[i] \in Sent BY <1>2 DEF FaceOK
      <4>. HIDE DEF w
      <4>2. ASSUME NEW i \in 1..Len(Tail(w)) PROVE Tail(w)[i] \in Sent
        <5>1. i + 1 \in 2..Len(w) BY <1>3
        <5>. QED BY <1>3, <4>1, <5>1
      <4>. QED BY <4>2
    <3>4. \A i \in 2..Len(Tail(w)) : Tail(w)[i] \in Sent
      <4>. HIDE DEF w
      <4>. QED BY <3>3, <1>3
    <3>5. Len(Tail(w)) <= Room /\ Len(b) <= Capacity
      <4>1. Len(w) <= Room /\ Room \in Nat /\ Len(b) <= Capacity BY <1>2, ServerConstants DEF FaceOK
      <4>. HIDE DEF w, b
      <4>. QED BY <1>3, <4>1
    <3>6. t = Rows(m)
      <4>1. h.type # "fleet.snapshot" => table[f] = Rows(model[f])
        BY <1>2, <1>3, <2>2, <3>2 DEF FaceOK
      <4>. QED BY <1>4, <4>1
    <3>7. ~lagged[g] => apply_all(m, Tail(w) \o b) = published
      BY <1>2, <1>6, <2>2, <3>2 DEF FaceOK
    <3>. HIDE DEF w, b, m, t
    <3>. QED BY <3>1, <3>2, <3>4, <3>5, <3>6, <3>7 DEF FaceOK
  <2>. QED BY <2>1, <2>2
<1>. QED BY <1>5, <1>7 DEF FacesOK

\* A link breaks.
LEMMA DisconnectFaces ==
  ASSUME FacesOK, NEW f \in Faces, Disconnect(f)
  PROVE  FacesOK'
<1>1. /\ link' = [link EXCEPT ![f] = "down"]
      /\ backlog' = [backlog EXCEPT ![f] = <<>>]
      /\ wire' = [wire EXCEPT ![f] = <<>>]
      /\ UNCHANGED <<published, lagged, model, table>>
  BY DEF Disconnect
<1>2. QueuesOK' BY <1>1 DEF FacesOK, QueuesOK
<1>3. ASSUME NEW g \in Faces PROVE FaceOK(g)'
  <2>1. CASE g # f BY <1>1, <2>1 DEF FacesOK, QueuesOK, FaceOK
  <2>2. CASE g = f
    <3>1. link'[g] = "down" /\ backlog'[g] = <<>> /\ wire'[g] = <<>>
      BY <1>1, <2>2 DEF FacesOK, QueuesOK
    <3>2. Capacity \in Nat /\ Room \in Nat BY ServerConstants
    <3>. QED BY <3>1, <3>2 DEF FaceOK
  <2>. QED BY <2>1, <2>2
<1>. QED BY <1>2, <1>3 DEF FacesOK

-----------------------------------------------------------------------------
(* The theorems.                                                           *)

LEMMA InitInv == Init => IInv
<1>. SUFFICES ASSUME Init PROVE IInv OBVIOUS
<1>1. engine \in Engine /\ Ordered(engine) /\ IsFiniteSet(Present(engine))
      /\ \A s \in Present(engine) : recompute_rollups(engine.sessions[s]) = engine.sessions[s]
  BY ServerConstants DEF Init
<1>2. AllRolledUp(engine)
  <2>. SUFFICES ASSUME NEW s \in Present(engine) PROVE RolledUp(engine.sessions[s])
    BY DEF AllRolledUp
  <2>1. engine.sessions[s] \in Session BY <1>1, PresentType
  <2>. QED BY <1>1, <2>1, Recomputed
<1>3. Well(engine) /\ Sound(engine) BY <1>1, <1>2 DEF Well, Sound
<1>4. StoreOK BY <1>3, AppliedNone DEF Init, StoreOK, OutboxLeadsToStore
<1>5. EmptyEngine \in Engine /\ CliState_new \in Table
  BY DEF EmptyEngine, Engine, CliState_new, Table
<1>6. QueuesOK BY <1>5 DEF Init, QueuesOK
<1>7. ASSUME NEW f \in Faces PROVE FaceOK(f)
  <2>1. link[f] = "down" /\ backlog[f] = <<>> /\ wire[f] = <<>> BY DEF Init
  <2>2. Capacity \in Nat /\ Room \in Nat BY ServerConstants
  <2>. QED BY <2>1, <2>2 DEF FaceOK
<1>. QED BY <1>4, <1>6, <1>7 DEF IInv, FacesOK

LEMMA NextInv == IInv /\ [Next]_vars => IInv'
<1>. SUFFICES ASSUME IInv, [Next]_vars PROVE IInv' OBVIOUS
<1>0. StoreOK /\ FacesOK BY DEF IInv
<1>1. ASSUME NEW id \in SessionIds, NEW runs \in [RunIds -> InputRuns \cup {Absent}],
             SessionUpsert(id, runs)
      PROVE  IInv'
  <2>1. UNCHANGED <<published, faces>> BY <1>1 DEF SessionUpsert, Delta, TakeLock
  <2>. QED BY <1>0, <1>1, <2>1, SessionUpsertStep, FacesStay DEF IInv
<1>2. ASSUME NEW id \in SessionIds, SessionRemove(id) PROVE IInv'
  <2>1. UNCHANGED <<published, faces>> BY <1>2 DEF SessionRemove, Delta, TakeLock
  <2>. QED BY <1>0, <1>2, <2>1, SessionRemoveStep, FacesStay DEF IInv
<1>3. ASSUME NEW id \in SessionIds, NEW rid \in RunIds, NEW run \in InputRuns, RunUpsert(id, rid, run)
      PROVE  IInv'
  <2>1. UNCHANGED <<published, faces>> BY <1>3 DEF RunUpsert, Delta, TakeLock
  <2>. QED BY <1>0, <1>3, <2>1, RunUpsertStep, FacesStay DEF IInv
<1>4. ASSUME NEW id \in SessionIds, NEW rid \in RunIds, RunRemove(id, rid) PROVE IInv'
  <2>1. UNCHANGED <<published, faces>> BY <1>4 DEF RunRemove, Delta, TakeLock
  <2>. QED BY <1>0, <1>4, <2>1, RunRemoveStep, FacesStay DEF IInv
<1>5. ASSUME NEW id \in SessionIds, Mute(id) \/ Unmute(id) \/ Solo(id) \/ Focus(id) PROVE IInv'
  <2>1. UNCHANGED <<published, faces>>
    BY <1>5 DEF Mute, Unmute, Solo, Focus, FlagCommand, Delta, TakeLock
  <2>. QED BY <1>0, <1>5, <2>1, FlagStep, FacesStay DEF IInv
<1>6. ASSUME gc PROVE IInv'
  <2>1. UNCHANGED <<published, faces>> BY <1>6 DEF gc, TakeLock
  <2>. QED BY <1>0, <1>6, <2>1, gcStep, FacesStay DEF IInv
<1>7. ASSUME NEW id \in SessionIds, NEW rid \in RunIds, reap_dead(id, rid) PROVE IInv'
  <2>1. UNCHANGED <<published, faces>> BY <1>7 DEF reap_dead
  <2>. QED BY <1>0, <1>7, <2>1, reap_deadStep, FacesStay DEF IInv
<1>8. ASSUME NEW id \in SessionIds, sweep_expired_sessions(id) PROVE IInv'
  <2>1. UNCHANGED <<published, faces>> BY <1>8 DEF sweep_expired_sessions
  <2>. QED BY <1>0, <1>8, <2>1, sweep_expired_sessionsStep, FacesStay DEF IInv
<1>9. ASSUME GcFails PROVE IInv'
  <2>1. UNCHANGED <<published, faces>> BY <1>9 DEF GcFails
  <2>. QED BY <1>0, <1>9, <2>1, GcFailsStep, FacesStay DEF IInv
<1>10. ASSUME Publish PROVE IInv'
  BY <1>0, <1>10, PublishStep, PublishFaces DEF IInv
<1>11. ASSUME UNCHANGED <<store, published>> PROVE StoreOK'
  BY <1>0, <1>11 DEF StoreOK, store, OutboxLeadsToStore
<1>12. ASSUME NEW f \in Faces, Subscribe(f) PROVE IInv'
  <2>1. UNCHANGED <<store, published>> BY <1>12 DEF Subscribe
  <2>. QED BY <1>0, <1>11, <1>12, <2>1, SubscribeFaces DEF IInv
<1>13. ASSUME NEW f \in Faces, forward_broadcast(f) PROVE IInv'
  <2>1. UNCHANGED <<store, published>> BY <1>13 DEF forward_broadcast
  <2>. QED BY <1>0, <1>11, <1>13, <2>1, forward_broadcastFaces DEF IInv
<1>14. ASSUME NEW f \in Faces, Receive(f) PROVE IInv'
  <2>1. UNCHANGED <<store, published>> BY <1>14 DEF Receive
  <2>. QED BY <1>0, <1>11, <1>14, <2>1, ReceiveFaces DEF IInv
<1>15. ASSUME NEW f \in Faces, Disconnect(f) PROVE IInv'
  <2>1. UNCHANGED <<store, published>> BY <1>15 DEF Disconnect
  <2>. QED BY <1>0, <1>11, <1>15, <2>1, DisconnectFaces DEF IInv
<1>16. CASE UNCHANGED vars
  <2>1. UNCHANGED <<store, published>> /\ UNCHANGED <<published, faces>> BY <1>16 DEF vars
  <2>. QED BY <1>0, <1>11, <2>1, FacesStay DEF IInv
<1>. QED
  BY <1>1, <1>2, <1>3, <1>4, <1>5, <1>6, <1>7, <1>8, <1>9, <1>10, <1>12, <1>13, <1>14, <1>15,
     <1>16 DEF Next

LEMMA Invariant == Spec => []IInv
BY InitInv, NextInv, PTL DEF Spec

\* Whatever is lost on the way, and however commits, passes of the GC and
\* subscriptions interleave: what a face shows and what it has still to read
\* add up to what the Hub has published, unless the broadcast channel dropped
\* an event the face had not read or a failed pass never sent it
\* (server.rs 57-61).
THEOREM StreamAlwaysLeads == Spec => []StreamLeadsToPublished
<1>1. IInv => StreamLeadsToPublished BY DEF IInv, FacesOK, FaceOK, StreamLeadsToPublished
<1>. QED BY <1>1, Invariant, PTL

\* The queues keep their bounds, the events of every commit turn the store it
\* found into the store it leaves, and the two reducers agree on every event.
THEOREM ServerAlwaysSound == Spec => []ServerInv
<1>. SUFFICES ASSUME IInv PROVE ServerInv
  <2>1. IInv => ServerInv OBVIOUS
  <2>. QED BY <2>1, Invariant, PTL
<1>1. Frame \subseteq Event /\ Sent \subseteq Event BY DEF Frame, Sent
<1>2. \A q \in Seq(Frame) : q \in Seq(Event) BY <1>1
<1>3. \A q \in Seq(Sent) : q \in Seq(Event) BY <1>1
<1>4. TypeOK
  <2>1. engine \in Engine /\ found \in Engine /\ published \in Engine
    BY DEF IInv, StoreOK, Well, Sound
  <2>2. holder \in {"nobody", "delta", "gc"} /\ outbox \in Seq(Event) BY <1>3 DEF IInv, StoreOK
  <2>3. ASSUME NEW f \in Faces
        PROVE  /\ backlog[f] \in Seq(Event) /\ Len(backlog[f]) <= Capacity
               /\ wire[f] \in Seq(Event) /\ Len(wire[f]) <= Room
               /\ model[f] \in Engine /\ table[f] \in [SessionIds -> Session \cup {Absent}]
    <3>1. backlog[f] \in Seq(Sent) /\ wire[f] \in Seq(Frame) BY DEF IInv, FacesOK, QueuesOK
    <3>2. model[f] \in Engine /\ table[f] \in [SessionIds -> Session \cup {Absent}]
      BY DEF IInv, FacesOK, QueuesOK, Table
    <3>3. Len(backlog[f]) <= Capacity /\ Len(wire[f]) <= Room BY DEF IInv, FacesOK, FaceOK
    <3>. QED BY <1>2, <1>3, <3>1, <3>2, <3>3
  <2>4. link \in [Faces -> {"up", "down"}] /\ lagged \in [Faces -> BOOLEAN]
    BY DEF IInv, FacesOK, QueuesOK
  <2>. QED BY <2>1, <2>2, <2>3, <2>4 DEF TypeOK
<1>5. OutboxLeadsToStore BY DEF IInv, StoreOK
<1>6. TablesAgree
  <2>. SUFFICES ASSUME NEW f \in Faces, link[f] = "up",
                       wire[f] # <<>> => Head(wire[f]).type # "fleet.snapshot"
                PROVE  table[f] = Rows(model[f])
    BY DEF TablesAgree, Rows
  <2>1. wire[f] \in Seq(Frame) /\ FaceOK(f) BY DEF IInv, FacesOK, QueuesOK
  <2>2. wire[f] # <<>> => Head(wire[f]) = wire[f][1] BY <2>1
  <2>. QED BY <2>1, <2>2 DEF FaceOK
<1>. QED BY <1>4, <1>5, <1>6 DEF ServerInv
=============================================================================
