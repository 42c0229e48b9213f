-------------------------- MODULE MergeEngineProofs --------------------------
(***************************************************************************)
(* Facts about the merge engine's operations, for every set of sessions    *)
(* and runs: what the rollups pick, that each operation maps engines to    *)
(* engines and keeps the order of sessions well-formed, and that the       *)
(* events it broadcasts turn the engine it found into the one it leaves.   *)
(*                                                                         *)
(* What apply_all computes is proved by induction over the events, which   *)
(* LeastNat stands for: a set of numbers has a least one.                  *)
(***************************************************************************)
EXTENDS FaceModel, SequenceTheorems, FiniteSetTheorems, TLAPS

\* A session whose rollups are those of its runs.
RolledUp(x) ==
  /\ x.rollup_state = rollup_state(x.runs)
  /\ x.rollup_urgency = rollup_urgency(x.runs)

AllRolledUp(e) == \A s \in Present(e) : RolledUp(e.sessions[s])

\* The same session but for the badge.
Alike(x, y) ==
  /\ x.runs = y.runs
  /\ x.rollup_state = y.rollup_state /\ x.rollup_urgency = y.rollup_urgency
  /\ x.muted = y.muted /\ x.soloed = y.soloed
  /\ x.updated_at = y.updated_at

\* A well-formed engine.
Sound(e) == e \in Engine /\ Ordered(e) /\ AllRolledUp(e)

-----------------------------------------------------------------------------
(* The rollups.                                                            *)

\* The most urgent of some states is one of them and outranks the others.
LEMMA MostUrgentState ==
  ASSUME NEW S \in SUBSET State, S # {}
  PROVE  /\ MostUrgent(S, state_rank) \in S
         /\ \A w \in S : state_rank[w] <= state_rank[MostUrgent(S, state_rank)]
<1>1. \E v \in S : \A w \in S : state_rank[w] <= state_rank[v]
  <2>1. CASE "waiting" \in S
    BY <2>1 DEF State, state_rank
  <2>2. CASE "waiting" \notin S /\ "error" \in S
    BY <2>2 DEF State, state_rank
  <2>3. CASE "waiting" \notin S /\ "error" \notin S /\ "working" \in S
    BY <2>3 DEF State, state_rank
  <2>4. CASE "waiting" \notin S /\ "error" \notin S /\ "working" \notin S /\ "done" \in S
    BY <2>4 DEF State, state_rank
  <2>5. CASE "waiting" \notin S /\ "error" \notin S /\ "working" \notin S /\ "done" \notin S
             /\ "idle" \in S
    BY <2>5 DEF State, state_rank
  <2>6. CASE S = {"dead"}
    BY <2>6 DEF state_rank
  <2>. QED BY <2>1, <2>2, <2>3, <2>4, <2>5, <2>6 DEF State
<1>. QED BY <1>1 DEF MostUrgent

\* The same of urgencies.
LEMMA MostUrgentUrgency ==
  ASSUME NEW S \in SUBSET Urgency, S # {}
  PROVE  /\ MostUrgent(S, urgency_rank) \in S
         /\ \A w \in S : urgency_rank[w] <= urgency_rank[MostUrgent(S, urgency_rank)]
<1>0. /\ urgency_rank["approval"] = 3 /\ urgency_rank["question"] = 2
      /\ urgency_rank["idle-done"] = 1 /\ urgency_rank["none"] = 0
  BY DEF urgency_rank, Urgency
<1>1. \E v \in S : \A w \in S : urgency_rank[w] <= urgency_rank[v]
  <2>1. CASE "approval" \in S
    BY <1>0, <2>1 DEF Urgency
  <2>2. CASE "approval" \notin S /\ "question" \in S
    BY <1>0, <2>2 DEF Urgency
  <2>3. CASE "approval" \notin S /\ "question" \notin S /\ "idle-done" \in S
    BY <1>0, <2>3 DEF Urgency
  <2>4. CASE S = {"none"}
    BY <1>0, <2>4
  <2>. QED BY <2>1, <2>2, <2>3, <2>4 DEF Urgency
<1>. QED BY <1>1 DEF MostUrgent

\* The states and urgencies a session shows are those of its runs.
LEMMA RunFacts ==
  ASSUME NEW runs \in Runs
  PROVE  RunStates(runs) \in SUBSET State /\ RunUrgencies(runs) \in SUBSET Urgency
BY AbsentIsNew DEF Runs, AgentRun, RunStates, RunUrgencies

\* A rollup is a state, and the waiting one exactly while a run waits.
LEMMA RollupState ==
  ASSUME NEW runs \in Runs
  PROVE  /\ rollup_state(runs) \in State
         /\ (rollup_state(runs) = "waiting") = ("waiting" \in RunStates(runs))
<1>1. RunStates(runs) \in SUBSET State BY RunFacts
<1>2. CASE RunStates(runs) = {}
  BY <1>2 DEF rollup_state, State
<1>3. CASE RunStates(runs) # {}
  <2>. DEFINE m == MostUrgent(RunStates(runs), state_rank)
  <2>1. m \in RunStates(runs) /\ \A w \in RunStates(runs) : state_rank[w] <= state_rank[m]
    BY <1>1, <1>3, MostUrgentState
  <2>2. m \in State BY <1>1, <2>1
  <2>3. ASSUME "waiting" \in RunStates(runs) PROVE m = "waiting"
    <3>1. state_rank["waiting"] <= state_rank[m] BY <2>1, <2>3
    <3>. HIDE DEF m
    <3>. QED BY <2>2, <3>1 DEF State, state_rank
  <2>4. rollup_state(runs) = m BY <1>3 DEF rollup_state
  <2>. HIDE DEF m
  <2>. QED BY <2>1, <2>2, <2>3, <2>4
<1>. QED BY <1>2, <1>3

\* A rolled-up urgency is an urgency, and an approval exactly while a run asks
\* for one.
LEMMA RollupUrgency ==
  ASSUME NEW runs \in Runs
  PROVE  /\ rollup_urgency(runs) \in Urgency
         /\ (rollup_urgency(runs) = "approval") = ("approval" \in RunUrgencies(runs))
<1>. DEFINE S == RunUrgencies(runs) \cup {"none"}
            m == MostUrgent(S, urgency_rank)
<1>1. S \in SUBSET Urgency /\ S # {} BY RunFacts DEF Urgency
<1>2. m \in S /\ \A w \in S : urgency_rank[w] <= urgency_rank[m]
  <2>. HIDE DEF S
  <2>. QED BY <1>1, MostUrgentUrgency
<1>3. m \in Urgency BY <1>1, <1>2
<1>4. ASSUME "approval" \in RunUrgencies(runs) PROVE m = "approval"
  <2>1. urgency_rank["approval"] <= urgency_rank[m] BY <1>2, <1>4
  <2>2. /\ urgency_rank["approval"] = 3 /\ urgency_rank["question"] = 2
        /\ urgency_rank["idle-done"] = 1 /\ urgency_rank["none"] = 0
    BY DEF urgency_rank, Urgency
  <2>. HIDE DEF m
  <2>. QED BY <1>3, <2>1, <2>2 DEF Urgency
<1>5. rollup_urgency(runs) = m BY DEF rollup_urgency
<1>. HIDE DEF m
<1>. QED BY <1>2, <1>3, <1>4, <1>5

\* Recomputing the rollups makes them show the runs and touches nothing else.
LEMMA Recomputed ==
  ASSUME NEW x \in Session
  PROVE  /\ recompute_rollups(x) \in Session
         /\ RolledUp(recompute_rollups(x))
         /\ recompute_rollups(x).runs = x.runs
         /\ recompute_rollups(x).muted = x.muted
         /\ recompute_rollups(x).soloed = x.soloed
         /\ recompute_rollups(x).updated_at = x.updated_at
<1>1. x.runs \in Runs BY DEF Session
<1>2. rollup_state(x.runs) \in State /\ rollup_urgency(x.runs) \in Urgency
  BY <1>1, RollupState, RollupUrgency
<1>3. recompute_rollups(x) \in Session BY <1>2 DEF recompute_rollups, Session
<1>. QED BY <1>3 DEF recompute_rollups, RolledUp, Session

-----------------------------------------------------------------------------
(* The badge.                                                              *)

\* Setting the badge changes the badge only.
LEMMA Badged ==
  ASSUME NEW x \in Session, NEW a \in BOOLEAN, NEW b \in BOOLEAN
  PROVE  LET y == update_unread_for_notify_transition(x, a, b)
         IN  y \in Session /\ Alike(y, x)
BY DEF update_unread_for_notify_transition, Session, Alike

\* Whether a session notifies is a yes or a no.
LEMMA NotifyIsBoolean ==
  ASSUME NEW e, NEW s, NEW x, NEW b
  PROVE  Notifies(e, s) \in BOOLEAN /\ should_notify_session(x, b) \in BOOLEAN
BY DEF Notifies, should_notify_session

\* An entry that is there is a session.
LEMMA PresentType ==
  ASSUME NEW e \in Engine
  PROVE  /\ Present(e) \in SUBSET SessionIds
         /\ \A s \in Present(e) : e.sessions[s] \in Session
         /\ \A s \in SessionIds \ Present(e) : e.sessions[s] = Absent
BY DEF Present, Engine

\* Reconciling changes nothing but badges.
LEMMA Reconciled ==
  ASSUME NEW e, NEW f \in Engine
  PROVE  LET g == reconcile_unread_from(e, f)
         IN  /\ g \in Engine
             /\ g.older = f.older
             /\ Present(g) = Present(f)
             /\ \A s \in Present(f) : Alike(g.sessions[s], f.sessions[s])
<1>. DEFINE placed(s) == update_unread_for_notify_transition(f.sessions[s], Notifies(e, s), Notifies(f, s))
            g == reconcile_unread_from(e, f)
<1>1. \A s \in Present(f) : placed(s) \in Session /\ Alike(placed(s), f.sessions[s])
  <2>. TAKE s \in Present(f)
  <2>1. f.sessions[s] \in Session BY PresentType
  <2>2. Notifies(e, s) \in BOOLEAN /\ Notifies(f, s) \in BOOLEAN BY NotifyIsBoolean
  <2>. QED BY <2>1, <2>2, Badged
<1>2. g = [f EXCEPT !.sessions = [s \in SessionIds |-> IF s \in Present(f) THEN placed(s) ELSE Absent]]
  BY DEF reconcile_unread_from
<1>3. /\ g.sessions = [s \in SessionIds |-> IF s \in Present(f) THEN placed(s) ELSE Absent]
      /\ g.older = f.older
  BY <1>2 DEF Engine
<1>4. g \in Engine
  <2>1. [s \in SessionIds |-> IF s \in Present(f) THEN placed(s) ELSE Absent]
          \in [SessionIds -> Session \cup {Absent}]
    <3>. HIDE DEF placed
    <3>. QED BY <1>1
  <2>. QED BY <1>2, <2>1 DEF Engine
<1>. HIDE DEF placed, g
<1>5. Present(g) = Present(f)
  BY <1>1, <1>3, PresentType, AbsentIsNew, ZenonT(60) DEF Present
<1>6. \A s \in Present(f) : g.sessions[s] = placed(s)
  BY <1>3, PresentType
<1>. QED BY <1>1, <1>3, <1>4, <1>5, <1>6 DEF g

\* The order looks at nothing but which sessions are there.
LEMMA OrderedAlike ==
  ASSUME NEW e, NEW f, Ordered(e), f.older = e.older, Present(f) = Present(e)
  PROVE  Ordered(f)
BY DEF Ordered

\* Rollups stay true when only badges differ.
LEMMA RolledUpAlike ==
  ASSUME NEW x, NEW y, RolledUp(y), Alike(x, y)
  PROVE  RolledUp(x)
BY DEF RolledUp, Alike

\* The empty engine is sound and has no session.
LEMMA EmptySound == Sound(EmptyEngine) /\ Present(EmptyEngine) = {}
<1>1. EmptyEngine \in Engine /\ Present(EmptyEngine) = {} BY DEF EmptyEngine, Engine, Present
<1>2. EmptyEngine.older = {} BY DEF EmptyEngine
<1>. QED BY <1>1, <1>2 DEF Sound, Ordered, AllRolledUp

-----------------------------------------------------------------------------
(* What each operation does to the engine, badges aside.                   *)

\* An upsert sets one session, to the one given with its rollups recomputed.
LEMMA Upserted ==
  ASSUME NEW e \in Engine, NEW id \in SessionIds, NEW x \in Session
  PROVE  LET g == upsert_session(e, id, x)
         IN  /\ g \in Engine
             /\ Present(g) = Present(e) \cup {id}
             /\ g.older = IF id \in Present(e) THEN e.older
                          ELSE e.older \cup {<<y, id>> : y \in Present(e)}
             /\ Alike(g.sessions[id], recompute_rollups(x))
             /\ \A s \in SessionIds \ {id} : g.sessions[s] = e.sessions[s]
<1>. DEFINE y == recompute_rollups(x)
            placed == update_unread_for_notify_transition(
                     y, Notifies(e, id), should_notify_session(y, any_soloed(e)))
            g == upsert_session(e, id, x)
<1>1. y \in Session BY Recomputed
<1>2. placed \in Session /\ Alike(placed, y)
  <2>. HIDE DEF y
  <2>. QED BY <1>1, NotifyIsBoolean, Badged
<1>3. /\ g.sessions = [e.sessions EXCEPT ![id] = placed]
      /\ g.older = IF id \in Present(e) THEN e.older
                   ELSE e.older \cup {<<z, id>> : z \in Present(e)}
      /\ g = [sessions |-> g.sessions, older |-> g.older]
  BY DEF upsert_session
<1>. HIDE DEF placed, y, g
<1>4. e.sessions \in [SessionIds -> Session \cup {Absent}] /\ e.older \in SUBSET (SessionIds \X SessionIds)
  BY DEF Engine
<1>5. g.sessions \in [SessionIds -> Session \cup {Absent}] BY <1>2, <1>3, <1>4
<1>6. g.older \in SUBSET (SessionIds \X SessionIds) BY <1>3, <1>4, PresentType
<1>7. g \in Engine BY <1>3, <1>5, <1>6 DEF Engine
<1>8. Present(g) = Present(e) \cup {id} BY <1>2, <1>3, <1>4, AbsentIsNew DEF Present
<1>. QED BY <1>2, <1>3, <1>4, <1>7, <1>8 DEF g, y

\* An upsert keeps a sound engine sound.
LEMMA UpsertedSound ==
  ASSUME NEW e, Sound(e), NEW id \in SessionIds, NEW x \in Session
  PROVE  Sound(upsert_session(e, id, x))
<1>. DEFINE g == upsert_session(e, id, x)
<1>0. e \in Engine /\ Ordered(e) /\ AllRolledUp(e) BY DEF Sound
<1>1. /\ g \in Engine
      /\ Present(g) = Present(e) \cup {id}
      /\ g.older = IF id \in Present(e) THEN e.older
                   ELSE e.older \cup {<<y, id>> : y \in Present(e)}
      /\ Alike(g.sessions[id], recompute_rollups(x))
      /\ \A s \in SessionIds \ {id} : g.sessions[s] = e.sessions[s]
  BY <1>0, Upserted
<1>. HIDE DEF g
<1>2. Ordered(g)
  <2>1. CASE id \in Present(e)
    BY <1>0, <1>1, <2>1, OrderedAlike
  <2>2. CASE id \notin Present(e)
    <3>1. g.older = e.older \cup {<<y, id>> : y \in Present(e)} BY <1>1, <2>2
    <3>2. \A s, t : <<s, t>> \in g.older <=> <<s, t>> \in e.older \/ (t = id /\ s \in Present(e))
      BY <3>1
    <3>3. e.older \subseteq Present(e) \X Present(e) BY <1>0 DEF Ordered
    <3>4. g.older \subseteq Present(g) \X Present(g) BY <1>1, <3>1, <3>3
    <3>5. \A s, t : <<s, t>> \in e.older => s # id /\ t # id BY <2>2, <3>3
    <3>6. \A s, t \in Present(g) : <<s, t>> \in g.older <=> s # t /\ <<t, s>> \notin g.older
      BY <1>0, <1>1, <2>2, <3>2, <3>5 DEF Ordered
    <3>7. \A s, t, u \in Present(g) :
            <<s, t>> \in g.older /\ <<t, u>> \in g.older => <<s, u>> \in g.older
      BY <1>0, <1>1, <2>2, <3>2, <3>3, <3>5 DEF Ordered
    <3>. QED BY <3>4, <3>6, <3>7 DEF Ordered
  <2>. QED BY <2>1, <2>2
<1>3. AllRolledUp(g)
  <2>. SUFFICES ASSUME NEW s \in Present(g) PROVE RolledUp(g.sessions[s])
    BY DEF AllRolledUp
  <2>1. CASE s = id BY <1>1, <2>1, Recomputed, RolledUpAlike
  <2>2. CASE s # id BY <1>0, <1>1, <2>2, PresentType DEF AllRolledUp
  <2>. QED BY <2>1, <2>2
<1>. QED BY <1>1, <1>2, <1>3 DEF Sound, g

\* A removal takes one session out, of the map and of the order.
LEMMA Removed ==
  ASSUME NEW e \in Engine, NEW id \in Present(e)
  PROVE  LET g == remove_session(e, id)
         IN  /\ g \in Engine
             /\ Present(g) = Present(e) \ {id}
             /\ g.older = {p \in e.older : p[1] # id /\ p[2] # id}
             /\ \A s \in Present(g) : Alike(g.sessions[s], e.sessions[s])
<1>. DEFINE f == [sessions |-> [e.sessions EXCEPT ![id] = Absent],
                  older    |-> {p \in e.older : p[1] # id /\ p[2] # id}]
            g == remove_session(e, id)
<1>1. f \in Engine BY DEF Engine
<1>2. Present(f) = Present(e) \ {id} BY DEF Present, Engine
<1>3. \A s \in Present(f) : f.sessions[s] = e.sessions[s] BY <1>2, PresentType DEF Engine
<1>4. g = reconcile_unread_from(e, f) BY DEF remove_session
<1>5. f.older = {p \in e.older : p[1] # id /\ p[2] # id} OBVIOUS
<1>. HIDE DEF f, g
<1>6. /\ g \in Engine /\ g.older = f.older /\ Present(g) = Present(f)
      /\ \A s \in Present(f) : Alike(g.sessions[s], f.sessions[s])
  BY <1>1, <1>4, Reconciled
<1>. QED BY <1>2, <1>3, <1>5, <1>6 DEF g

\* A removal keeps a sound engine sound.
LEMMA RemovedSound ==
  ASSUME NEW e, Sound(e), NEW id \in Present(e)
  PROVE  Sound(remove_session(e, id))
<1>. DEFINE g == remove_session(e, id)
<1>0. e \in Engine /\ Ordered(e) /\ AllRolledUp(e) BY DEF Sound
<1>1. /\ g \in Engine
      /\ Present(g) = Present(e) \ {id}
      /\ g.older = {p \in e.older : p[1] # id /\ p[2] # id}
      /\ \A s \in Present(g) : Alike(g.sessions[s], e.sessions[s])
  BY <1>0, Removed
<1>. HIDE DEF g
<1>2. Ordered(g)
  <2>1. e.older \subseteq Present(e) \X Present(e) BY <1>0 DEF Ordered
  <2>2. \A s, t \in Present(g) : <<s, t>> \in g.older <=> <<s, t>> \in e.older
    BY <1>1
  <2>3. g.older \subseteq Present(g) \X Present(g) BY <1>1, <2>1
  <2>4. \A s, t \in Present(g) : <<s, t>> \in g.older <=> s # t /\ <<t, s>> \notin g.older
    BY <1>0, <1>1, <2>2 DEF Ordered
  <2>5. \A s, t, u \in Present(g) :
          <<s, t>> \in g.older /\ <<t, u>> \in g.older => <<s, u>> \in g.older
    BY <1>0, <1>1, <2>2 DEF Ordered
  <2>. QED BY <2>3, <2>4, <2>5 DEF Ordered
<1>3. AllRolledUp(g) BY <1>0, <1>1, RolledUpAlike DEF AllRolledUp
<1>. QED BY <1>1, <1>2, <1>3 DEF Sound, g

\* New runs change their session alone, and bring their rollups with them.
LEMMA Rerun ==
  ASSUME NEW e \in Engine, NEW id \in Present(e), NEW runs \in Runs
  PROVE  LET g == WithRuns(e, id, runs)
         IN  /\ g \in Engine
             /\ Present(g) = Present(e)
             /\ g.older = e.older
             /\ Alike(g.sessions[id], recompute_rollups([e.sessions[id] EXCEPT !.runs = runs]))
             /\ \A s \in SessionIds \ {id} : g.sessions[s] = e.sessions[s]
<1>. DEFINE x == [e.sessions[id] EXCEPT !.runs = runs]
            y == recompute_rollups(x)
            placed == update_unread_for_notify_transition(
                     y, Notifies(e, id), should_notify_session(y, any_soloed(e)))
            g == WithRuns(e, id, runs)
<1>1. e.sessions[id] \in Session /\ id \in SessionIds BY PresentType
<1>2. x \in Session BY <1>1 DEF Session
<1>3. placed \in Session /\ Alike(placed, y)
  <2>1. y \in Session
    <3>. HIDE DEF x
    <3>. QED BY <1>2, Recomputed
  <2>. HIDE DEF y
  <2>. QED BY <2>1, NotifyIsBoolean, Badged
<1>4. g = [e EXCEPT !.sessions[id] = placed] BY DEF WithRuns
<1>. HIDE DEF x, y, placed, g
<1>5. /\ g.sessions = [e.sessions EXCEPT ![id] = placed]
      /\ g.older = e.older
      /\ g = [sessions |-> g.sessions, older |-> g.older]
  BY <1>4 DEF Engine
<1>6. e.sessions \in [SessionIds -> Session \cup {Absent}] /\ e.older \in SUBSET (SessionIds \X SessionIds)
  BY DEF Engine
<1>7. g \in Engine BY <1>3, <1>5, <1>6 DEF Engine
<1>8. Present(g) = Present(e) BY <1>1, <1>3, <1>5, <1>6, AbsentIsNew DEF Present
<1>. QED BY <1>1, <1>3, <1>5, <1>6, <1>7, <1>8 DEF g, x, y

\* Replacing the runs of a session keeps a sound engine sound.
LEMMA RerunSound ==
  ASSUME NEW e, Sound(e), NEW id \in Present(e), NEW runs \in Runs
  PROVE  Sound(WithRuns(e, id, runs))
<1>. DEFINE x == [e.sessions[id] EXCEPT !.runs = runs]
            g == WithRuns(e, id, runs)
<1>0. e \in Engine /\ Ordered(e) /\ AllRolledUp(e) BY DEF Sound
<1>1. x \in Session BY <1>0, PresentType DEF Session
<1>2. /\ g \in Engine /\ Present(g) = Present(e) /\ g.older = e.older
      /\ Alike(g.sessions[id], recompute_rollups(x))
      /\ \A s \in SessionIds \ {id} : g.sessions[s] = e.sessions[s]
  BY <1>0, Rerun
<1>. HIDE DEF x, g
<1>3. Ordered(g) BY <1>0, <1>2, OrderedAlike
<1>4. RolledUp(g.sessions[id]) BY <1>1, <1>2, Recomputed, RolledUpAlike
<1>5. AllRolledUp(g)
  BY <1>0, <1>2, <1>4, PresentType DEF AllRolledUp
<1>. QED BY <1>2, <1>3, <1>5 DEF Sound, g

\* Upserting a run keeps a sound engine sound.
LEMMA UpsertRunSound ==
  ASSUME NEW e, Sound(e), NEW id \in Present(e), NEW rid \in RunIds, NEW run \in AgentRun
  PROVE  Sound(upsert_run(e, id, rid, run))
<1>1. e \in Engine /\ e.sessions[id] \in Session BY PresentType DEF Sound
<1>2. [e.sessions[id].runs EXCEPT ![rid] = run] \in Runs BY <1>1 DEF Session, Runs
<1>. QED BY <1>2, RerunSound DEF upsert_run

\* Removing a run keeps a sound engine sound.
LEMMA RemoveRunSound ==
  ASSUME NEW e, Sound(e), NEW id, NEW rid \in RunIds
  PROVE  Sound(remove_run(e, id, rid))
<1>1. CASE ~HasRun(e, id, rid) BY <1>1 DEF remove_run
<1>2. CASE HasRun(e, id, rid)
  <2>1. id \in Present(e) BY <1>2 DEF HasRun
  <2>2. e \in Engine /\ e.sessions[id] \in Session BY <2>1, PresentType DEF Sound
  <2>3. [e.sessions[id].runs EXCEPT ![rid] = Absent] \in Runs BY <2>2 DEF Session, Runs
  <2>. QED BY <1>2, <2>1, <2>3, RerunSound DEF remove_run
<1>. QED BY <1>1, <1>2

-----------------------------------------------------------------------------
(* Flags.                                                                  *)

\* f shows what e shows, under the flags m and o.
Reflagged(e, f, m, o) ==
  /\ f \in Engine
  /\ f.older = e.older
  /\ Present(f) = Present(e)
  /\ \A s \in Present(e) :
       /\ f.sessions[s].runs = e.sessions[s].runs
       /\ f.sessions[s].rollup_state = e.sessions[s].rollup_state
       /\ f.sessions[s].rollup_urgency = e.sessions[s].rollup_urgency
       /\ f.sessions[s].updated_at = e.sessions[s].updated_at
       /\ f.sessions[s].muted = m[s]
       /\ f.sessions[s].soloed = o[s]

\* Setting flags makes a session of a session.
LEMMA SetFlagsType ==
  ASSUME NEW x \in Session, NEW a \in BOOLEAN, NEW b \in BOOLEAN
  PROVE  LET y == SetFlags(x, a, b)
         IN  /\ y \in Session
             /\ y.runs = x.runs
             /\ y.rollup_state = x.rollup_state /\ y.rollup_urgency = x.rollup_urgency
             /\ y.updated_at = x.updated_at
             /\ y.muted = a /\ y.soloed = b
BY DEF SetFlags, Session

\* Reconciling the badges of f leaves its flags.
LEMMA ReflaggedReconciled ==
  ASSUME NEW e \in Engine, NEW f, NEW m, NEW o, Reflagged(e, f, m, o)
  PROVE  Reflagged(e, reconcile_unread_from(e, f), m, o)
<1>. DEFINE g == reconcile_unread_from(e, f)
<1>1. f \in Engine BY DEF Reflagged
<1>2. /\ g \in Engine /\ g.older = f.older /\ Present(g) = Present(f)
      /\ \A s \in Present(f) : Alike(g.sessions[s], f.sessions[s])
  BY <1>1, Reconciled
<1>. HIDE DEF g
<1>3. Reflagged(e, g, m, o) BY <1>2 DEF Reflagged, Alike
<1>. QED BY <1>3 DEF g

\* A change of flags keeps a sound engine sound.
LEMMA ReflaggedSound ==
  ASSUME NEW e, NEW f, NEW m, NEW o, Sound(e), Reflagged(e, f, m, o)
  PROVE  Sound(f)
<1>1. Ordered(f) BY OrderedAlike DEF Sound, Reflagged
<1>2. AllRolledUp(f) BY DEF Sound, Reflagged, AllRolledUp, RolledUp
<1>. QED BY <1>1, <1>2 DEF Sound, Reflagged

\* One session's flags set and the others' kept.
LEMMA OneReflagged ==
  ASSUME NEW e \in Engine, NEW id \in Present(e), NEW a \in BOOLEAN, NEW b \in BOOLEAN
  PROVE  Reflagged(e, reconcile_unread_from(e, [e EXCEPT !.sessions[id] = SetFlags(@, a, b)]),
                   [s \in Present(e) |-> IF s = id THEN a ELSE e.sessions[s].muted],
                   [s \in Present(e) |-> IF s = id THEN b ELSE e.sessions[s].soloed])
<1>. DEFINE placed == SetFlags(e.sessions[id], a, b)
            f == [e EXCEPT !.sessions[id] = placed]
            m == [s \in Present(e) |-> IF s = id THEN a ELSE e.sessions[s].muted]
            o == [s \in Present(e) |-> IF s = id THEN b ELSE e.sessions[s].soloed]
<1>0. e.sessions[id] \in Session /\ id \in SessionIds BY PresentType
<1>1. /\ placed \in Session
      /\ placed.runs = e.sessions[id].runs
      /\ placed.rollup_state = e.sessions[id].rollup_state
      /\ placed.rollup_urgency = e.sessions[id].rollup_urgency
      /\ placed.updated_at = e.sessions[id].updated_at
      /\ placed.muted = a /\ placed.soloed = b
  BY <1>0, SetFlagsType
<1>. HIDE DEF placed
<1>2. /\ f.sessions = [e.sessions EXCEPT ![id] = placed] /\ f.older = e.older
      /\ f = [sessions |-> f.sessions, older |-> f.older]
  BY DEF Engine
<1>. HIDE DEF f
<1>3. e.sessions \in [SessionIds -> Session \cup {Absent}] /\ e.older \in SUBSET (SessionIds \X SessionIds)
  BY DEF Engine
<1>4. f \in Engine BY <1>1, <1>2, <1>3 DEF Engine
<1>5. Present(f) = Present(e) BY <1>0, <1>1, <1>2, <1>3, AbsentIsNew DEF Present
<1>6. Reflagged(e, f, m, o)
  <2>1. \A s \in Present(e) : s \in SessionIds BY PresentType
  <2>2. f.sessions[id] = placed BY <1>0, <1>2, <1>3
  <2>3. \A s \in Present(e) \ {id} : f.sessions[s] = e.sessions[s] BY <1>2, <1>3, <2>1
  <2>. QED BY <1>1, <1>2, <1>4, <1>5, <2>2, <2>3 DEF Reflagged
<1>. HIDE DEF m, o
<1>7. Reflagged(e, reconcile_unread_from(e, f), m, o) BY <1>6, ReflaggedReconciled
<1>. QED BY <1>7 DEF f, m, o, placed

\* A mute sets muted and clears soloed on its target, and touches no other flag.
LEMMA MuteReflags ==
  ASSUME NEW e \in Engine, NEW id \in Present(e)
  PROVE  Reflagged(e, apply_mute(e, id),
                   [s \in Present(e) |-> IF s = id THEN TRUE ELSE e.sessions[s].muted],
                   [s \in Present(e) |-> IF s = id THEN FALSE ELSE e.sessions[s].soloed])
<1>1. CASE e.sessions[id].muted /\ ~e.sessions[id].soloed
  <2>1. apply_mute(e, id) = e BY <1>1 DEF apply_mute
  <2>2. e.sessions[id] \in Session BY PresentType
  <2>. QED BY <1>1, <2>1, <2>2 DEF Reflagged, Session
<1>2. CASE ~(e.sessions[id].muted /\ ~e.sessions[id].soloed)
  BY <1>2, OneReflagged DEF apply_mute
<1>. QED BY <1>1, <1>2

\* An unmute clears both flags of its target, and touches no other flag.
LEMMA UnmuteReflags ==
  ASSUME NEW e \in Engine, NEW id \in Present(e)
  PROVE  Reflagged(e, apply_unmute(e, id),
                   [s \in Present(e) |-> IF s = id THEN FALSE ELSE e.sessions[s].muted],
                   [s \in Present(e) |-> IF s = id THEN FALSE ELSE e.sessions[s].soloed])
<1>1. CASE ~e.sessions[id].muted /\ ~e.sessions[id].soloed
  <2>1. apply_unmute(e, id) = e BY <1>1 DEF apply_unmute
  <2>2. e.sessions[id] \in Session BY PresentType
  <2>. QED BY <1>1, <2>1, <2>2 DEF Reflagged, Session
<1>2. CASE ~(~e.sessions[id].muted /\ ~e.sessions[id].soloed)
  BY <1>2, OneReflagged DEF apply_unmute
<1>. QED BY <1>1, <1>2

\* A solo leaves soloed on its target only, and unmutes it.
LEMMA SoloReflags ==
  ASSUME NEW e \in Engine, NEW id \in Present(e)
  PROVE  Reflagged(e, apply_solo(e, id),
                   [s \in Present(e) |-> e.sessions[s].muted /\ s # id],
                   [s \in Present(e) |-> s = id])
<1>. DEFINE placed(s) == SetFlags(e.sessions[s], e.sessions[s].muted /\ s # id, s = id)
            f == [e EXCEPT !.sessions = [s \in SessionIds |->
                    IF s \notin Present(e) THEN Absent ELSE placed(s)]]
            m == [s \in Present(e) |-> e.sessions[s].muted /\ s # id]
            o == [s \in Present(e) |-> s = id]
<1>1. \A s \in Present(e) :
        /\ placed(s) \in Session
        /\ placed(s).runs = e.sessions[s].runs
        /\ placed(s).rollup_state = e.sessions[s].rollup_state
        /\ placed(s).rollup_urgency = e.sessions[s].rollup_urgency
        /\ placed(s).updated_at = e.sessions[s].updated_at
        /\ placed(s).muted = (e.sessions[s].muted /\ s # id) /\ placed(s).soloed = (s = id)
  <2>. TAKE s \in Present(e)
  <2>1. e.sessions[s] \in Session BY PresentType
  <2>2. (e.sessions[s].muted /\ s # id) \in BOOLEAN /\ (s = id) \in BOOLEAN OBVIOUS
  <2>. QED BY <2>1, <2>2, SetFlagsType
<1>2. apply_solo(e, id) = reconcile_unread_from(e, f) BY DEF apply_solo
<1>. HIDE DEF placed
<1>10. \A s \in Present(e) : placed(s) \in Session BY <1>1, Zenon
<1>3. /\ f.sessions = [s \in SessionIds |-> IF s \notin Present(e) THEN Absent ELSE placed(s)]
      /\ f.older = e.older
      /\ f = [sessions |-> f.sessions, older |-> f.older]
  BY DEF Engine
<1>. HIDE DEF f
<1>4. e.older \in SUBSET (SessionIds \X SessionIds) BY DEF Engine
<1>5. f \in Engine BY <1>10, <1>3, <1>4 DEF Engine
<1>6. \A s \in Present(e) : s \in SessionIds BY PresentType
<1>7. Present(f) = Present(e) BY <1>10, <1>3, <1>6, AbsentIsNew DEF Present
<1>8. Reflagged(e, f, m, o)
  <2>1. \A s \in Present(e) : f.sessions[s] = placed(s) BY <1>3, <1>6
  <2>2. \A s \in Present(e) : m[s] = (e.sessions[s].muted /\ s # id) /\ o[s] = (s = id) BY Zenon
  <2>. HIDE DEF m, o
  <2>3. \A s \in Present(e) : f.sessions[s].muted = m[s] /\ f.sessions[s].soloed = o[s]
    BY <1>1, <2>1, <2>2, Zenon
  <2>4. \A s \in Present(e) :
          /\ f.sessions[s].runs = e.sessions[s].runs
          /\ f.sessions[s].rollup_state = e.sessions[s].rollup_state
          /\ f.sessions[s].rollup_urgency = e.sessions[s].rollup_urgency
          /\ f.sessions[s].updated_at = e.sessions[s].updated_at
    BY <1>1, <2>1, Zenon
  <2>. QED BY <1>3, <1>5, <1>7, <2>3, <2>4 DEF Reflagged
<1>. HIDE DEF m, o
<1>9. Reflagged(e, reconcile_unread_from(e, f), m, o) BY <1>8, ReflaggedReconciled
<1>. QED BY <1>2, <1>9 DEF m, o

\* Focus clears one badge and changes nothing else.
LEMMA Focused ==
  ASSUME NEW e \in Engine, NEW id
  PROVE  LET g == apply_focus(e, id)
         IN  /\ g \in Engine
             /\ Present(g) = Present(e)
             /\ g.older = e.older
             /\ \A s \in Present(e) : Alike(g.sessions[s], e.sessions[s])
<1>1. CASE id \in Present(e) /\ e.sessions[id].unread
  <2>. DEFINE placed == [e.sessions[id] EXCEPT !.unread = FALSE]
              g == apply_focus(e, id)
  <2>1. e.sessions[id] \in Session /\ id \in SessionIds BY <1>1, PresentType
  <2>2. placed \in Session /\ Alike(placed, e.sessions[id]) BY <2>1 DEF Session, Alike
  <2>3. g = [e EXCEPT !.sessions[id] = placed] BY <1>1 DEF apply_focus
  <2>. HIDE DEF placed, g
  <2>4. /\ g.sessions = [e.sessions EXCEPT ![id] = placed] /\ g.older = e.older
        /\ g = [sessions |-> g.sessions, older |-> g.older]
    BY <2>3 DEF Engine
  <2>5. e.sessions \in [SessionIds -> Session \cup {Absent}] /\ e.older \in SUBSET (SessionIds \X SessionIds)
    BY DEF Engine
  <2>6. g \in Engine BY <2>2, <2>4, <2>5 DEF Engine
  <2>7. Present(g) = Present(e) BY <2>1, <2>2, <2>4, <2>5, AbsentIsNew DEF Present
  <2>8. \A s \in Present(e) : Alike(g.sessions[s], e.sessions[s])
    BY <2>1, <2>2, <2>4, <2>5, PresentType DEF Alike
  <2>. QED BY <2>4, <2>6, <2>7, <2>8 DEF g
<1>2. CASE ~(id \in Present(e) /\ e.sessions[id].unread)
  BY <1>2 DEF apply_focus, Alike
<1>. QED BY <1>1, <1>2

\* A focus keeps a sound engine sound.
LEMMA FocusSound ==
  ASSUME NEW e, Sound(e), NEW id
  PROVE  Sound(apply_focus(e, id))
<1>. DEFINE g == apply_focus(e, id)
<1>1. /\ g \in Engine /\ Present(g) = Present(e) /\ g.older = e.older
      /\ \A s \in Present(e) : Alike(g.sessions[s], e.sessions[s])
  BY Focused DEF Sound
<1>. HIDE DEF g
<1>2. Ordered(g) BY <1>1, OrderedAlike DEF Sound
<1>3. AllRolledUp(g) BY <1>1, RolledUpAlike DEF Sound, AllRolledUp
<1>. QED BY <1>1, <1>2, <1>3 DEF Sound, g

-----------------------------------------------------------------------------
(* Badges.  What each operation of the engine does to them.                *)

\* No badge is on a session that does not ping.
BadgesTrue(e) == \A s \in Present(e) : e.sessions[s].unread => Notifies(e, s)

\* From e to f every new ping gets its badge, and every badge of f is true.
BadgeStep(e, f) ==
  /\ \A s \in SessionIds : Notifies(f, s) /\ ~Notifies(e, s) => f.sessions[s].unread
  /\ BadgesTrue(f)

\* Pings look at nothing but rollups and flags.
LEMMA NotifiesAlike ==
  ASSUME NEW e, NEW f, Present(f) = Present(e),
         \A s \in Present(e) : Alike(f.sessions[s], e.sessions[s])
  PROVE  \A s : Notifies(f, s) <=> Notifies(e, s)
<1>1. any_soloed(f) <=> any_soloed(e) BY DEF any_soloed, Alike
<1>. QED BY <1>1 DEF Notifies, should_notify_session, Alike

\* The badge after an edge is whether the session pings now; without one it stays.
LEMMA BadgeSet ==
  ASSUME NEW x \in Session, NEW a \in BOOLEAN, NEW b \in BOOLEAN
  PROVE  LET y == update_unread_for_notify_transition(x, a, b)
         IN  /\ (x.unread => a) /\ y.unread => b
             /\ b /\ ~a => y.unread
BY DEF update_unread_for_notify_transition, Session

\* Reconciling leaves true badges, whatever changed but the badges.
LEMMA ReconciledBadges ==
  ASSUME NEW e \in Engine, NEW f \in Engine, BadgesTrue(e), Present(f) \subseteq Present(e),
         \A s \in Present(f) : f.sessions[s].unread = e.sessions[s].unread
  PROVE  BadgeStep(e, reconcile_unread_from(e, f))
<1>. DEFINE g == reconcile_unread_from(e, f)
            placed(s) == update_unread_for_notify_transition(f.sessions[s], Notifies(e, s), Notifies(f, s))
<1>1. /\ g \in Engine /\ Present(g) = Present(f)
      /\ \A s \in Present(f) : Alike(g.sessions[s], f.sessions[s])
  BY Reconciled
<1>2. \A s \in Present(f) : s \in SessionIds /\ f.sessions[s] \in Session BY PresentType
<1>3. \A s \in Present(f) : g.sessions[s] = placed(s)
  BY <1>2 DEF reconcile_unread_from, Engine
<1>4. \A s \in Present(f) : /\ (f.sessions[s].unread => Notifies(e, s)) /\ placed(s).unread => Notifies(f, s)
                            /\ Notifies(f, s) /\ ~Notifies(e, s) => placed(s).unread
  BY <1>2, BadgeSet, NotifyIsBoolean
<1>. HIDE DEF g, placed
<1>5. \A s : Notifies(g, s) <=> Notifies(f, s) BY <1>1, NotifiesAlike
<1>6. \A s \in Present(f) : f.sessions[s].unread => Notifies(e, s) BY DEF BadgesTrue
<1>7. \A s : Notifies(f, s) => s \in Present(f) BY DEF Notifies
<1>8. BadgesTrue(g) BY <1>1, <1>3, <1>4, <1>5, <1>6 DEF BadgesTrue
<1>9. \A s \in SessionIds : Notifies(g, s) /\ ~Notifies(e, s) => g.sessions[s].unread
  BY <1>3, <1>4, <1>5, <1>7
<1>10. BadgeStep(e, g) BY <1>8, <1>9 DEF BadgeStep
<1>. QED BY <1>10 DEF g

\* One session put with its old flags and badge, and its edge accounted for.
LEMMA PutBadges ==
  ASSUME NEW e \in Engine, NEW g \in Engine, NEW id \in SessionIds, NEW y \in Session, BadgesTrue(e),
         g.sessions[id] = update_unread_for_notify_transition(
                            y, Notifies(e, id), should_notify_session(y, any_soloed(e))),
         Present(g) = Present(e) \cup {id},
         \A s \in SessionIds \ {id} : g.sessions[s] = e.sessions[s],
         id \in Present(e) => y.soloed = e.sessions[id].soloed /\ y.unread = e.sessions[id].unread,
         id \notin Present(e) => ~y.soloed /\ ~y.unread
  PROVE  BadgeStep(e, g)
<1>. DEFINE a == Notifies(e, id)
            b == should_notify_session(y, any_soloed(e))
<1>0. a \in BOOLEAN /\ b \in BOOLEAN BY NotifyIsBoolean
<1>1. g.sessions[id] = update_unread_for_notify_transition(y, a, b) OBVIOUS
<1>2. y.unread => a BY DEF BadgesTrue
<1>. HIDE DEF a, b
<1>3. Alike(g.sessions[id], y) BY <1>0, <1>1, Badged
<1>4. (g.sessions[id].unread => b) /\ (b /\ ~a => g.sessions[id].unread)
  BY <1>0, <1>1, <1>2, BadgeSet
<1>5. \A s \in Present(e) : s \in SessionIds BY PresentType
<1>6. any_soloed(g) <=> any_soloed(e) BY <1>3, <1>5 DEF any_soloed, Alike
<1>7. Notifies(g, id) <=> b BY <1>3, <1>6 DEF b, Notifies, should_notify_session, Alike
<1>8. \A s \in SessionIds \ {id} : Notifies(g, s) <=> Notifies(e, s)
  BY <1>6 DEF Notifies, should_notify_session
<1>9. BadgesTrue(g) BY <1>4, <1>5, <1>7, <1>8 DEF BadgesTrue
<1>10. \A s \in SessionIds : Notifies(g, s) /\ ~Notifies(e, s) => g.sessions[s].unread
  BY <1>4, <1>7, <1>8 DEF a
<1>. QED BY <1>9, <1>10 DEF BadgeStep

\* A session that comes, or comes again with the flags and the badge it had.
LEMMA RegisterBadges ==
  ASSUME NEW e \in Engine, NEW id \in SessionIds, NEW x \in Session, BadgesTrue(e),
         id \in Present(e) => x.soloed = e.sessions[id].soloed /\ x.unread = e.sessions[id].unread,
         id \notin Present(e) => ~x.soloed /\ ~x.unread
  PROVE  BadgeStep(e, upsert_session(e, id, x))
<1>. DEFINE y == recompute_rollups(x)
            g == upsert_session(e, id, x)
<1>1. y \in Session /\ y.soloed = x.soloed BY Recomputed
<1>2. y.unread = x.unread BY DEF recompute_rollups, Session
<1>3. /\ g \in Engine /\ Present(g) = Present(e) \cup {id}
      /\ \A s \in SessionIds \ {id} : g.sessions[s] = e.sessions[s]
  BY Upserted
<1>4. g.sessions[id] = update_unread_for_notify_transition(
                         y, Notifies(e, id), should_notify_session(y, any_soloed(e)))
  BY DEF upsert_session, Engine
<1>. HIDE DEF y, g
<1>5. BadgeStep(e, g) BY <1>1, <1>2, <1>3, <1>4, PutBadges
<1>. QED BY <1>5 DEF g

\* A session whose runs change.
LEMMA RerunBadges ==
  ASSUME NEW e \in Engine, NEW id \in Present(e), NEW runs \in Runs, BadgesTrue(e)
  PROVE  BadgeStep(e, WithRuns(e, id, runs))
<1>. DEFINE x == [e.sessions[id] EXCEPT !.runs = runs]
            y == recompute_rollups(x)
            g == WithRuns(e, id, runs)
<1>0. id \in SessionIds /\ e.sessions[id] \in Session BY PresentType
<1>1. x \in Session /\ x.soloed = e.sessions[id].soloed /\ x.unread = e.sessions[id].unread
  BY <1>0 DEF Session
<1>2. /\ g \in Engine /\ Present(g) = Present(e) \cup {id}
      /\ \A s \in SessionIds \ {id} : g.sessions[s] = e.sessions[s]
  BY <1>0, Rerun
<1>3. g.sessions[id] = update_unread_for_notify_transition(
                         y, Notifies(e, id), should_notify_session(y, any_soloed(e)))
  BY <1>0 DEF WithRuns, Engine
<1>. HIDE DEF x, g
<1>4. y \in Session /\ y.soloed = x.soloed BY <1>1, Recomputed
<1>5. y.unread = x.unread BY <1>1 DEF recompute_rollups, Session
<1>. HIDE DEF y
<1>6. BadgeStep(e, g) BY <1>0, <1>1, <1>2, <1>3, <1>4, <1>5, PutBadges
<1>. QED BY <1>6 DEF g

\* A session that goes, perhaps the one whose solo silenced the others.
LEMMA RemovalBadges ==
  ASSUME NEW e \in Engine, NEW id \in Present(e), BadgesTrue(e)
  PROVE  BadgeStep(e, remove_session(e, id))
<1>. DEFINE f == [sessions |-> [e.sessions EXCEPT ![id] = Absent],
                  older    |-> {p \in e.older : p[1] # id /\ p[2] # id}]
<1>1. f \in Engine BY DEF Engine
<1>2. Present(f) = Present(e) \ {id} BY DEF Present, Engine
<1>3. \A s \in Present(f) : f.sessions[s] = e.sessions[s] BY <1>2, PresentType DEF Engine
<1>4. remove_session(e, id) = reconcile_unread_from(e, f) BY DEF remove_session
<1>. HIDE DEF f
<1>. QED BY <1>1, <1>2, <1>3, <1>4, ReconciledBadges

\* A mute, an unmute or a solo.
LEMMA CommandBadges ==
  ASSUME NEW e \in Engine, NEW id \in Present(e), BadgesTrue(e),
         NEW g \in {apply_mute(e, id), apply_unmute(e, id), apply_solo(e, id)}
  PROVE  BadgeStep(e, g)
<1>0. id \in SessionIds /\ e.sessions[id] \in Session BY PresentType
<1>1. BadgeStep(e, e) BY DEF BadgeStep
<1>2. ASSUME NEW a \in BOOLEAN, NEW b \in BOOLEAN
      PROVE  BadgeStep(e, reconcile_unread_from(e, [e EXCEPT !.sessions[id] = SetFlags(e.sessions[id], a, b)]))
  <2>. DEFINE placed == SetFlags(e.sessions[id], a, b)
              f == [e EXCEPT !.sessions[id] = placed]
  <2>1. placed \in Session /\ placed.unread = e.sessions[id].unread BY <1>0 DEF SetFlags, Session
  <2>. HIDE DEF placed
  <2>2. f \in Engine BY <2>1 DEF Engine
  <2>3. f.sessions = [e.sessions EXCEPT ![id] = placed] BY DEF Engine
  <2>. HIDE DEF f
  <2>4. Present(f) = Present(e) BY <1>0, <2>1, <2>3, AbsentIsNew DEF Present, Engine
  <2>5. \A s \in Present(f) : f.sessions[s].unread = e.sessions[s].unread
    BY <2>1, <2>3, <2>4, PresentType DEF Engine
  <2>6. BadgeStep(e, reconcile_unread_from(e, f)) BY <2>2, <2>4, <2>5, ReconciledBadges
  <2>. QED BY <2>6 DEF f, placed
<1>3. CASE g = apply_mute(e, id) BY <1>1, <1>2, <1>3 DEF apply_mute
<1>4. CASE g = apply_unmute(e, id) BY <1>1, <1>2, <1>4 DEF apply_unmute
<1>5. CASE g = apply_solo(e, id)
  <2>. DEFINE placed(s) == SetFlags(e.sessions[s], e.sessions[s].muted /\ s # id, s = id)
              f == [e EXCEPT !.sessions = [s \in SessionIds |->
                      IF s \notin Present(e) THEN Absent ELSE placed(s)]]
  <2>1. \A s \in Present(e) : placed(s) \in Session /\ placed(s).unread = e.sessions[s].unread
    <3>. TAKE s \in Present(e)
    <3>1. e.sessions[s] \in Session BY PresentType
    <3>2. (e.sessions[s].muted /\ s # id) \in BOOLEAN /\ (s = id) \in BOOLEAN OBVIOUS
    <3>3. placed(s) \in Session BY <3>1, <3>2, SetFlagsType
    <3>4. placed(s).unread = e.sessions[s].unread BY <3>1 DEF SetFlags, Session
    <3>. QED BY <3>3, <3>4
  <2>2. g = reconcile_unread_from(e, f) BY <1>5 DEF apply_solo
  <2>. HIDE DEF placed
  <2>3. /\ f.sessions = [s \in SessionIds |-> IF s \notin Present(e) THEN Absent ELSE placed(s)]
        /\ f = [sessions |-> f.sessions, older |-> e.older]
    BY DEF Engine
  <2>. HIDE DEF f
  <2>4. f \in Engine BY <2>1, <2>3 DEF Engine
  <2>5. Present(f) = Present(e) BY <2>1, <2>3, PresentType, AbsentIsNew DEF Present
  <2>6. \A s \in Present(f) : f.sessions[s].unread = e.sessions[s].unread
    BY <2>1, <2>3, <2>5, PresentType
  <2>. QED BY <2>2, <2>4, <2>5, <2>6, ReconciledBadges
<1>. QED BY <1>3, <1>4, <1>5

\* A focus takes a badge off.
LEMMA FocusBadges ==
  ASSUME NEW e \in Engine, NEW id, BadgesTrue(e)
  PROVE  BadgeStep(e, apply_focus(e, id))
<1>. DEFINE g == apply_focus(e, id)
<1>1. /\ g \in Engine /\ Present(g) = Present(e)
      /\ \A s \in Present(e) : Alike(g.sessions[s], e.sessions[s])
  BY Focused
<1>2. \A s \in Present(e) : g.sessions[s].unread => e.sessions[s].unread
  BY PresentType DEF apply_focus, Engine, Session
<1>. HIDE DEF g
<1>3. \A s : Notifies(g, s) <=> Notifies(e, s) BY <1>1, NotifiesAlike
<1>4. BadgeStep(e, g) BY <1>1, <1>2, <1>3 DEF BadgeStep, BadgesTrue
<1>. QED BY <1>4 DEF g

-----------------------------------------------------------------------------
(* Reading events one after the other.                                     *)

\* A set of numbers that is not empty has a least one.
LEMMA LeastNat ==
  ASSUME NEW T \in SUBSET Nat, T # {}
  PROVE  \E x \in T : \A y \in T : x <= y
<1>. DEFINE Less == {ss \in Nat \X Nat : ss[1] < ss[2]}
<1>1. IsWellFoundedOn(Less, Nat) BY NatLessThanWellFounded DEF OpToRel
<1>. HIDE DEF Less
<1>2. PICK x \in T : \A y \in T : ~ (<<y, x>> \in Less) BY <1>1, WFMin
<1>3. ASSUME NEW y \in T PROVE x <= y
  <2>1. ~ (<<y, x>> \in Less) BY <1>2
  <2>2. x \in Nat /\ y \in Nat OBVIOUS
  <2>3. ~ (y < x) BY <2>1, <2>2 DEF Less
  <2>. QED BY <2>2, <2>3
<1>. QED BY <1>3

\* g lists the models a face passes through as it reads the first n of events.
Passes(g, n, m, events) ==
  g = [k \in 0..n |-> IF k = 0 THEN m ELSE InboxModel_apply(g[k - 1], events[k])]

\* There is such a list, for every number of events.
LEMMA PassesExist ==
  ASSUME NEW m, NEW events, NEW n \in Nat
  PROVE  \E g : Passes(g, n, m, events)
<1>. DEFINE Lacks == {k \in Nat : ~ \E g : Passes(g, k, m, events)}
<1>. SUFFICES ASSUME Lacks # {} PROVE FALSE OBVIOUS
<1>1. PICK l \in Lacks : \A k \in Lacks : l <= k
  <2>. HIDE DEF Lacks
  <2>. SUFFICES Lacks \in SUBSET Nat BY LeastNat
  <2>. QED BY DEF Lacks
<1>2. CASE l = 0
  <2>1. Passes([k \in 0..0 |-> m], 0, m, events) BY DEF Passes
  <2>. QED BY <1>2, <2>1
<1>3. CASE l # 0
  <2>1. l - 1 \in Nat /\ l - 1 \notin Lacks BY <1>1, <1>3
  <2>2. PICK g : Passes(g, l - 1, m, events) BY <2>1
  <2>. DEFINE h == [k \in 0..l |-> IF k = l THEN InboxModel_apply(g[l - 1], events[l]) ELSE g[k]]
  <2>3. g = [k \in 0..(l - 1) |-> IF k = 0 THEN m ELSE InboxModel_apply(g[k - 1], events[k])]
    BY <2>2 DEF Passes
  <2>4. \A k \in 0..l : h[k] = IF k = 0 THEN m ELSE InboxModel_apply(h[k - 1], events[k])
    <3>. TAKE k \in 0..l
    <3>1. CASE k = 0 BY <1>3, <2>1, <2>3, <3>1
    <3>2. CASE k # 0 /\ k # l
      <4>1. k \in 0..(l - 1) /\ k - 1 \in 0..l /\ k - 1 # l BY <2>1, <3>2
      <4>2. h[k] = g[k] /\ h[k - 1] = g[k - 1] BY <3>2, <4>1
      <4>3. g[k] = InboxModel_apply(g[k - 1], events[k]) BY <2>3, <3>2, <4>1
      <4>. QED BY <3>2, <4>2, <4>3
    <3>3. CASE k = l
      <4>1. l - 1 \in 0..l /\ l - 1 # l BY <2>1
      <4>. QED BY <1>3, <3>3, <4>1
    <3>. QED BY <3>1, <3>2, <3>3
  <2>5. h = [k \in 0..l |-> IF k = 0 THEN m ELSE InboxModel_apply(h[k - 1], events[k])]
    BY <2>4
  <2>. HIDE DEF h
  <2>6. Passes(h, l, m, events) BY <2>5 DEF Passes
  <2>. QED BY <2>6
<1>. QED BY <1>2, <1>3

\* ... and only one.
LEMMA PassesUnique ==
  ASSUME NEW m, NEW events, NEW n \in Nat, NEW g, NEW h,
         Passes(g, n, m, events), Passes(h, n, m, events)
  PROVE  g[n] = h[n]
<1>. DEFINE Differ == {k \in 0..n : g[k] # h[k]}
<1>. SUFFICES ASSUME Differ # {} PROVE FALSE OBVIOUS
<1>1. PICK l \in Differ : \A k \in Differ : l <= k
  <2>. HIDE DEF Differ
  <2>. SUFFICES Differ \in SUBSET Nat BY LeastNat
  <2>. QED BY DEF Differ
<1>2. /\ g[l] = IF l = 0 THEN m ELSE InboxModel_apply(g[l - 1], events[l])
      /\ h[l] = IF l = 0 THEN m ELSE InboxModel_apply(h[l - 1], events[l])
  BY <1>1 DEF Passes
<1>3. l # 0 BY <1>2
<1>4. l - 1 \in 0..n /\ l - 1 \notin Differ BY <1>1, <1>3
<1>5. g[l - 1] = h[l - 1] BY <1>4
<1>. QED BY <1>1, <1>2, <1>3, <1>5

\* apply_all is where the list ends.
LEMMA Applied ==
  ASSUME NEW m, NEW events, Len(events) \in Nat, NEW g, Passes(g, Len(events), m, events)
  PROVE  apply_all(m, events) = g[Len(events)]
<1>. DEFINE n == Len(events)
            a == CHOOSE a : Passes(a, n, m, events)
<1>1. Passes(a, n, m, events) OBVIOUS
<1>2. apply_all(m, events) = a[n] BY DEF apply_all, Passes
<1>. HIDE DEF a
<1>. QED BY <1>1, <1>2, PassesUnique

\* Reading nothing changes nothing.
LEMMA AppliedNone ==
  ASSUME NEW m
  PROVE  apply_all(m, <<>>) = m
<1>1. Passes([k \in 0..0 |-> m], Len(<<>>), m, <<>>) BY DEF Passes
<1>. QED BY <1>1, Applied

\* Reading one sequence and then another is reading them as one.
LEMMA AppliedConcat ==
  ASSUME NEW S, NEW m, NEW s \in Seq(S), NEW t \in Seq(S)
  PROVE  apply_all(m, s \o t) = apply_all(apply_all(m, s), t)
<1>. DEFINE st == s \o t
            i  == Len(s)
            j  == Len(t)
<1>1. /\ i \in Nat /\ j \in Nat /\ Len(st) = i + j
      /\ \A k \in 1..i : st[k] = s[k]
      /\ \A k \in 1..j : st[i + k] = t[k]
  OBVIOUS
<1>. HIDE DEF st, i, j
<1>2. PICK g : Passes(g, i + j, m, st)
  <2>1. i + j \in Nat BY <1>1
  <2>. QED BY <2>1, PassesExist
<1>3. g = [k \in 0..(i + j) |-> IF k = 0 THEN m ELSE InboxModel_apply(g[k - 1], st[k])]
  BY <1>2 DEF Passes
<1>. DEFINE gs == [k \in 0..i |-> g[k]]
            gt == [k \in 0..j |-> g[i + k]]
<1>4. Passes(gs, i, m, s)
  <2>1. \A k \in 0..i : gs[k] = IF k = 0 THEN m ELSE InboxModel_apply(gs[k - 1], s[k])
    <3>. TAKE k \in 0..i
    <3>1. CASE k = 0 BY <1>1, <1>3, <3>1
    <3>2. CASE k # 0
      <4>1. k \in 1..i /\ k \in 0..(i + j) /\ k - 1 \in 0..i BY <1>1, <3>2
      <4>. QED BY <1>1, <1>3, <3>2, <4>1
    <3>. QED BY <3>1, <3>2
  <2>2. gs = [k \in 0..i |-> IF k = 0 THEN m ELSE InboxModel_apply(gs[k - 1], s[k])]
    BY <2>1
  <2>. HIDE DEF gs
  <2>. QED BY <2>2 DEF Passes
<1>5. Passes(gt, j, g[i], t)
  <2>1. \A k \in 0..j : gt[k] = IF k = 0 THEN g[i] ELSE InboxModel_apply(gt[k - 1], t[k])
    <3>. TAKE k \in 0..j
    <3>1. CASE k = 0 BY <1>1, <3>1
    <3>2. CASE k # 0
      <4>1. k \in 1..j /\ i + k \in 0..(i + j) /\ k - 1 \in 0..j /\ i + k # 0 BY <1>1, <3>2
      <4>2. gt[k] = g[i + k] /\ gt[k - 1] = g[i + (k - 1)] BY <4>1
      <4>3. g[i + k] = InboxModel_apply(g[(i + k) - 1], st[i + k]) BY <1>3, <4>1
      <4>4. (i + k) - 1 = i + (k - 1) /\ st[i + k] = t[k] BY <1>1, <4>1
      <4>. QED BY <3>2, <4>2, <4>3, <4>4
    <3>. QED BY <3>1, <3>2
  <2>2. gt = [k \in 0..j |-> IF k = 0 THEN g[i] ELSE InboxModel_apply(gt[k - 1], t[k])]
    BY <2>1
  <2>. HIDE DEF gt
  <2>. QED BY <2>2 DEF Passes
<1>6. apply_all(m, s) = g[i]
  <2>1. gs[i] = g[i] BY <1>1
  <2>. HIDE DEF gs
  <2>. QED BY <1>1, <1>4, <2>1, Applied DEF i
<1>7. apply_all(g[i], t) = g[i + j]
  <2>1. gt[j] = g[i + j] BY <1>1
  <2>. HIDE DEF gt
  <2>. QED BY <1>1, <1>5, <2>1, Applied DEF j
<1>8. apply_all(m, st) = g[i + j] BY <1>1, <1>2, Applied
<1>. QED BY <1>6, <1>7, <1>8 DEF st

\* Reading one event is one step of the reducer.
LEMMA AppliedOne ==
  ASSUME NEW m, NEW ev
  PROVE  apply_all(m, <<ev>>) = InboxModel_apply(m, ev)
<1>. DEFINE g == [k \in 0..1 |-> IF k = 0 THEN m ELSE InboxModel_apply(m, ev)]
<1>1. Len(<<ev>>) = 1 /\ <<ev>>[1] = ev OBVIOUS
<1>2. \A k \in 0..1 : g[k] = IF k = 0 THEN m ELSE InboxModel_apply(g[k - 1], <<ev>>[k])
  OBVIOUS
<1>3. Passes(g, 1, m, <<ev>>)
  <2>1. g = [k \in 0..1 |-> IF k = 0 THEN m ELSE InboxModel_apply(g[k - 1], <<ev>>[k])]
    BY <1>2
  <2>. HIDE DEF g
  <2>. QED BY <2>1 DEF Passes
<1>4. g[1] = InboxModel_apply(m, ev) OBVIOUS
<1>. HIDE DEF g
<1>. QED BY <1>1, <1>3, <1>4, Applied

-----------------------------------------------------------------------------
(* The session.updated events of a commit.                                 *)

\* The order gives every session a place of its own, from the first to the last.
LEMMA Places ==
  ASSUME NEW f, Ordered(f), NEW ids \in SUBSET Present(f), IsFiniteSet(ids)
  PROVE  /\ Cardinality(ids) \in Nat
         /\ \A s \in ids : place(f, ids, s) \in 1..Cardinality(ids)
         /\ \A s, t \in ids : place(f, ids, s) = place(f, ids, t) => s = t
         /\ \A i \in 1..Cardinality(ids) :
              at_place(f, ids, i) \in ids /\ place(f, ids, at_place(f, ids, i)) = i
<1>. DEFINE n == Cardinality(ids)
            upto(s) == {t \in ids : t = s \/ <<t, s>> \in f.older}
            p == [s \in ids |-> place(f, ids, s)]
<1>1. n \in Nat BY FS_CardinalityType
<1>2. \A s \in ids : /\ upto(s) \in SUBSET ids /\ s \in upto(s)
                     /\ IsFiniteSet(upto(s))
                     /\ place(f, ids, s) = Cardinality(upto(s))
  BY FS_Subset DEF place
<1>3. ASSUME NEW s \in ids PROVE place(f, ids, s) \in 1..n
  <2>. DEFINE u == upto(s)
  <2>1. u \in SUBSET ids /\ u # {} /\ IsFiniteSet(u) /\ place(f, ids, s) = Cardinality(u)
    BY <1>2
  <2>. HIDE DEF u
  <2>2. Cardinality(u) \in Nat BY <2>1, FS_CardinalityType
  <2>3. Cardinality(u) # 0 BY <2>1, FS_EmptySet
  <2>4. Cardinality(u) <= n BY <2>1, FS_Subset
  <2>. QED BY <1>1, <2>1, <2>2, <2>3, <2>4
<1>4. ASSUME NEW s \in ids, NEW t \in ids, <<s, t>> \in f.older
      PROVE  place(f, ids, s) # place(f, ids, t)
  <2>1. s # t /\ <<t, s>> \notin f.older BY <1>4 DEF Ordered
  <2>2. upto(s) \subseteq upto(t) BY <1>4 DEF Ordered
  <2>3. t \in upto(t) /\ t \notin upto(s) BY <2>1
  <2>. DEFINE us == upto(s)
              ut == upto(t)
  <2>4. /\ us \in SUBSET ut /\ us # ut /\ IsFiniteSet(ut)
        /\ place(f, ids, s) = Cardinality(us) /\ place(f, ids, t) = Cardinality(ut)
    BY <1>2, <2>2, <2>3
  <2>. HIDE DEF us, ut
  <2>. QED BY <2>4, FS_Subset
<1>5. ASSUME NEW s \in ids, NEW t \in ids, place(f, ids, s) = place(f, ids, t) PROVE s = t
  <2>1. s = t \/ <<s, t>> \in f.older \/ <<t, s>> \in f.older BY DEF Ordered
  <2>. QED BY <1>4, <1>5, <2>1
<1>6. p \in Surjection(ids, 1..n)
  <2>. HIDE DEF n
  <2>1. p \in [ids -> 1..n] BY <1>3
  <2>2. \A s, t \in ids : p[s] = p[t] => s = t BY <1>5
  <2>3. IsFiniteSet(1..n) /\ Cardinality(1..n) = n BY <1>1, FS_Interval
  <2>. HIDE DEF p
  <2>4. p \in Injection(ids, 1..n) BY <2>1, <2>2 DEF Injection, IsInjective
  <2>. QED BY <2>3, <2>4, FS_Injection DEF n
<1>7. ASSUME NEW i \in 1..n
      PROVE  at_place(f, ids, i) \in ids /\ place(f, ids, at_place(f, ids, i)) = i
  <2>1. \E s \in ids : p[s] = i BY <1>6 DEF Surjection
  <2>2. \E s \in ids : place(f, ids, s) = i BY <2>1
  <2>. QED BY <2>2 DEF at_place
<1>. QED BY <1>1, <1>3, <1>5, <1>7

\* They set the sessions they are about, and leave the others and the order.
LEMMA UpdatesApplied ==
  ASSUME NEW f \in Engine, Ordered(f), NEW ids \in SUBSET Present(f), IsFiniteSet(ids),
         NEW m \in Engine, ids \subseteq Present(m)
  PROVE  apply_all(m, updated_events_for(f, ids)) =
           [sessions |-> [s \in SessionIds |-> IF s \in ids THEN f.sessions[s] ELSE m.sessions[s]],
            older    |-> m.older]
<1>. DEFINE n == Cardinality(ids)
            events == updated_events_for(f, ids)
            rows(k) == [s \in SessionIds |->
                          IF s \in ids /\ place(f, ids, s) <= k THEN f.sessions[s] ELSE m.sessions[s]]
            g == [k \in 0..n |-> [sessions |-> rows(k), older |-> m.older]]
<1>1. /\ n \in Nat
      /\ \A s \in ids : place(f, ids, s) \in 1..n
      /\ \A s, t \in ids : place(f, ids, s) = place(f, ids, t) => s = t
      /\ \A i \in 1..n : at_place(f, ids, i) \in ids /\ place(f, ids, at_place(f, ids, i)) = i
  BY Places
<1>2. /\ events = [i \in 1..n |->
                     SessionUpdated(at_place(f, ids, i), f.sessions[at_place(f, ids, i)])]
      /\ Len(events) = n
  BY <1>1 DEF updated_events_for
<1>3. ids \subseteq SessionIds BY PresentType
<1>. HIDE DEF n, events
<1>4. rows(0) = m.sessions BY <1>1 DEF Engine
<1>5. m = [sessions |-> m.sessions, older |-> m.older] BY DEF Engine
<1>6. ASSUME NEW k \in 1..n
      PROVE  g[k] = InboxModel_apply(g[k - 1], events[k])
  <2>. DEFINE a == at_place(f, ids, k)
              e == [sessions |-> rows(k - 1), older |-> m.older]
  <2>1. a \in ids /\ place(f, ids, a) = k /\ a \in SessionIds BY <1>1, <1>3
  <2>2. events[k] = SessionUpdated(a, f.sessions[a]) BY <1>2
  <2>3. g[k - 1] = e /\ g[k] = [sessions |-> rows(k), older |-> m.older] BY <1>1
  <2>4. a \in Present(e)
    <3>1. e.sessions[a] = f.sessions[a] \/ e.sessions[a] = m.sessions[a] BY <2>1
    <3>2. f.sessions[a] # Absent /\ m.sessions[a] # Absent BY <2>1 DEF Present
    <3>. QED BY <2>1, <3>1, <3>2 DEF Present
  <2>5. InboxModel_apply(e, SessionUpdated(a, f.sessions[a])) = put(e, a, f.sessions[a])
    BY DEF InboxModel_apply, SessionUpdated
  <2>6. put(e, a, f.sessions[a]) =
          [sessions |-> [rows(k - 1) EXCEPT ![a] = f.sessions[a]], older |-> m.older]
    <3>. HIDE DEF a
    <3>. QED BY <2>4 DEF put
  <2>7. [rows(k - 1) EXCEPT ![a] = f.sessions[a]] = rows(k)
    <3>. HIDE DEF a
    <3>1. ASSUME NEW s \in SessionIds
          PROVE  [rows(k - 1) EXCEPT ![a] = f.sessions[a]][s] = rows(k)[s]
      <4>1. CASE s = a BY <2>1, <4>1
      <4>2. CASE s # a /\ s \in ids
        <5>1. place(f, ids, s) # k /\ place(f, ids, s) \in Nat BY <1>1, <2>1, <4>2
        <5>2. place(f, ids, s) <= k <=> place(f, ids, s) <= k - 1 BY <5>1
        <5>. QED BY <4>2, <5>2
      <4>3. CASE s # a /\ s \notin ids BY <4>3
      <4>. QED BY <4>1, <4>2, <4>3
    <3>. QED BY <2>1, <3>1
  <2>. QED BY <2>2, <2>3, <2>5, <2>6, <2>7
<1>7. g[0] = m BY <1>1, <1>4, <1>5
<1>8. Passes(g, n, m, events)
  <2>. HIDE DEF g
  <2>1. \A k \in 0..n : g[k] = IF k = 0 THEN m ELSE InboxModel_apply(g[k - 1], events[k])
    BY <1>1, <1>6, <1>7
  <2>2. g = [k \in 0..n |-> g[k]] BY DEF g
  <2>3. g = [k \in 0..n |-> IF k = 0 THEN m ELSE InboxModel_apply(g[k - 1], events[k])]
    BY <2>1, <2>2
  <2>. QED BY <2>3 DEF Passes
<1>9. apply_all(m, events) = g[n]
  <2>. HIDE DEF g
  <2>. QED BY <1>1, <1>2, <1>8, Applied
<1>10. rows(n) = [s \in SessionIds |-> IF s \in ids THEN f.sessions[s] ELSE m.sessions[s]]
  BY <1>1
<1>. QED BY <1>1, <1>9, <1>10 DEF events

-----------------------------------------------------------------------------
(* The events of each mutation tell all of it.                             *)

\* A projection of a log.
Well(e) == Sound(e) /\ IsFiniteSet(Present(e))

\* What the Hub broadcasts: no snapshots, and sessions rolled up.
Sent == {ev \in Event : /\ ev.type # "fleet.snapshot"
                        /\ ev.type = "session.updated" => RolledUp(ev.session)}

LEMMA UpdateSent ==
  ASSUME NEW id \in SessionIds, NEW x \in Session, RolledUp(x)
  PROVE  SessionUpdated(id, x) \in Sent
BY DEF SessionUpdated, Sent, Event

LEMMA UpdatesSent ==
  ASSUME NEW f, Sound(f), NEW ids \in SUBSET Present(f), IsFiniteSet(ids)
  PROVE  updated_events_for(f, ids) \in Seq(Sent)
<1>1. /\ Cardinality(ids) \in Nat
      /\ \A i \in 1..Cardinality(ids) : at_place(f, ids, i) \in ids
  BY Places DEF Sound
<1>2. \A s \in ids : s \in SessionIds /\ f.sessions[s] \in Session /\ RolledUp(f.sessions[s])
  BY PresentType DEF Sound, AllRolledUp
<1>3. \A i \in 1..Cardinality(ids) :
        SessionUpdated(at_place(f, ids, i), f.sessions[at_place(f, ids, i)]) \in Sent
  BY <1>1, <1>2, UpdateSent
<1>. QED BY <1>1, <1>3 DEF updated_events_for

\* An engine is its sessions and their order.
LEMMA SameEngine ==
  ASSUME NEW e \in Engine, NEW f \in Engine, e.older = f.older,
         \A s \in SessionIds : e.sessions[s] = f.sessions[s]
  PROVE  e = f
<1>1. /\ e = [sessions |-> e.sessions, older |-> e.older]
      /\ f = [sessions |-> f.sessions, older |-> f.older]
      /\ e.sessions = [s \in SessionIds |-> e.sessions[s]]
      /\ f.sessions = [s \in SessionIds |-> f.sessions[s]]
  BY DEF Engine
<1>2. e.sessions = f.sessions BY <1>1
<1>. QED BY <1>1, <1>2

\* A session put into a model.
LEMMA PutType ==
  ASSUME NEW m \in Engine, NEW id \in SessionIds, NEW x \in Session
  PROVE  LET g == put(m, id, x)
         IN  /\ g \in Engine
             /\ Present(g) = Present(m) \cup {id}
             /\ g.sessions = [m.sessions EXCEPT ![id] = x]
             /\ g.older = IF id \in Present(m) THEN m.older
                          ELSE m.older \cup {<<y, id>> : y \in Present(m)}
<1>. DEFINE g == put(m, id, x)
<1>1. /\ g.sessions = [m.sessions EXCEPT ![id] = x]
      /\ g.older = IF id \in Present(m) THEN m.older
                   ELSE m.older \cup {<<y, id>> : y \in Present(m)}
      /\ g = [sessions |-> g.sessions, older |-> g.older]
  BY DEF put
<1>. HIDE DEF g
<1>2. Present(m) \subseteq SessionIds /\ x # Absent BY PresentType, AbsentIsNew
<1>3. m.sessions \in [SessionIds -> Session \cup {Absent}] /\ m.older \subseteq SessionIds \X SessionIds
  BY DEF Engine
<1>4. g.sessions \in [SessionIds -> Session \cup {Absent}] BY <1>1, <1>3
<1>5. g.older \subseteq SessionIds \X SessionIds BY <1>1, <1>2, <1>3
<1>6. g \in Engine BY <1>1, <1>4, <1>5 DEF Engine
<1>7. Present(g) = Present(m) \cup {id} BY <1>1, <1>2, <1>3 DEF Present
<1>. QED BY <1>1, <1>6, <1>7 DEF g

\* An upsert of a session: its event.
LEMMA UpsertTold ==
  ASSUME NEW e, Well(e), NEW id \in SessionIds, NEW x \in Session
  PROVE  LET g == upsert_session(e, id, x)
             events == session_upsert_events(g, id)
         IN  Well(g) /\ events \in Seq(Sent) /\ apply_all(e, events) = g
<1>. DEFINE g == upsert_session(e, id, x)
            row == g.sessions[id]
<1>0. Sound(e) /\ e \in Engine /\ IsFiniteSet(Present(e)) BY DEF Well, Sound
<1>1. /\ g \in Engine
      /\ Present(g) = Present(e) \cup {id}
      /\ g.older = IF id \in Present(e) THEN e.older
                   ELSE e.older \cup {<<y, id>> : y \in Present(e)}
      /\ Alike(g.sessions[id], recompute_rollups(x))
      /\ \A s \in SessionIds \ {id} : g.sessions[s] = e.sessions[s]
  BY <1>0, Upserted
<1>2. Sound(g) BY <1>0, UpsertedSound
<1>. HIDE DEF g
<1>3. Well(g) BY <1>0, <1>1, <1>2, FS_AddElement DEF Well
<1>4. row \in Session /\ RolledUp(row) BY <1>1, <1>2, PresentType DEF Sound, AllRolledUp
<1>5. session_upsert_events(g, id) \in Seq(Sent)
  BY <1>4, UpdateSent DEF session_upsert_events
<1>. DEFINE h == put(e, id, row)
<1>6. /\ h \in Engine
      /\ h.sessions = [e.sessions EXCEPT ![id] = row]
      /\ h.older = g.older
  BY <1>0, <1>1, <1>4, PutType
<1>7. h = g
  <2>. HIDE DEF h
  <2>1. \A s \in SessionIds : h.sessions[s] = g.sessions[s] BY <1>0, <1>1, <1>6 DEF Engine
  <2>. QED BY <1>1, <1>6, <2>1, SameEngine
<1>8. InboxModel_apply(e, SessionUpdated(id, row)) = h BY DEF InboxModel_apply, SessionUpdated
<1>9. apply_all(e, session_upsert_events(g, id)) = g
  BY <1>7, <1>8, AppliedOne DEF session_upsert_events
<1>. QED BY <1>3, <1>5, <1>9 DEF g

\* A change of flags or badges alone: an event for each session it changes.
LEMMA FlagsTold ==
  ASSUME NEW e, Well(e), NEW f, Sound(f), f.older = e.older, Present(f) = Present(e)
  PROVE  LET events == updated_events_for(f, Changed(e, f))
         IN  Well(f) /\ events \in Seq(Sent) /\ apply_all(e, events) = f
<1>. DEFINE ids == Changed(e, f)
<1>1. e \in Engine /\ f \in Engine /\ Ordered(f) /\ IsFiniteSet(Present(e)) BY DEF Well, Sound
<1>2. ids \in SUBSET Present(f) /\ \A s \in Present(f) \ ids : e.sessions[s] = f.sessions[s]
  BY DEF Changed
<1>. HIDE DEF ids
<1>3. IsFiniteSet(ids) BY <1>1, <1>2, FS_Subset
<1>4. updated_events_for(f, ids) \in Seq(Sent) BY <1>2, <1>3, UpdatesSent
<1>5. apply_all(e, updated_events_for(f, ids)) =
        [sessions |-> [s \in SessionIds |-> IF s \in ids THEN f.sessions[s] ELSE e.sessions[s]],
         older    |-> e.older]
  BY <1>1, <1>2, <1>3, UpdatesApplied
<1>6. \A s \in SessionIds : (IF s \in ids THEN f.sessions[s] ELSE e.sessions[s]) = f.sessions[s]
  BY <1>1, <1>2, PresentType
<1>7. f = [sessions |-> [s \in SessionIds |-> f.sessions[s]], older |-> e.older]
  BY <1>1 DEF Engine
<1>8. apply_all(e, updated_events_for(f, ids)) = f BY <1>5, <1>6, <1>7
<1>. QED BY <1>1, <1>4, <1>8 DEF ids, Well

\* A removal of a session: its event, and one for each badge it changes.
LEMMA RemoveTold ==
  ASSUME NEW e, Well(e), NEW id \in Present(e)
  PROVE  LET g == remove_session(e, id)
             events == session_remove_events(e, g, id)
         IN  Well(g) /\ events \in Seq(Sent) /\ apply_all(e, events) = g
<1>. DEFINE g == remove_session(e, id)
            ids == Changed(e, g)
            b == updated_events_for(g, ids)
            m == [sessions |-> [e.sessions EXCEPT ![id] = Absent],
                  older    |-> {p \in e.older : p[1] # id /\ p[2] # id}]
<1>0. Sound(e) /\ e \in Engine /\ IsFiniteSet(Present(e)) /\ id \in SessionIds
  BY PresentType DEF Well, Sound
<1>1. /\ g \in Engine
      /\ Present(g) = Present(e) \ {id}
      /\ g.older = {p \in e.older : p[1] # id /\ p[2] # id}
  BY <1>0, Removed
<1>2. Sound(g) BY <1>0, RemovedSound
<1>. HIDE DEF g
<1>3. Well(g) BY <1>0, <1>1, <1>2, FS_RemoveElement DEF Well
<1>4. /\ ids \in SUBSET Present(g)
      /\ \A s \in Present(g) \ ids : e.sessions[s] = g.sessions[s]
  BY DEF Changed
<1>. HIDE DEF ids
<1>5. IsFiniteSet(ids) BY <1>3, <1>4, FS_Subset DEF Well
<1>6. <<SessionRemoved(id)>> \in Seq(Sent) BY <1>0 DEF SessionRemoved, Sent, Event
<1>7. b \in Seq(Sent) BY <1>2, <1>4, <1>5, UpdatesSent
<1>8. m \in Engine /\ Present(m) = Present(g)
  <2>1. m \in Engine BY <1>0 DEF Engine
  <2>2. Present(m) = Present(e) \ {id} BY <1>0 DEF Present, Engine
  <2>. QED BY <1>1, <2>1, <2>2
<1>9. apply_all(e, <<SessionRemoved(id)>>) = m
  BY AppliedOne DEF InboxModel_apply, SessionRemoved
<1>10. apply_all(e, <<SessionRemoved(id)>> \o b) = apply_all(m, b)
  <2>. DEFINE r == <<SessionRemoved(id)>>
  <2>. HIDE DEF r, b, m
  <2>1. apply_all(e, r \o b) = apply_all(apply_all(e, r), b)
    <3>1. r \in Seq(Sent) BY <1>6 DEF r
    <3>. QED BY <1>7, <3>1, AppliedConcat
  <2>2. apply_all(e, r) = m BY <1>9 DEF r
  <2>. QED BY <2>1, <2>2 DEF r
<1>11. apply_all(m, b) = g
  <2>1. apply_all(m, b) =
          [sessions |-> [s \in SessionIds |-> IF s \in ids THEN g.sessions[s] ELSE m.sessions[s]],
           older    |-> m.older]
    <3>. HIDE DEF m
    <3>. QED BY <1>1, <1>2, <1>4, <1>5, <1>8, UpdatesApplied DEF Sound
  <2>2. \A s \in SessionIds : (IF s \in ids THEN g.sessions[s] ELSE m.sessions[s]) = g.sessions[s]
    <3>. TAKE s \in SessionIds
    <3>1. CASE s \in ids BY <3>1
    <3>2. CASE s \in Present(g) \ ids BY <1>0, <1>1, <1>4, <3>2 DEF Engine
    <3>3. CASE s \notin Present(g)
      <4>1. g.sessions[s] = Absent /\ s \notin ids BY <1>1, <1>4, <3>3, PresentType
      <4>2. m.sessions[s] = Absent
        <5>. HIDE DEF m
        <5>. QED BY <1>8, <3>3, PresentType
      <4>. QED BY <4>1, <4>2
    <3>. QED BY <3>1, <3>2, <3>3
  <2>3. g = [sessions |-> [s \in SessionIds |-> g.sessions[s]], older |-> m.older]
    BY <1>1 DEF Engine
  <2>. HIDE DEF m, b
  <2>. QED BY <2>1, <2>2, <2>3
<1>12. session_remove_events(e, g, id) = <<SessionRemoved(id)>> \o b
  BY DEF session_remove_events, ids
<1>. HIDE DEF b
<1>13. <<SessionRemoved(id)>> \o b \in Seq(Sent) BY <1>6, <1>7
<1>. QED BY <1>3, <1>10, <1>11, <1>12, <1>13 DEF g

\* A session with one run set or gone, rolled up as a face does it.
LEMMA FaceRolled ==
  ASSUME NEW x \in Session, NEW rid \in RunIds, NEW run \in AgentRun \cup {Absent}
  PROVE  LET y == [x EXCEPT !.runs[rid] = run]
         IN  /\ y \in Session
             /\ y.runs = [x.runs EXCEPT ![rid] = run]
             /\ face_rollups(y) \in Session
             /\ recompute_rollups(face_rollups(y)) = recompute_rollups(y)
<1>. DEFINE y == [x EXCEPT !.runs[rid] = run]
<1>1. y \in Session /\ y.runs = [x.runs EXCEPT ![rid] = run] BY DEF Session, Runs
<1>. HIDE DEF y
<1>2. y.runs \in Runs BY <1>1 DEF Session
<1>3. rollup_state(y.runs) \in State /\ rollup_urgency(y.runs) \in Urgency
  BY <1>2, RollupState, RollupUrgency
<1>4. face_rollups(y) \in Session BY <1>1, <1>3 DEF face_rollups, Session
<1>5. face_rollups(y).runs = y.runs BY <1>1 DEF face_rollups, Session
<1>6. recompute_rollups(face_rollups(y)) = recompute_rollups(y)
  <2>. DEFINE z == face_rollups(y)
  <2>1. \E a \in State, b \in Urgency :
          z = [y EXCEPT !.rollup_state = a, !.rollup_urgency = b]
    BY <1>1, <1>3 DEF face_rollups, Session
  <2>2. z.runs = y.runs BY <1>5
  <2>. HIDE DEF z
  <2>3. recompute_rollups(z) = recompute_rollups(y)
    BY <1>1, <2>1, <2>2 DEF recompute_rollups, Session
  <2>. QED BY <2>3 DEF z
<1>. QED BY <1>1, <1>4, <1>6 DEF y

LEMMA TwoEvents ==
  ASSUME NEW a, NEW b
  PROVE  <<a>> \o <<b>> = <<a, b>>
<1>. DEFINE S == {a, b}
            s == <<a>> \o <<b>>
            t == <<a, b>>
<1>1. <<a>> \in Seq(S) /\ <<b>> \in Seq(S) OBVIOUS
<1>2. s \in Seq(S) /\ t \in Seq(S) BY <1>1
<1>3. Len(s) = 2 /\ Len(t) = 2 BY <1>1
<1>4. s[1] = a /\ s[2] = b /\ t[1] = a /\ t[2] = b BY <1>1
<1>. HIDE DEF s, t
<1>5. \A i \in 1..2 : s[i] = t[i] BY <1>4
<1>6. s = t BY <1>2, <1>3, <1>5, SeqEqual
<1>. QED BY <1>6 DEF s, t

\* A change of a session's runs: the event of the run, then the session's.
LEMMA RerunTold ==
  ASSUME NEW e, Well(e), NEW id \in Present(e), NEW rid \in RunIds,
         NEW run \in AgentRun \cup {Absent}, NEW ev \in Sent,
         \A m : InboxModel_apply(m, ev) = put_run(m, id, rid, run)
  PROVE  LET g == WithRuns(e, id, [e.sessions[id].runs EXCEPT ![rid] = run])
             events == <<ev, SessionUpdated(id, g.sessions[id])>>
         IN  Well(g) /\ events \in Seq(Sent) /\ apply_all(e, events) = g
<1>. DEFINE x == e.sessions[id]
            runs == [x.runs EXCEPT ![rid] = run]
            g == WithRuns(e, id, runs)
            row == g.sessions[id]
            z == face_rollups([x EXCEPT !.runs[rid] = run])
            upd == SessionUpdated(id, row)
<1>0. Sound(e) /\ e \in Engine /\ IsFiniteSet(Present(e)) /\ id \in SessionIds
  BY PresentType DEF Well, Sound
<1>1. x \in Session BY <1>0, PresentType
<1>2. runs \in Runs BY <1>1 DEF Session, Runs
<1>3. z \in Session BY <1>1, FaceRolled
<1>. HIDE DEF x, runs, z
<1>4. /\ g \in Engine
      /\ Present(g) = Present(e)
      /\ g.older = e.older
      /\ Alike(g.sessions[id], recompute_rollups([e.sessions[id] EXCEPT !.runs = runs]))
      /\ \A s \in SessionIds \ {id} : g.sessions[s] = e.sessions[s]
  BY <1>0, <1>2, Rerun
<1>5. Sound(g) BY <1>0, <1>2, RerunSound
<1>. HIDE DEF g
<1>6. Well(g) BY <1>0, <1>4, <1>5 DEF Well
<1>7. row \in Session /\ RolledUp(row) BY <1>0, <1>4, <1>5, PresentType DEF Sound, AllRolledUp
<1>8. upd \in Sent BY <1>0, <1>7, UpdateSent
<1>. DEFINE m == put(e, id, z)
            h == put(m, id, row)
<1>9. /\ m \in Engine /\ id \in Present(m)
      /\ m.sessions = [e.sessions EXCEPT ![id] = z] /\ m.older = e.older
  <2>1. /\ m \in Engine /\ Present(m) = Present(e) \cup {id}
        /\ m.sessions = [e.sessions EXCEPT ![id] = z]
        /\ m.older = IF id \in Present(e) THEN e.older
                     ELSE e.older \cup {<<y, id>> : y \in Present(e)}
    BY <1>0, <1>3, PutType
  <2>. HIDE DEF m
  <2>. QED BY <2>1
<1>10. InboxModel_apply(e, ev) = m BY <1>0 DEF put_run, x, z
<1>. HIDE DEF m
<1>11. /\ h \in Engine /\ h.older = e.older
       /\ h.sessions = [m.sessions EXCEPT ![id] = row]
  BY <1>0, <1>7, <1>9, PutType
<1>12. h = g
  <2>. HIDE DEF h
  <2>1. \A s \in SessionIds : h.sessions[s] = g.sessions[s]
    BY <1>0, <1>4, <1>9, <1>11 DEF Engine
  <2>. QED BY <1>4, <1>11, <2>1, SameEngine
<1>13. InboxModel_apply(m, upd) = h BY DEF InboxModel_apply, SessionUpdated
<1>. HIDE DEF h, upd
<1>14. apply_all(e, <<ev>> \o <<upd>>) = apply_all(m, <<upd>>)
  <2>. DEFINE a == <<ev>>
              b == <<upd>>
  <2>1. a \in Seq(Sent) /\ b \in Seq(Sent) BY <1>8
  <2>2. apply_all(e, a) = m BY <1>10, AppliedOne
  <2>. HIDE DEF a, b
  <2>3. apply_all(e, a \o b) = apply_all(m, b) BY <2>1, <2>2, AppliedConcat
  <2>. QED BY <2>3 DEF a, b
<1>15. apply_all(m, <<upd>>) = g BY <1>12, <1>13, AppliedOne
<1>16. <<ev>> \o <<upd>> = <<ev, upd>> BY TwoEvents
<1>17. <<ev, upd>> \in Seq(Sent) BY <1>8
<1>. QED BY <1>6, <1>14, <1>15, <1>16, <1>17 DEF g, runs, x, upd

\* An upsert of a run.
LEMMA UpsertRunTold ==
  ASSUME NEW e, Well(e), NEW id \in Present(e), NEW rid \in RunIds, NEW run \in AgentRun
  PROVE  LET g == upsert_run(e, id, rid, run)
             events == run_upsert_events(g, id, rid)
         IN  Well(g) /\ events \in Seq(Sent) /\ apply_all(e, events) = g
<1>. DEFINE x == e.sessions[id]
            runs == [x.runs EXCEPT ![rid] = run]
            g == WithRuns(e, id, runs)
            ev == RunUpdated(id, rid, run)
<1>0. e \in Engine /\ id \in SessionIds /\ x \in Session BY PresentType DEF Well, Sound
<1>1. upsert_run(e, id, rid, run) = g BY DEF upsert_run
<1>2. g.sessions[id].runs[rid] = run
  <2>1. runs \in Runs /\ runs[rid] = run BY <1>0 DEF Session, Runs
  <2>2. [x EXCEPT !.runs = runs] \in Session /\ [x EXCEPT !.runs = runs].runs = runs
    BY <1>0, <2>1 DEF Session
  <2>. HIDE DEF runs
  <2>3. Alike(g.sessions[id], recompute_rollups([e.sessions[id] EXCEPT !.runs = runs]))
    BY <1>0, <2>1, Rerun
  <2>4. g.sessions[id].runs = runs BY <2>2, <2>3, Recomputed DEF Alike
  <2>. QED BY <2>1, <2>4
<1>3. ev \in Sent BY <1>0 DEF RunUpdated, Sent, Event
<1>4. \A m : InboxModel_apply(m, ev) = put_run(m, id, rid, run) BY DEF InboxModel_apply, RunUpdated
<1>5. run_upsert_events(g, id, rid) = <<ev, SessionUpdated(id, g.sessions[id])>>
  BY <1>2 DEF run_upsert_events
<1>. HIDE DEF ev
<1>6. /\ Well(g) /\ <<ev, SessionUpdated(id, g.sessions[id])>> \in Seq(Sent)
      /\ apply_all(e, <<ev, SessionUpdated(id, g.sessions[id])>>) = g
  BY <1>3, <1>4, RerunTold
<1>. HIDE DEF g
<1>. QED BY <1>1, <1>5, <1>6

\* A removal of a run.
LEMMA RemoveRunTold ==
  ASSUME NEW e, Well(e), NEW id \in SessionIds, NEW rid \in RunIds, HasRun(e, id, rid)
  PROVE  LET g == remove_run(e, id, rid)
             events == run_remove_events(g, id, rid)
         IN  Well(g) /\ events \in Seq(Sent) /\ apply_all(e, events) = g
<1>. DEFINE g == WithRuns(e, id, [e.sessions[id].runs EXCEPT ![rid] = Absent])
            ev == RunRemoved(id, rid)
<1>0. id \in Present(e) BY DEF HasRun
<1>1. remove_run(e, id, rid) = g BY DEF remove_run
<1>3. ev \in Sent BY DEF RunRemoved, Sent, Event
<1>4. \A m : InboxModel_apply(m, ev) = put_run(m, id, rid, Absent)
  BY DEF InboxModel_apply, RunRemoved
<1>5. run_remove_events(g, id, rid) = <<ev, SessionUpdated(id, g.sessions[id])>>
  BY DEF run_remove_events
<1>. HIDE DEF ev
<1>6. /\ Well(g) /\ <<ev, SessionUpdated(id, g.sessions[id])>> \in Seq(Sent)
      /\ apply_all(e, <<ev, SessionUpdated(id, g.sessions[id])>>) = g
  BY <1>0, <1>3, <1>4, RerunTold
<1>. HIDE DEF g
<1>. QED BY <1>1, <1>5, <1>6

-----------------------------------------------------------------------------
(* The reducer, one event at a time.                                       *)

\* An event is of one of five kinds.
LEMMA EventKinds ==
  ASSUME NEW ev \in Event
  PROVE  \/ ev.type = "fleet.snapshot" /\ ev.inbox \in Engine
         \/ ev.type = "session.updated" /\ ev.id \in SessionIds /\ ev.session \in Session
         \/ ev.type = "session.removed" /\ ev.id \in SessionIds
         \/ ev.type = "run.updated" /\ ev.id \in SessionIds /\ ev.run_id \in RunIds /\ ev.run \in AgentRun
         \/ ev.type = "run.removed" /\ ev.id \in SessionIds /\ ev.run_id \in RunIds
BY DEF Event

\* A session taken out of a model.
LEMMA TakenOut ==
  ASSUME NEW m \in Engine, NEW id \in SessionIds
  PROVE  LET g == [sessions |-> [m.sessions EXCEPT ![id] = Absent],
                   older    |-> {p \in m.older : p[1] # id /\ p[2] # id}]
         IN  g \in Engine /\ Present(g) = Present(m) \ {id}
BY DEF Engine, Present

\* The model of a face is an engine, and a finite one if its snapshots are.
LEMMA ReducerType ==
  ASSUME NEW m \in Engine, IsFiniteSet(Present(m)), NEW ev \in Event,
         ev.type = "fleet.snapshot" => IsFiniteSet(Present(ev.inbox))
  PROVE  LET g == InboxModel_apply(m, ev)
         IN  g \in Engine /\ IsFiniteSet(Present(g))
<1>1. ASSUME NEW id \in SessionIds, NEW x \in Session
      PROVE  put(m, id, x) \in Engine /\ IsFiniteSet(Present(put(m, id, x)))
  <2>1. put(m, id, x) \in Engine /\ Present(put(m, id, x)) = Present(m) \cup {id} BY PutType
  <2>. QED BY <2>1, FS_AddElement
<1>2. ASSUME NEW id \in SessionIds, NEW rid \in RunIds, NEW run \in AgentRun \cup {Absent}
      PROVE  put_run(m, id, rid, run) \in Engine /\ IsFiniteSet(Present(put_run(m, id, rid, run)))
  <2>1. CASE id \notin Present(m) BY <2>1 DEF put_run
  <2>2. CASE id \in Present(m)
    <3>. DEFINE z == face_rollups([m.sessions[id] EXCEPT !.runs[rid] = run])
    <3>1. m.sessions[id] \in Session BY <2>2, PresentType
    <3>2. z \in Session BY <3>1, FaceRolled
    <3>3. put_run(m, id, rid, run) = put(m, id, z) BY <2>2 DEF put_run
    <3>. HIDE DEF z
    <3>. QED BY <1>1, <3>2, <3>3
  <2>. QED BY <2>1, <2>2
<1>3. CASE ev.type = "fleet.snapshot" BY <1>3, EventKinds DEF InboxModel_apply
<1>4. CASE ev.type = "session.updated"
  <2>1. ev.id \in SessionIds /\ ev.session \in Session BY <1>4, EventKinds
  <2>2. InboxModel_apply(m, ev) = put(m, ev.id, ev.session) BY <1>4 DEF InboxModel_apply
  <2>. QED BY <1>1, <2>1, <2>2
<1>5. CASE ev.type = "session.removed"
  <2>1. ev.id \in SessionIds BY <1>5, EventKinds
  <2>2. InboxModel_apply(m, ev) =
          [sessions |-> [m.sessions EXCEPT ![ev.id] = Absent],
           older    |-> {p \in m.older : p[1] # ev.id /\ p[2] # ev.id}]
    BY <1>5 DEF InboxModel_apply
  <2>3. InboxModel_apply(m, ev) \in Engine /\ Present(InboxModel_apply(m, ev)) = Present(m) \ {ev.id}
    BY <2>1, <2>2, TakenOut
  <2>. QED BY <2>3, FS_RemoveElement
<1>6. CASE ev.type = "run.updated"
  <2>1. ev.id \in SessionIds /\ ev.run_id \in RunIds /\ ev.run \in AgentRun BY <1>6, EventKinds
  <2>2. InboxModel_apply(m, ev) = put_run(m, ev.id, ev.run_id, ev.run) BY <1>6 DEF InboxModel_apply
  <2>. QED BY <1>2, <2>1, <2>2
<1>7. CASE ev.type = "run.removed"
  <2>1. ev.id \in SessionIds /\ ev.run_id \in RunIds BY <1>7, EventKinds
  <2>2. InboxModel_apply(m, ev) = put_run(m, ev.id, ev.run_id, Absent) BY <1>7 DEF InboxModel_apply
  <2>. QED BY <1>2, <2>1, <2>2
<1>. QED BY <1>3, <1>4, <1>5, <1>6, <1>7, EventKinds

\* A queue is its head and then its tail.
LEMMA HeadFirst ==
  ASSUME NEW S, NEW w \in Seq(S), w # <<>>
  PROVE  w = <<Head(w)>> \o Tail(w)
<1>1. Len(w) \in Nat \ {0} /\ w[1] = Head(w) BY EmptySeq
<1>2. SubSeq(w, 1, Len(w)) = <<w[1]>> \o SubSeq(w, 1 + 1, Len(w))
  BY <1>1, SubSeqRecursiveFirst
<1>3. SubSeq(w, 1, Len(w)) = w BY SubSeqFull
<1>4. Tail(w) = SubSeq(w, 2, Len(w)) BY TailIsSubSeq
<1>. QED BY <1>1, <1>2, <1>3, <1>4

\* Reading the first event and then the others is reading them all.
LEMMA AppliedHead ==
  ASSUME NEW S, NEW m, NEW q \in Seq(S), q # <<>>
  PROVE  apply_all(m, q) = apply_all(InboxModel_apply(m, Head(q)), Tail(q))
<1>. DEFINE one == <<Head(q)>>
            rest == Tail(q)
<1>1. q = one \o rest BY HeadFirst
<1>2. Head(q) \in S /\ rest \in Seq(S) OBVIOUS
<1>3. one \in Seq(S) BY <1>2
<1>4. apply_all(m, one) = InboxModel_apply(m, Head(q)) BY AppliedOne
<1>. HIDE DEF one, rest
<1>5. apply_all(m, one \o rest) = apply_all(apply_all(m, one), rest)
  BY <1>2, <1>3, AppliedConcat
<1>. QED BY <1>1, <1>4, <1>5 DEF rest
=============================================================================
