---------------------------- MODULE HubStoreProofs ----------------------------
(***************************************************************************)
(* What holds of the Hub's store for every set of sessions, runs, durable  *)
(* ids, inputs and stamps, and every length of the clock.                  *)
(*                                                                         *)
(* StoreInv, MarksInv and KeepsUpInv are inductive under every fault;      *)
(* RecordsInv needs one ruled out, a failed append.                        *)
(***************************************************************************)
EXTENDS HubStore, MergeEngineProofs

-----------------------------------------------------------------------------
(* The store is well-formed.                                               *)

\* x shows what y shows, however they are flagged.
Shows(x, y) ==
  /\ x.runs = y.runs
  /\ x.rollup_state = y.rollup_state /\ x.rollup_urgency = y.rollup_urgency
  /\ x.updated_at = y.updated_at

SameFlags(x, y) == x.muted = y.muted /\ x.soloed = y.soloed

\* A flag change in progress has only flagged sessions that were there, and the
\* rows left to write are among those it touched.
JobOK ==
  /\ job.kind # "flags" => job.rows = {}
  /\ job.kind = "flags" =>
       /\ Present(job.before) = Present(engine)
       /\ job.before.older = engine.older
       /\ job.rows \subseteq Changed(job.before, engine)
       /\ \A s \in Present(engine) : Shows(job.before.sessions[s], engine.sessions[s])

StoreInv ==
  /\ TypeOK
  /\ Sound(engine) /\ Sound(logged) /\ Sound(job.before)
  /\ JobOK

\* A sound engine is well-typed and ordered.
LEMMA SoundType ==
  ASSUME NEW e, Sound(e)
  PROVE  e \in Engine /\ Ordered(e)
BY DEF Sound

\* Removing a session that may be missing keeps an engine sound.
LEMMA RemoveSessionSound ==
  ASSUME NEW e, Sound(e), NEW id
  PROVE  Sound(remove_session(e, id))
<1>1. CASE id \in Present(e) BY <1>1, RemovedSound
<1>2. CASE id \notin Present(e) BY <1>2 DEF remove_session
<1>. QED BY <1>1, <1>2

\* Upserting a run under a session that may be missing keeps an engine sound.
LEMMA UpsertAnyRunSound ==
  ASSUME NEW e, Sound(e), NEW id, NEW rid \in RunIds, NEW run \in AgentRun
  PROVE  Sound(upsert_run(e, id, rid, run))
<1>1. CASE id \in Present(e) BY <1>1, UpsertRunSound
<1>2. CASE id \notin Present(e) BY <1>2 DEF upsert_run
<1>. QED BY <1>1, <1>2

\* What reporters send has its type.
LEMMA InputType ==
  /\ InputRuns \subseteq AgentRun
  /\ \A runs \in [RunIds -> InputRuns \cup {Absent}], t \in Timestamps : Shell(runs, t) \in Session
<1>1. Timestamps \subseteq Nat BY StoreConstants DEF Timestamps
<1>2. InputRuns \subseteq AgentRun BY <1>1, StoreConstants DEF InputRuns, AgentRun
<1>3. [RunIds -> InputRuns \cup {Absent}] \subseteq Runs
  <2>. HIDE DEF InputRuns
  <2>. QED BY <1>2 DEF Runs
<1>. HIDE DEF InputRuns
<1>4. "idle" \in State /\ "none" \in Urgency BY DEF State, Urgency
<1>. QED BY <1>1, <1>2, <1>3, <1>4 DEF Shell, Session

\* A reported session stays a session when the Hub's own fields are kept.
LEMMA ShellKept ==
  ASSUME NEW e \in Engine, NEW id \in SessionIds, NEW x \in Session
  PROVE  preserve_hub_owned_fields(e, id, x) \in Session
BY PresentType DEF preserve_hub_owned_fields, Session

\* Dropping and admitting make mark tables of mark tables.
LEMMA MarkTypes ==
  ASSUME NEW ms \in Marks, NEW ids, NEW n \in NativeIds, NEW stamp \in Stamp
  PROVE  drop_ids(ms, ids) \in Marks /\ admit(ms, n, stamp) \in Marks
BY DEF drop_ids, admit, commit, Marks

\* Forgetting keeps the history's type.
LEMMA ForgetType ==
  ASSUME landed \in Marks, ForgetUnindexed
  PROVE  landed' \in Marks
BY DEF ForgetUnindexed, Marks

\* The body of a removal, whoever asks for it.
LEMMA RemoveSessionType ==
  ASSUME StoreInv, NEW id \in SessionIds, RemoveSession(id)
  PROVE  /\ Sound(engine') /\ Sound(logged')
         /\ marks' \in Marks /\ landed' \in Marks
         /\ session_durables' \in [SessionIds -> SUBSET NativeIds]
<1>1. Sound(engine') /\ Sound(logged')
  BY RemoveSessionSound DEF RemoveSession, StoreInv
<1>2. marks' \in Marks
  BY DEF RemoveSession, drop_session_reclaim, StoreInv, TypeOK, drop_ids, Marks
<1>3. landed' \in Marks
  BY ForgetType DEF RemoveSession, drop_session_reclaim, StoreInv, TypeOK
<1>4. session_durables' \in [SessionIds -> SUBSET NativeIds]
  BY DEF RemoveSession, drop_session_reclaim, StoreInv, TypeOK
<1>. QED BY <1>1, <1>2, <1>3, <1>4

\* Removing a run leaves a well-typed store.
LEMMA RemoveRunType ==
  ASSUME StoreInv, NEW id \in SessionIds, NEW rid \in RunIds, RemoveRun(id, rid)
  PROVE  /\ Sound(engine') /\ Sound(logged')
         /\ marks' \in Marks /\ landed' \in Marks
         /\ session_durables' \in [SessionIds -> SUBSET NativeIds]
<1>. DEFINE n == native_id[rid]
            still_used == \E q \in RunIds : q # rid /\ native_id[q] = n /\ HasRun(engine, id, q)
<1>1. Sound(engine') /\ Sound(logged')
  BY RemoveRunSound DEF RemoveRun, StoreInv
<1>2. CASE still_used
  BY <1>1, <1>2 DEF RemoveRun, StoreInv, TypeOK
<1>3. CASE ~still_used
  <2>1. /\ marks' = drop_ids(marks, {n})
        /\ session_durables' = [session_durables EXCEPT ![id] = @ \ {n}]
        /\ ForgetUnindexed
    BY <1>3 DEF RemoveRun
  <2>2. marks' \in Marks BY <2>1 DEF StoreInv, TypeOK, drop_ids, Marks
  <2>3. landed' \in Marks BY <2>1, ForgetType DEF StoreInv, TypeOK
  <2>4. session_durables' \in [SessionIds -> SUBSET NativeIds] BY <2>1 DEF StoreInv, TypeOK
  <2>. QED BY <1>1, <2>2, <2>3, <2>4
<1>. QED BY <1>2, <1>3

\* The gate leaves well-typed marks and index.
LEMMA AdmittedType ==
  ASSUME StoreInv, NEW id \in SessionIds, NEW rid \in RunIds, NEW stamp \in Stamps,
         Admitted(id, rid, stamp)
  PROVE  /\ marks' \in Marks
         /\ session_durables' \in [SessionIds -> SUBSET NativeIds]
         /\ native_id[rid] \in NativeIds /\ stamp \in Stamp
<1>1. native_id[rid] \in NativeIds /\ stamp \in Stamp BY StoreConstants
<1>2. marks' \in Marks BY <1>1, MarkTypes DEF Admitted, StoreInv, TypeOK
<1>3. session_durables' \in [SessionIds -> SUBSET NativeIds]
  BY <1>1 DEF Admitted, StoreInv, TypeOK
<1>. QED BY <1>1, <1>2, <1>3

\* A job that holds no flag change.
LEMMA QuietJob ==
  ASSUME NEW j \in {Idle, Gc}
  PROVE  /\ j \in Jobs /\ Sound(j.before)
         /\ j.kind # "flags" /\ j.rows = {}
<1>1. EmptyEngine \in Engine BY EmptySound DEF Sound
<1>. HIDE DEF EmptyEngine
<1>. QED BY <1>1, EmptySound DEF Idle, Gc, Jobs

\* A step that leaves the job at rest keeps StoreInv if each part is typed.
LEMMA AtRest ==
  ASSUME job' \in {Idle, Gc}, Sound(engine'), Sound(logged'),
         marks' \in Marks, session_durables' \in [SessionIds -> SUBSET NativeIds],
         now' \in Timestamps, landed' \in Marks,
         torn' \subseteq SessionIds, mixed' \subseteq SessionIds
  PROVE  StoreInv'
<1>1. /\ job' \in Jobs /\ Sound(job'.before)
      /\ job'.kind # "flags" /\ job'.rows = {}
  BY QuietJob
<1>2. TypeOK' BY <1>1, SoundType DEF TypeOK
<1>3. Sound(engine)' /\ Sound(logged)' /\ Sound(job.before)'
  BY <1>1 DEF Sound, Ordered, AllRolledUp, Present
<1>. QED BY <1>1, <1>2, <1>3 DEF StoreInv, JobOK

\* A flag change starts: the rows to write are the sessions it touched.
LEMMA FlagChangeStarts ==
  ASSUME StoreInv, NEW after, NEW m, NEW o,
         apply_flag_change(after), Reflagged(engine, after, m, o)
  PROVE  StoreInv'
<1>1. /\ job' = Flags(Changed(engine, after), engine)
      /\ engine' = after
      /\ UNCHANGED <<logged, marks, session_durables, now, landed, torn, mixed>>
  BY DEF apply_flag_change, tears
<1>2. Sound(engine') BY <1>1, ReflaggedSound DEF StoreInv
<1>3. after \in Engine /\ engine \in Engine BY DEF Reflagged, StoreInv, TypeOK
<1>4. Changed(engine, after) \subseteq SessionIds BY <1>3, PresentType DEF Changed
<1>5. /\ job'.kind = "flags" /\ job'.rows = Changed(engine, after) /\ job'.before = engine
      /\ job' \in Jobs
  BY <1>1, <1>3, <1>4 DEF Flags, Jobs
<1>6. JobOK' BY <1>1, <1>5 DEF JobOK, Reflagged, Shows
<1>7. TypeOK' BY <1>1, <1>2, <1>5, SoundType DEF TypeOK, StoreInv
<1>. QED BY <1>1, <1>2, <1>5, <1>6, <1>7 DEF StoreInv

\* The store starts well-formed.
LEMMA StoreInvInit == Init => StoreInv
<1>. SUFFICES ASSUME Init PROVE StoreInv OBVIOUS
<1>1. job \in Jobs /\ Sound(job.before) /\ job.kind # "flags" /\ job.rows = {}
  BY QuietJob DEF Init
<1>2. Sound(engine) /\ Sound(logged) BY EmptySound DEF Init
<1>3. NoMarks \in Marks BY DEF NoMarks, Marks
<1>4. now \in Timestamps BY StoreConstants DEF Init, Timestamps
<1>5. TypeOK BY <1>1, <1>2, <1>3, <1>4, SoundType DEF TypeOK, Init
<1>. QED BY <1>1, <1>2, <1>5 DEF StoreInv, JobOK

\* The index a restart rebuilds.
LEMMA RebuiltIndex ==
  ASSUME NEW e \in Engine
  PROVE  [s \in SessionIds |-> NativesOf(e, s)] \in [SessionIds -> SUBSET NativeIds]
BY StoreConstants DEF NativesOf

\* The sessions a change has written are sessions.
LEMMA HalfWrittenType ==
  ASSUME StoreInv
  PROVE  HalfWritten \subseteq SessionIds
<1>1. engine \in Engine BY DEF StoreInv, TypeOK
<1>. QED BY <1>1, PresentType DEF HalfWritten, FlagsMoved

\* Tears come from rows that a flag change had written, and from nowhere else.
TearsGrow ==
  /\ torn' \subseteq torn \cup HalfWritten
  /\ mixed' \subseteq mixed \cup torn \cup HalfWritten

\* Every step grows the tears that way.
LEMMA TearsStep == [Next]_vars => TearsGrow
<1>. SUFFICES ASSUME [Next]_vars PROVE TearsGrow OBVIOUS
<1>. HIDE DEF HalfWritten
<1>1. CASE UNCHANGED <<torn, mixed>> BY <1>1 DEF TearsGrow
<1>2. ASSUME NEW id \in SessionIds, torn' = torn \ {id}, mixed' \subseteq mixed
      PROVE  TearsGrow
  BY <1>2 DEF TearsGrow
<1>3. ASSUME NEW id \in SessionIds, Mute(id) \/ Unmute(id) \/ Solo(id)
      PROVE  TearsGrow
  BY <1>1, <1>3 DEF Mute, Unmute, Solo, apply_flag_change, tears
<1>4. ASSUME NEW id \in SessionIds, AppendFlagRow(id)
      PROVE  TearsGrow
  BY <1>2, <1>4 DEF AppendFlagRow
<1>5. CASE FlagRowNotAppended BY <1>5 DEF FlagRowNotAppended, TearsGrow
<1>6. ASSUME NEW id \in SessionIds, Focus(id)
      PROVE  TearsGrow
  BY <1>1, <1>2, <1>6 DEF Focus
<1>7. CASE Restart BY <1>7 DEF Restart, TearsGrow
<1>8. ASSUME NEW id \in SessionIds, RemoveSession(id)
      PROVE  TearsGrow
  BY <1>2, <1>8 DEF RemoveSession
<1>9. ASSUME NEW id \in SessionIds, NEW t \in Timestamps,
             NEW runs \in [RunIds -> InputRuns \cup {Absent}],
             apply_session_upsert(id, runs, t)
      PROVE  TearsGrow
  BY <1>2, <1>9 DEF apply_session_upsert
<1>. QED
  BY <1>1, <1>3, <1>4, <1>5, <1>6, <1>7, <1>8, <1>9
  DEF Next, vars, tears, apply_session_remove, apply_run_upsert, apply_run_upsert_seq,
      RunUpsertSeqNotAppended, apply_run_remove, GcBegin, reap_dead,
      sweep_expired_sessions, GcEnd, Tick

\* Every step keeps the store well-formed.
LEMMA StoreInvStep == StoreInv /\ [Next]_vars => StoreInv'
<1>. SUFFICES ASSUME StoreInv, [Next]_vars PROVE StoreInv' OBVIOUS
<1>0. /\ engine \in Engine /\ logged \in Engine /\ job.before \in Engine
      /\ Sound(engine) /\ Sound(logged)
      /\ marks \in Marks /\ landed \in Marks
      /\ session_durables \in [SessionIds -> SUBSET NativeIds]
      /\ job \in Jobs /\ now \in Timestamps
      /\ torn' \subseteq SessionIds /\ mixed' \subseteq SessionIds
  BY HalfWrittenType, TearsStep DEF StoreInv, TypeOK, Sound, TearsGrow
<1>1. ASSUME NEW id \in SessionIds, NEW t \in Timestamps,
             NEW runs \in [RunIds -> InputRuns \cup {Absent}],
             apply_session_upsert(id, runs, t)
      PROVE  StoreInv'
  <2>. DEFINE x == preserve_hub_owned_fields(engine, id, Shell(runs, t))
  <2>1. Shell(runs, t) \in Session BY InputType
  <2>2. x \in Session BY <1>0, <2>1, ShellKept
  <2>3. Sound(upsert_session(engine, id, x)) /\ Sound(upsert_session(logged, id, x))
    <3>. HIDE DEF x
    <3>. QED BY <1>0, <2>2, UpsertedSound
  <2>. QED BY <1>0, <1>1, <2>3, AtRest DEF apply_session_upsert
<1>2. ASSUME NEW id \in SessionIds, apply_session_remove(id)
      PROVE  StoreInv'
  BY <1>0, <1>2, RemoveSessionType, AtRest DEF apply_session_remove
<1>3. ASSUME NEW id \in SessionIds, NEW rid \in RunIds, NEW run \in InputRuns,
             apply_run_upsert(id, rid, run)
      PROVE  StoreInv'
  BY <1>0, <1>3, InputType, UpsertAnyRunSound, AtRest DEF apply_run_upsert
<1>4. ASSUME NEW id \in SessionIds, NEW rid \in RunIds, NEW run \in InputRuns,
             NEW stamp \in Stamps, apply_run_upsert_seq(id, rid, run, stamp)
      PROVE  StoreInv'
  <2>1. Admitted(id, rid, stamp) BY <1>4 DEF apply_run_upsert_seq
  <2>2. /\ marks' \in Marks
        /\ session_durables' \in [SessionIds -> SUBSET NativeIds]
        /\ native_id[rid] \in NativeIds /\ stamp \in Stamp
    BY <2>1, AdmittedType
  <2>3. landed' \in Marks BY <1>0, <1>4, <2>2 DEF apply_run_upsert_seq, Marks
  <2>4. Sound(engine') /\ Sound(logged')
    BY <1>0, <1>4, InputType, UpsertAnyRunSound DEF apply_run_upsert_seq
  <2>. QED BY <1>0, <1>4, <2>1, <2>2, <2>3, <2>4, AtRest DEF apply_run_upsert_seq, Admitted
<1>5. ASSUME NEW id \in SessionIds, NEW rid \in RunIds, NEW stamp \in Stamps,
             RunUpsertSeqNotAppended(id, rid, stamp)
      PROVE  StoreInv'
  BY <1>0, <1>5, AdmittedType, AtRest DEF RunUpsertSeqNotAppended, Admitted
<1>6. ASSUME NEW id \in SessionIds, NEW rid \in RunIds, apply_run_remove(id, rid)
      PROVE  StoreInv'
  BY <1>0, <1>6, RemoveRunType, AtRest DEF apply_run_remove
<1>7. ASSUME NEW id \in SessionIds, Mute(id)
      PROVE  StoreInv'
  <2>1. apply_flag_change(apply_mute(engine, id)) BY <1>7 DEF Mute
  <2>2. id \in Present(engine) BY <2>1 DEF apply_flag_change, apply_mute
  <2>. QED BY <1>0, <2>1, <2>2, MuteReflags, FlagChangeStarts
<1>8. ASSUME NEW id \in SessionIds, Unmute(id)
      PROVE  StoreInv'
  <2>1. apply_flag_change(apply_unmute(engine, id)) BY <1>8 DEF Unmute
  <2>2. id \in Present(engine) BY <2>1 DEF apply_flag_change, apply_unmute
  <2>. QED BY <1>0, <2>1, <2>2, UnmuteReflags, FlagChangeStarts
<1>9. ASSUME NEW id \in SessionIds, Solo(id)
      PROVE  StoreInv'
  <2>1. apply_flag_change(apply_solo(engine, id)) BY <1>9 DEF Solo
  <2>2. id \in Present(engine) BY <2>1 DEF apply_flag_change, apply_solo
  <2>. QED BY <1>0, <2>1, <2>2, SoloReflags, FlagChangeStarts
<1>10. ASSUME NEW id \in SessionIds, AppendFlagRow(id)
       PROVE  StoreInv'
  <2>1. /\ job.kind = "flags" /\ id \in job.rows
        /\ UNCHANGED <<engine, marks, session_durables, now, landed>>
    BY <1>10 DEF AppendFlagRow, NextRow
  <2>2. id \in Present(engine) BY <2>1 DEF StoreInv, JobOK, Changed
  <2>3. Sound(logged')
    BY <1>0, <1>10, <2>2, PresentType, UpsertedSound DEF AppendFlagRow
  <2>4. CASE job.rows = {id}
    BY <1>0, <1>10, <2>1, <2>3, <2>4, AtRest DEF AppendFlagRow
  <2>5. CASE job.rows # {id}
    <3>1. job' = Flags(job.rows \ {id}, job.before) BY <1>10, <2>5 DEF AppendFlagRow
    <3>2. /\ job' \in Jobs /\ job'.kind = "flags" /\ job'.before = job.before
          /\ job'.rows = job.rows \ {id}
      BY <1>0, <3>1 DEF Flags, Jobs
    <3>3. JobOK' BY <2>1, <3>2 DEF JobOK, StoreInv
    <3>4. TypeOK' BY <1>0, <2>1, <2>3, <3>2, SoundType DEF TypeOK
    <3>. QED BY <2>1, <2>3, <3>2, <3>3, <3>4 DEF StoreInv
  <2>. QED BY <2>4, <2>5
<1>11. CASE FlagRowNotAppended
  BY <1>0, <1>11, AtRest DEF FlagRowNotAppended, StoreInv
<1>12. ASSUME NEW id \in SessionIds, Focus(id)
       PROVE  StoreInv'
  <2>1. /\ engine' = apply_focus(engine, id) /\ engine' # engine
        /\ job = Idle
        /\ UNCHANGED <<marks, session_durables, job, now, landed>>
    BY <1>12 DEF Focus
  <2>2. Sound(engine') BY <1>0, <2>1, FocusSound
  <2>3. id \in Present(engine) BY <2>1 DEF apply_focus
  <2>4. engine'.sessions[id] \in Session BY <1>0, <2>1, <2>3, Focused, PresentType
  <2>5. Sound(logged') BY <1>0, <1>12, <2>4, UpsertedSound DEF Focus
  <2>. QED BY <1>0, <2>1, <2>2, <2>5, AtRest
<1>13. CASE GcBegin
  BY <1>0, <1>13, AtRest DEF GcBegin
<1>14. ASSUME NEW id \in SessionIds, NEW rid \in RunIds, reap_dead(id, rid)
       PROVE  StoreInv'
  BY <1>0, <1>14, RemoveRunType, AtRest DEF reap_dead
<1>15. ASSUME NEW id \in SessionIds, sweep_expired_sessions(id)
       PROVE  StoreInv'
  BY <1>0, <1>15, RemoveSessionType, AtRest DEF sweep_expired_sessions
<1>16. CASE GcEnd
  BY <1>0, <1>16, AtRest DEF GcEnd
<1>17. CASE Tick
  <2>1. now' \in Timestamps BY <1>0, <1>17, StoreConstants DEF Tick, Timestamps
  <2>. QED BY <1>0, <1>17, <2>1, AtRest DEF Tick
<1>18. CASE Restart
  <2>1. Sound(logged') /\ engine' = logged' BY <1>0, <1>18, EmptySound DEF Restart
  <2>2. session_durables' \in [SessionIds -> SUBSET NativeIds]
    BY <1>18, <2>1, RebuiltIndex DEF Restart, Sound
  <2>3. marks' \in Marks BY <1>18 DEF Restart, NoMarks, Marks
  <2>4. landed' \in Marks BY <1>0, <1>18, ForgetType DEF Restart
  <2>5. job' \in {Idle, Gc} /\ now' \in Timestamps BY <1>0, <1>18 DEF Restart
  <2>. QED BY <1>0, <2>1, <2>2, <2>3, <2>4, <2>5, AtRest
<1>19. CASE UNCHANGED vars
  BY <1>19 DEF vars, StoreInv, TypeOK, JobOK, Sound, Ordered, AllRolledUp, Present
<1>. QED
  BY <1>1, <1>2, <1>3, <1>4, <1>5, <1>6, <1>7, <1>8, <1>9, <1>10, <1>11, <1>12, <1>13,
     <1>14, <1>15, <1>16, <1>17, <1>18, <1>19
  DEF Next

\* The store is well-formed for ever, under every fault (persist.rs).
THEOREM StoreInvariant == Spec => []StoreInv
<1>. QED BY StoreInvInit, StoreInvStep, PTL DEF Spec

\* Both projections stay well-typed and keep one order of sessions, whatever is
\* reported, commanded, collected, torn or restarted (merge.rs, sessions/order).
THEOREM TypeCorrect == Spec => []TypeOK
<1>1. StoreInv => TypeOK BY DEF StoreInv
<1>. QED BY <1>1, StoreInvariant, PTL

\* A session waits, and asks for an approval, exactly while a run of it does, in
\* memory and in what a replay restores (merge.rs, recompute_rollups).
THEOREM RollupsAreTrue == Spec => []RollupShowsRuns
<1>1. ASSUME NEW e, Sound(e), NEW s \in Present(e)
      PROVE  /\ (e.sessions[s].rollup_state = "waiting") = ("waiting" \in RunStates(e.sessions[s].runs))
             /\ (e.sessions[s].rollup_urgency = "approval") = ("approval" \in RunUrgencies(e.sessions[s].runs))
  <2>1. e.sessions[s].runs \in Runs BY <1>1, PresentType DEF Sound, Session
  <2>2. RolledUp(e.sessions[s]) BY <1>1 DEF Sound, AllRolledUp
  <2>. QED BY <2>1, <2>2, RollupState, RollupUrgency DEF RolledUp
<1>2. StoreInv => RollupShowsRuns BY <1>1 DEF StoreInv, RollupShowsRuns
<1>. QED BY <1>2, StoreInvariant, PTL

-----------------------------------------------------------------------------
(* The log keeps up with memory, and the solo is exclusive but for tears.  *)

\* x is y, badges aside, and flags too if s is one of the sessions T.
Near(x, y, s, T) == Shows(x, y) /\ (s \notin T => SameFlags(x, y))

\* f shows what e shows, badges aside, and is flagged alike outside T.
Follows(f, e, T) ==
  /\ f.older = e.older
  /\ Present(f) = Present(e)
  /\ \A s \in Present(e) : Near(f.sessions[s], e.sessions[s], s, T)

NeverBoth(e) == \A s \in Present(e) : e.sessions[s].soloed => ~e.sessions[s].muted

\* Of two sessions soloed in e one is among M.
OneSolo(e, M) ==
  /\ NeverBoth(e)
  /\ \A s, t \in Present(e) :
       e.sessions[s].soloed /\ e.sessions[t].soloed => s = t \/ s \in M \/ t \in M

\* LogKeepsUp field by field.
LogFollows ==
  /\ logged.older = engine.older
  /\ Present(logged) = Present(engine)
  /\ \A s \in Present(engine) :
       Near(logged.sessions[s], (IF s \in job.rows THEN job.before ELSE engine).sessions[s], s, torn)

\* A flag change under way is a mute, an unmute or a solo of what was before it.
FlagsFromCommand ==
  job.kind = "flags" => \E id \in Present(job.before) :
    engine \in {apply_mute(job.before, id), apply_unmute(job.before, id), apply_solo(job.before, id)}

KeepsUpInv ==
  /\ StoreInv
  /\ FlagsFromCommand
  /\ OneSolo(engine, mixed) /\ OneSolo(job.before, mixed)
  /\ NeverBoth(logged)
  /\ LogFollows

\* Entries alike but for the badge are near, whatever is torn.
LEMMA AlikeIsNear ==
  ASSUME NEW x, NEW y
  PROVE  Alike(x, y) <=> Shows(x, y) /\ SameFlags(x, y)
BY DEF Alike, Shows, SameFlags

\* The entries of near sessions show the same.
LEMMA ShowsIsSame ==
  ASSUME NEW x \in Session, NEW y \in Session, Shows(x, y)
  PROVE  SameButFlags(x, y)
<1>. DEFINE a == [x EXCEPT !.muted = FALSE, !.soloed = FALSE]
            b == [y EXCEPT !.muted = FALSE, !.soloed = FALSE]
<1>1. a \in Session /\ b \in Session BY DEF Session
<1>2. [a EXCEPT !.unread = FALSE] = [b EXCEPT !.unread = FALSE] BY DEF Shows, Session
<1>. HIDE DEF a, b
<1>3. SameButUnread(a, b) BY <1>1, <1>2, AbsentIsNew DEF SameButUnread
<1>. QED BY <1>3, AbsentIsNew DEF SameButFlags, a, b

\* Entries alike but for the badge are the same to the log.
LEMMA AlikeIsSame ==
  ASSUME NEW x \in Session, NEW y \in Session, Alike(x, y)
  PROVE  SameButUnread(x, y)
<1>1. [x EXCEPT !.unread = FALSE] = [y EXCEPT !.unread = FALSE] BY DEF Alike, Session
<1>. QED BY <1>1, AbsentIsNew DEF SameButUnread

\* One solo stays one solo when only badges differ.
LEMMA OneSoloAlike ==
  ASSUME NEW e, NEW f, NEW M, OneSolo(e, M), Present(f) \subseteq Present(e),
         \A s \in Present(f) : SameFlags(f.sessions[s], e.sessions[s])
  PROVE  OneSolo(f, M)
BY DEF OneSolo, NeverBoth, SameFlags

\* So does no session that is both soloed and muted.
LEMMA NeverBothAlike ==
  ASSUME NEW e, NEW f, NeverBoth(e), Present(f) \subseteq Present(e),
         \A s \in Present(f) : SameFlags(f.sessions[s], e.sessions[s])
  PROVE  NeverBoth(f)
BY DEF NeverBoth, SameFlags

\* A session of which nothing but the badge changes is as near as before.
LEMMA NearAlike ==
  ASSUME NEW x, NEW y, NEW u, NEW w, NEW s, NEW T, Near(x, y, s, T), Alike(u, x), Alike(w, y)
  PROVE  Near(u, w, s, T)
BY DEF Near, Alike, Shows, SameFlags

\* Rollups of sessions alike but for the badge are alike but for the badge.
LEMMA RecomputedAlike ==
  ASSUME NEW x \in Session, RolledUp(x)
  PROVE  Alike(recompute_rollups(x), x)
BY DEF recompute_rollups, RolledUp, Alike, Session

\* Being alike but for the badge is transitive.
LEMMA AlikeTransitive ==
  ASSUME NEW x, NEW y, NEW z, Alike(x, y), Alike(y, z)
  PROVE  Alike(x, z)
BY DEF Alike

\* A session put into an engine, under a name for the engine it leaves.
LEMMA PutSession ==
  ASSUME NEW e \in Engine, NEW id \in SessionIds, NEW x \in Session,
         NEW g, g = upsert_session(e, id, x)
  PROVE  /\ g \in Engine
         /\ Present(g) = Present(e) \cup {id}
         /\ g.older = IF id \in Present(e) THEN e.older
                      ELSE e.older \cup {<<y, id>> : y \in Present(e)}
         /\ Alike(g.sessions[id], recompute_rollups(x))
         /\ \A s \in SessionIds \ {id} : g.sessions[s] = e.sessions[s]
<1>. DEFINE h == upsert_session(e, id, x)
<1>1. /\ h \in Engine
      /\ Present(h) = Present(e) \cup {id}
      /\ h.older = IF id \in Present(e) THEN e.older
                   ELSE e.older \cup {<<y, id>> : y \in Present(e)}
      /\ Alike(h.sessions[id], recompute_rollups(x))
      /\ \A s \in SessionIds \ {id} : h.sessions[s] = e.sessions[s]
  BY Upserted
<1>2. h = g OBVIOUS
<1>. HIDE DEF h
<1>. QED BY <1>1, <1>2

\* Each mutation of both projections keeps the one following the other.
LEMMA UpsertFollows ==
  ASSUME NEW e \in Engine, NEW f \in Engine, NEW T, Follows(f, e, T),
         NEW id \in SessionIds, NEW x \in Session,
         NEW g, g = upsert_session(e, id, x), NEW h, h = upsert_session(f, id, x)
  PROVE  Follows(h, g, T \ {id})
<1>2. /\ Present(g) = Present(e) \cup {id}
      /\ g.older = IF id \in Present(e) THEN e.older
                   ELSE e.older \cup {<<y, id>> : y \in Present(e)}
      /\ Alike(g.sessions[id], recompute_rollups(x))
      /\ \A s \in SessionIds \ {id} : g.sessions[s] = e.sessions[s]
  BY PutSession
<1>3. /\ Present(h) = Present(f) \cup {id}
      /\ h.older = IF id \in Present(f) THEN f.older
                   ELSE f.older \cup {<<y, id>> : y \in Present(f)}
      /\ Alike(h.sessions[id], recompute_rollups(x))
      /\ \A s \in SessionIds \ {id} : h.sessions[s] = f.sessions[s]
  BY PutSession
<1>4. Alike(h.sessions[id], g.sessions[id]) BY <1>2, <1>3 DEF Alike
<1>5. \A s \in Present(e) : s \in SessionIds BY PresentType
<1>6. \A s \in Present(g) : Near(h.sessions[s], g.sessions[s], s, T \ {id})
  <2>. TAKE s \in Present(g)
  <2>1. CASE s = id BY <1>4, <2>1, AlikeIsNear DEF Near
  <2>2. CASE s # id BY <1>2, <1>3, <1>5, <2>2 DEF Follows, Near
  <2>. QED BY <2>1, <2>2
<1>7. h.older = g.older /\ Present(h) = Present(g) BY <1>2, <1>3 DEF Follows
<1>. QED BY <1>6, <1>7 DEF Follows

\* The log follows the engine across the removal of a session.
LEMMA RemoveFollows ==
  ASSUME NEW e \in Engine, NEW f \in Engine, NEW T, Follows(f, e, T), NEW id \in Present(e)
  PROVE  Follows(remove_session(f, id), remove_session(e, id), T \ {id})
<1>. DEFINE g == remove_session(e, id)
            h == remove_session(f, id)
<1>0. id \in Present(f) BY DEF Follows
<1>1. /\ Present(g) = Present(e) \ {id}
      /\ g.older = {p \in e.older : p[1] # id /\ p[2] # id}
      /\ \A s \in Present(g) : Alike(g.sessions[s], e.sessions[s])
  BY Removed
<1>2. /\ Present(h) = Present(f) \ {id}
      /\ h.older = {p \in f.older : p[1] # id /\ p[2] # id}
      /\ \A s \in Present(h) : Alike(h.sessions[s], f.sessions[s])
  BY <1>0, Removed
<1>. HIDE DEF g, h
<1>3. \A s \in Present(g) : Near(h.sessions[s], g.sessions[s], s, T \ {id})
  <2>. TAKE s \in Present(g)
  <2>1. s \in Present(h) /\ s # id /\ Near(f.sessions[s], e.sessions[s], s, T)
    BY <1>1, <1>2 DEF Follows
  <2>2. Near(h.sessions[s], g.sessions[s], s, T) BY <1>1, <1>2, <2>1, NearAlike
  <2>. QED BY <2>1, <2>2 DEF Near
<1>4. Follows(h, g, T \ {id}) BY <1>1, <1>2, <1>3 DEF Follows
<1>. QED BY <1>4 DEF g, h

\* The log follows the engine when both replace a session's runs.
LEMMA RerunFollows ==
  ASSUME NEW e \in Engine, NEW f \in Engine, NEW T, Follows(f, e, T),
         NEW id \in Present(e), NEW runs \in Runs
  PROVE  Follows(WithRuns(f, id, runs), WithRuns(e, id, runs), T)
<1>. DEFINE g == WithRuns(e, id, runs)
            h == WithRuns(f, id, runs)
            x == [e.sessions[id] EXCEPT !.runs = runs]
            y == [f.sessions[id] EXCEPT !.runs = runs]
<1>0. /\ id \in Present(f) /\ e.sessions[id] \in Session /\ f.sessions[id] \in Session
      /\ Near(f.sessions[id], e.sessions[id], id, T)
  BY PresentType DEF Follows
<1>1. x \in Session /\ y \in Session /\ Near(y, x, id, T)
  BY <1>0 DEF Session, Near, Shows, SameFlags
<1>2. Near(recompute_rollups(y), recompute_rollups(x), id, T)
  BY <1>0, <1>1 DEF recompute_rollups, Session, Near, Shows, SameFlags
<1>3. /\ Present(g) = Present(e) /\ g.older = e.older
      /\ Alike(g.sessions[id], recompute_rollups(x))
      /\ \A s \in SessionIds \ {id} : g.sessions[s] = e.sessions[s]
  BY Rerun
<1>4. /\ Present(h) = Present(f) /\ h.older = f.older
      /\ Alike(h.sessions[id], recompute_rollups(y))
      /\ \A s \in SessionIds \ {id} : h.sessions[s] = f.sessions[s]
  BY <1>0, Rerun
<1>. HIDE DEF g, h, x, y
<1>5. Near(h.sessions[id], g.sessions[id], id, T) BY <1>2, <1>3, <1>4, NearAlike
<1>6. \A s \in Present(e) : s \in SessionIds BY PresentType
<1>7. Follows(h, g, T) BY <1>3, <1>4, <1>5, <1>6 DEF Follows
<1>. QED BY <1>7 DEF g, h

\* The log follows the engine across the upsert of a run.
LEMMA UpsertRunFollows ==
  ASSUME NEW e \in Engine, NEW f \in Engine, NEW T, Follows(f, e, T), NEW id \in Present(e),
         NEW rid \in RunIds, NEW run \in AgentRun
  PROVE  Follows(upsert_run(f, id, rid, run), upsert_run(e, id, rid, run), T)
<1>1. /\ id \in Present(f) /\ e.sessions[id] \in Session
      /\ f.sessions[id].runs = e.sessions[id].runs
  BY PresentType DEF Follows, Near, Shows
<1>2. [e.sessions[id].runs EXCEPT ![rid] = run] \in Runs BY <1>1 DEF Session, Runs
<1>. QED BY <1>1, <1>2, RerunFollows DEF upsert_run

\* The log follows the engine across the removal of a run.
LEMMA RemoveRunFollows ==
  ASSUME NEW e \in Engine, NEW f \in Engine, NEW T, Follows(f, e, T), NEW id, NEW rid \in RunIds,
         HasRun(e, id, rid)
  PROVE  Follows(remove_run(f, id, rid), remove_run(e, id, rid), T)
<1>1. /\ id \in Present(e) /\ id \in Present(f) /\ e.sessions[id] \in Session
      /\ f.sessions[id].runs = e.sessions[id].runs
  BY PresentType DEF Follows, Near, Shows, HasRun
<1>2. HasRun(f, id, rid) BY <1>1 DEF HasRun
<1>3. [e.sessions[id].runs EXCEPT ![rid] = Absent] \in Runs BY <1>1 DEF Session, Runs
<1>. QED BY <1>1, <1>2, <1>3, RerunFollows DEF remove_run

\* The runs of a session do not move its flags.
LEMMA RerunOneSolo ==
  ASSUME NEW e \in Engine, NEW M, OneSolo(e, M), NEW id \in Present(e), NEW runs \in Runs
  PROVE  OneSolo(WithRuns(e, id, runs), M)
<1>. DEFINE g == WithRuns(e, id, runs)
            x == [e.sessions[id] EXCEPT !.runs = runs]
<1>1. e.sessions[id] \in Session BY PresentType
<1>2. x \in Session /\ x.muted = e.sessions[id].muted /\ x.soloed = e.sessions[id].soloed
  BY <1>1 DEF Session
<1>3. /\ Present(g) = Present(e)
      /\ Alike(g.sessions[id], recompute_rollups(x))
      /\ \A s \in SessionIds \ {id} : g.sessions[s] = e.sessions[s]
  BY Rerun
<1>. HIDE DEF g, x
<1>4. /\ g.sessions[id].muted = e.sessions[id].muted
      /\ g.sessions[id].soloed = e.sessions[id].soloed
  BY <1>2, <1>3, Recomputed DEF Alike
<1>5. \A s \in Present(e) : s \in SessionIds BY PresentType
<1>6. OneSolo(g, M) BY <1>3, <1>4, <1>5, OneSoloAlike DEF SameFlags
<1>. QED BY <1>6 DEF g

\* A session as stored by a report carries the flags the Hub already has for it.
LEMMA UpsertOneSolo ==
  ASSUME NEW e \in Engine, NEW M, OneSolo(e, M), NEW id \in SessionIds, NEW x \in Session,
         ~x.muted, ~x.soloed
  PROVE  OneSolo(upsert_session(e, id, preserve_hub_owned_fields(e, id, x)), M)
<1>. DEFINE y == preserve_hub_owned_fields(e, id, x)
            g == upsert_session(e, id, y)
<1>1. y \in Session BY ShellKept
<1>2. \/ id \in Present(e) /\ y.muted = e.sessions[id].muted /\ y.soloed = e.sessions[id].soloed
      \/ id \notin Present(e) /\ ~y.soloed
  BY DEF preserve_hub_owned_fields, Session
<1>. HIDE DEF y
<1>3. /\ g \in Engine
      /\ Present(g) = Present(e) \cup {id}
      /\ g.older = IF id \in Present(e) THEN e.older
                   ELSE e.older \cup {<<z, id>> : z \in Present(e)}
      /\ Alike(g.sessions[id], recompute_rollups(y))
      /\ \A s \in SessionIds \ {id} : g.sessions[s] = e.sessions[s]
  BY <1>1, Upserted, ZenonT(60)
<1>. HIDE DEF g
<1>4. g.sessions[id].muted = y.muted /\ g.sessions[id].soloed = y.soloed
  BY <1>1, <1>3, Recomputed DEF Alike
<1>5. \A s \in Present(e) : s \in SessionIds BY PresentType
<1>6. OneSolo(g, M) BY <1>2, <1>3, <1>4, <1>5 DEF OneSolo, NeverBoth
<1>. QED BY <1>6 DEF g, y

\* Removing a session keeps one solo.
LEMMA RemoveOneSolo ==
  ASSUME NEW e \in Engine, NEW M, OneSolo(e, M), NEW id \in Present(e)
  PROVE  OneSolo(remove_session(e, id), M)
<1>. DEFINE g == remove_session(e, id)
<1>1. /\ g \in Engine
      /\ Present(g) = Present(e) \ {id}
      /\ g.older = {p \in e.older : p[1] # id /\ p[2] # id}
      /\ \A s \in Present(g) : Alike(g.sessions[s], e.sessions[s])
  BY Removed
<1>. HIDE DEF g
<1>2. OneSolo(g, M) BY <1>1, OneSoloAlike DEF Alike, SameFlags
<1>. QED BY <1>2 DEF g

\* Upserting a run keeps one solo.
LEMMA UpsertRunOneSolo ==
  ASSUME NEW e \in Engine, NEW M, OneSolo(e, M), NEW id \in Present(e), NEW rid \in RunIds, NEW run \in AgentRun
  PROVE  OneSolo(upsert_run(e, id, rid, run), M)
<1>1. e.sessions[id] \in Session BY PresentType
<1>2. [e.sessions[id].runs EXCEPT ![rid] = run] \in Runs BY <1>1 DEF Session, Runs
<1>. QED BY <1>2, RerunOneSolo DEF upsert_run

\* Removing a run keeps one solo.
LEMMA RemoveRunOneSolo ==
  ASSUME NEW e \in Engine, NEW M, OneSolo(e, M), NEW id, NEW rid \in RunIds, HasRun(e, id, rid)
  PROVE  OneSolo(remove_run(e, id, rid), M)
<1>1. id \in Present(e) BY DEF HasRun
<1>2. e.sessions[id] \in Session BY <1>1, PresentType
<1>3. [e.sessions[id].runs EXCEPT ![rid] = Absent] \in Runs BY <1>2 DEF Session, Runs
<1>. QED BY <1>1, <1>3, RerunOneSolo DEF remove_run

\* New flags with one solo, and badges as they come, are one solo.
LEMMA ReflaggedOneSolo ==
  ASSUME NEW e, NEW g, NEW M, NEW m, NEW o, Reflagged(e, g, m, o),
         \A s \in Present(e) : o[s] => ~m[s],
         \A s, t \in Present(e) : o[s] /\ o[t] => s = t \/ s \in M \/ t \in M
  PROVE  OneSolo(g, M)
BY DEF Reflagged, OneSolo, NeverBoth

\* A mute, an unmute and a solo each leave one solo.
LEMMA CommandOneSolo ==
  ASSUME NEW e \in Engine, NEW M, OneSolo(e, M), NEW id \in Present(e)
  PROVE  OneSolo(apply_mute(e, id), M) /\ OneSolo(apply_unmute(e, id), M) /\ OneSolo(apply_solo(e, id), M)
<1>. DEFINE muted(b)  == [s \in Present(e) |-> IF s = id THEN b ELSE e.sessions[s].muted]
            soloed(b) == [s \in Present(e) |-> IF s = id THEN b ELSE e.sessions[s].soloed]
<1>1. ASSUME NEW b \in BOOLEAN
      PROVE  /\ \A s \in Present(e) : soloed(FALSE)[s] => ~muted(b)[s]
             /\ \A s, t \in Present(e) : soloed(FALSE)[s] /\ soloed(FALSE)[t] => s = t \/ s \in M \/ t \in M
  BY DEF OneSolo, NeverBoth
<1>2. Reflagged(e, apply_mute(e, id), muted(TRUE), soloed(FALSE)) BY MuteReflags
<1>3. Reflagged(e, apply_unmute(e, id), muted(FALSE), soloed(FALSE)) BY UnmuteReflags
<1>. HIDE DEF muted, soloed
<1>4. OneSolo(apply_mute(e, id), M) BY <1>1, <1>2, ReflaggedOneSolo
<1>5. OneSolo(apply_unmute(e, id), M) BY <1>1, <1>3, ReflaggedOneSolo
<1>6. OneSolo(apply_solo(e, id), M)
  <2>. DEFINE m == [s \in Present(e) |-> e.sessions[s].muted /\ s # id]
              o == [s \in Present(e) |-> s = id]
  <2>1. /\ \A s \in Present(e) : o[s] => ~m[s]
        /\ \A s, t \in Present(e) : o[s] /\ o[t] => s = t \/ s \in M \/ t \in M
    BY Zenon
  <2>2. Reflagged(e, apply_solo(e, id), m, o) BY SoloReflags
  <2>. HIDE DEF m, o
  <2>. QED BY <2>1, <2>2, ReflaggedOneSolo
<1>. QED BY <1>4, <1>5, <1>6

\* The kinds of the jobs.
LEMMA JobKinds ==
  /\ Idle.kind = "idle" /\ Gc.kind = "gc"
  /\ \A rows, before : /\ Flags(rows, before).kind = "flags"
                        /\ Flags(rows, before).before = before
BY DEF Idle, Gc, Flags

\* A flag change that begins is one of the three commands.
LEMMA FlagCommand ==
  ASSUME NEW id \in SessionIds, Mute(id) \/ Unmute(id) \/ Solo(id)
  PROVE  /\ job = Idle /\ job'.kind = "flags" /\ job'.before = engine
         /\ id \in Present(engine)
         /\ engine' \in {apply_mute(engine, id), apply_unmute(engine, id), apply_solo(engine, id)}
<1>1. ASSUME NEW after \in {apply_mute(engine, id), apply_unmute(engine, id), apply_solo(engine, id)},
             apply_flag_change(after)
      PROVE  /\ job = Idle /\ job'.kind = "flags" /\ job'.before = engine
             /\ id \in Present(engine) /\ engine' = after
  <2>1. id \in Present(engine)
    BY <1>1 DEF apply_flag_change, apply_mute, apply_unmute, apply_solo
  <2>. QED BY <1>1, <2>1, JobKinds DEF apply_flag_change
<1>. QED BY <1>1 DEF Mute, Unmute, Solo

\* Only a command and the rows after it have a flag change under way.
LEMMA FlagsFromCommandStep ==
  ASSUME FlagsFromCommand, [Next]_vars
  PROVE  FlagsFromCommand'
<1>1. CASE \E id \in SessionIds : Mute(id) \/ Unmute(id) \/ Solo(id)
  BY <1>1, FlagCommand DEF FlagsFromCommand, Present
<1>2. ASSUME NEW id \in SessionIds, AppendFlagRow(id) PROVE FlagsFromCommand'
  <2>1. engine' = engine /\ job.kind = "flags" /\ (job' = Idle \/ job' = Flags(job.rows \ {id}, job.before))
    BY <1>2 DEF AppendFlagRow
  <2>. QED BY <2>1, JobKinds DEF FlagsFromCommand
<1>3. CASE job' \in {Idle, Gc} BY <1>3, JobKinds DEF FlagsFromCommand
<1>4. CASE UNCHANGED vars BY <1>4 DEF vars, FlagsFromCommand
<1>. QED
  BY <1>1, <1>2, <1>3, <1>4
  DEF Next, apply_session_upsert, apply_session_remove, apply_run_upsert, apply_run_upsert_seq,
      RunUpsertSeqNotAppended, Admitted, apply_run_remove, FlagRowNotAppended, Focus,
      GcBegin, reap_dead, sweep_expired_sessions, GcEnd, Tick, Restart

\* With no job, keeping up is following.
LEMMA RestFollows ==
  ASSUME KeepsUpInv, job \in {Idle, Gc}
  PROVE  Follows(logged, engine, torn)
<1>1. job.rows = {} BY QuietJob
<1>. QED BY <1>1 DEF KeepsUpInv, LogFollows, Follows

\* What the log would restore is memory as faces are shown it, but for the flags
\* of the sessions that are torn or half written.
LEMMA SettledFollows ==
  ASSUME KeepsUpInv
  PROVE  Follows(logged, settled, torn \cup HalfWritten)
<1>1. CASE job.kind # "flags"
  <2>1. settled = engine /\ HalfWritten = {} /\ job.rows = {}
    BY <1>1 DEF settled, HalfWritten, KeepsUpInv, StoreInv, JobOK
  <2>. QED BY <2>1 DEF KeepsUpInv, LogFollows, Follows
<1>2. CASE job.kind = "flags"
  <2>1. settled = job.before /\ HalfWritten = FlagsMoved(job.before, engine) \ job.rows
    BY <1>2 DEF settled, HalfWritten
  <2>2. /\ Present(job.before) = Present(engine) /\ job.before.older = engine.older
        /\ \A s \in Present(engine) : Shows(job.before.sessions[s], engine.sessions[s])
    BY <1>2 DEF KeepsUpInv, StoreInv, JobOK
  <2>3. \A s \in Present(engine) : s \notin FlagsMoved(job.before, engine) =>
          SameFlags(job.before.sessions[s], engine.sessions[s])
    BY DEF FlagsMoved, SameFlags
  <2>4. ASSUME NEW s \in Present(engine)
        PROVE  Near(logged.sessions[s], job.before.sessions[s], s, torn \cup HalfWritten)
    <3>1. CASE s \in job.rows
      BY <3>1 DEF KeepsUpInv, LogFollows, Near
    <3>2. CASE s \notin job.rows
      <4>1. Near(logged.sessions[s], engine.sessions[s], s, torn)
        BY <3>2 DEF KeepsUpInv, LogFollows
      <4>. QED BY <2>1, <2>2, <2>3, <3>2, <4>1 DEF Near, Shows, SameFlags
    <3>. QED BY <3>1, <3>2
  <2>. QED BY <2>1, <2>2, <2>4 DEF KeepsUpInv, LogFollows, Follows
<1>. QED BY <1>1, <1>2

\* An engine that follows and has one solo keeps up when no job is left.
LEMMA KeepsAtRest ==
  ASSUME StoreInv', job' \in {Idle, Gc}, OneSolo(engine', mixed'), NeverBoth(logged'),
         Follows(logged', engine', torn')
  PROVE  KeepsUpInv'
<1>1. job'.rows = {} /\ job'.before = EmptyEngine
  <2>. HIDE DEF EmptyEngine
  <2>. QED BY DEF Idle, Gc
<1>2. OneSolo(job.before, mixed)' BY <1>1, EmptySound DEF OneSolo, NeverBoth
<1>3. OneSolo(engine, mixed)' /\ NeverBoth(logged)' BY DEF OneSolo, NeverBoth, Present
<1>4. LogFollows' BY <1>1 DEF LogFollows, Follows
<1>5. FlagsFromCommand' BY JobKinds DEF FlagsFromCommand
<1>. QED BY <1>2, <1>3, <1>4, <1>5 DEF KeepsUpInv

\* A flag change that begins keeps the log up with memory.
LEMMA KeepsFlagChange ==
  ASSUME KeepsUpInv, StoreInv', FlagsFromCommand',
         NEW after, apply_flag_change(after), OneSolo(after, mixed),
         Present(after) = Present(engine), after.older = engine.older
  PROVE  KeepsUpInv'
<1>1. /\ job = Idle /\ job' = Flags(Changed(engine, after), engine)
      /\ engine' = after /\ logged' = logged /\ torn' = torn /\ mixed' = mixed
  BY DEF apply_flag_change, tears
<1>2. Follows(logged, engine, torn) BY <1>1, RestFollows
<1>3. job'.rows = Changed(engine, after) /\ job'.before = engine BY <1>1 DEF Flags
<1>4. \A s \in Present(after) : s \notin Changed(engine, after) => after.sessions[s] = engine.sessions[s]
  BY DEF Changed
<1>5. LogFollows' BY <1>1, <1>2, <1>3, <1>4 DEF LogFollows, Follows
<1>. QED BY <1>1, <1>3, <1>5 DEF KeepsUpInv

\* Writing a session that is there, as it is, changes that session only.
LEMMA Rewritten ==
  ASSUME NEW e \in Engine, NEW id \in Present(e), NEW x \in Session, RolledUp(x),
         NEW g, g = upsert_session(e, id, x)
  PROVE  /\ Present(g) = Present(e)
         /\ g.older = e.older
         /\ Alike(g.sessions[id], x)
         /\ \A s \in SessionIds \ {id} : g.sessions[s] = e.sessions[s]
<1>. DEFINE h == upsert_session(e, id, x)
<1>1. id \in SessionIds BY PresentType
<1>2. /\ h \in Engine
      /\ Present(h) = Present(e) \cup {id}
      /\ h.older = IF id \in Present(e) THEN e.older
                   ELSE e.older \cup {<<y, id>> : y \in Present(e)}
      /\ Alike(h.sessions[id], recompute_rollups(x))
      /\ \A s \in SessionIds \ {id} : h.sessions[s] = e.sessions[s]
  BY <1>1, Upserted
<1>3. h = g OBVIOUS
<1>. HIDE DEF h
<1>4. Alike(h.sessions[id], x) BY <1>2, RecomputedAlike, AlikeTransitive
<1>. QED BY <1>2, <1>3, <1>4

\* A command adds no session, takes none and moves none.
LEMMA CommandKeepsOrder ==
  ASSUME NEW e \in Engine, NEW id \in Present(e),
         NEW g \in {apply_mute(e, id), apply_unmute(e, id), apply_solo(e, id)}
  PROVE  Present(g) = Present(e) /\ g.older = e.older
<1>1. CASE g = apply_mute(e, id) BY <1>1, MuteReflags DEF Reflagged
<1>2. CASE g = apply_unmute(e, id) BY <1>2, UnmuteReflags DEF Reflagged
<1>3. CASE g = apply_solo(e, id) BY <1>3, SoloReflags DEF Reflagged
<1>. QED BY <1>1, <1>2, <1>3

\* The log is up with memory at the start.
LEMMA KeepsUpInit == Init => KeepsUpInv
<1>. SUFFICES ASSUME Init PROVE KeepsUpInv OBVIOUS
<1>1. StoreInv BY StoreInvInit
<1>2. Present(EmptyEngine) = {} BY EmptySound
<1>3. /\ engine = EmptyEngine /\ logged = EmptyEngine /\ job = Idle BY DEF Init
<1>4. job.before = EmptyEngine
  <2>. HIDE DEF EmptyEngine
  <2>. QED BY <1>3 DEF Idle
<1>5. FlagsFromCommand BY <1>3, JobKinds DEF FlagsFromCommand
<1>. QED BY <1>1, <1>2, <1>3, <1>4, <1>5 DEF KeepsUpInv, OneSolo, NeverBoth, LogFollows

\* A session with its new row is as in memory; the others keep what they had.
LEMMA RowFollows ==
  ASSUME NEW e \in Engine, NEW f \in Engine, NEW T, Follows(f, e, T), NEW id \in Present(e),
         RolledUp(e.sessions[id]), NeverBoth(f), NeverBoth(e),
         NEW g, g = upsert_session(f, id, e.sessions[id])
  PROVE  Follows(g, e, T \ {id}) /\ NeverBoth(g)
<1>0. id \in Present(f) /\ e.sessions[id] \in Session BY PresentType DEF Follows
<1>1. /\ Present(g) = Present(f) /\ g.older = f.older
      /\ Alike(g.sessions[id], e.sessions[id])
      /\ \A s \in SessionIds \ {id} : g.sessions[s] = f.sessions[s]
  BY <1>0, Rewritten
<1>2. \A s \in Present(e) : s \in SessionIds BY PresentType
<1>3. ASSUME NEW s \in Present(e)
      PROVE  /\ Near(g.sessions[s], e.sessions[s], s, T \ {id})
             /\ g.sessions[s].soloed => ~g.sessions[s].muted
  <2>1. CASE s = id BY <1>1, <2>1, AlikeIsNear DEF Near, NeverBoth, SameFlags
  <2>2. CASE s # id BY <1>1, <1>2, <2>2 DEF Follows, Near, NeverBoth
  <2>. QED BY <2>1, <2>2
<1>. QED BY <1>1, <1>3 DEF Follows, NeverBoth

\* A report of a session keeps the flags of the engine it comes to.
LEMMA KeptFlags ==
  ASSUME NEW e \in Engine, NeverBoth(e), NEW f \in Engine, NeverBoth(f),
         NEW id \in SessionIds, NEW x \in Session, ~x.muted, ~x.soloed
  PROVE  NeverBoth(upsert_session(f, id, preserve_hub_owned_fields(e, id, x)))
<1>. DEFINE y == preserve_hub_owned_fields(e, id, x)
            g == upsert_session(f, id, y)
<1>1. y \in Session BY ShellKept
<1>2. y.soloed => ~y.muted
  BY DEF preserve_hub_owned_fields, Session, NeverBoth
<1>. HIDE DEF y
<1>3. /\ g \in Engine
      /\ Present(g) = Present(f) \cup {id}
      /\ g.older = IF id \in Present(f) THEN f.older
                   ELSE f.older \cup {<<z, id>> : z \in Present(f)}
      /\ Alike(g.sessions[id], recompute_rollups(y))
      /\ \A s \in SessionIds \ {id} : g.sessions[s] = f.sessions[s]
  BY <1>1, Upserted, ZenonT(60)
<1>. HIDE DEF g
<1>4. g.sessions[id].muted = y.muted /\ g.sessions[id].soloed = y.soloed
  BY <1>1, <1>3, Recomputed DEF Alike
<1>5. \A s \in Present(f) : s \in SessionIds BY PresentType
<1>6. NeverBoth(g) BY <1>2, <1>3, <1>4, <1>5 DEF NeverBoth
<1>. QED BY <1>6 DEF g, y

\* Removing a session, or upserting or removing a run, makes no session both.
LEMMA NeverBothKept ==
  ASSUME NEW f \in Engine, NeverBoth(f), NEW id \in Present(f)
  PROVE  /\ NeverBoth(remove_session(f, id))
         /\ \A rid \in RunIds, run \in AgentRun : NeverBoth(upsert_run(f, id, rid, run))
         /\ \A rid \in RunIds : HasRun(f, id, rid) => NeverBoth(remove_run(f, id, rid))
<1>1. OneSolo(f, SessionIds) BY PresentType DEF OneSolo
<1>2. NeverBoth(remove_session(f, id)) BY <1>1, RemoveOneSolo DEF OneSolo
<1>3. ASSUME NEW rid \in RunIds, NEW run \in AgentRun PROVE NeverBoth(upsert_run(f, id, rid, run))
  BY <1>1, UpsertRunOneSolo DEF OneSolo
<1>4. ASSUME NEW rid \in RunIds, HasRun(f, id, rid) PROVE NeverBoth(remove_run(f, id, rid))
  BY <1>1, <1>4, RemoveRunOneSolo DEF OneSolo
<1>. QED BY <1>2, <1>3, <1>4

\* Fewer sessions mixed that are still there is enough.
LEMMA OneSoloFewer ==
  ASSUME NEW e, NEW M, NEW N, OneSolo(e, M), \A s \in Present(e) : s \in M => s \in N
  PROVE  OneSolo(e, N)
BY DEF OneSolo

\* A command has one solo outside the sessions whose flags it leaves alone.
LEMMA CommandSettles ==
  ASSUME NEW e \in Engine, NEW M, OneSolo(e, M), NEW id \in Present(e),
         NEW g \in {apply_mute(e, id), apply_unmute(e, id), apply_solo(e, id)}
  PROVE  OneSolo(g, M \ FlagsMoved(e, g))
<1>0. id \in SessionIds BY PresentType
<1>1. OneSolo(g, M) BY CommandOneSolo
<1>2. ASSUME g = apply_solo(e, id) PROVE OneSolo(g, {})
  <2>. DEFINE m == [s \in Present(e) |-> e.sessions[s].muted /\ s # id]
              o == [s \in Present(e) |-> s = id]
  <2>1. /\ \A s \in Present(e) : o[s] => ~m[s]
        /\ \A s, t \in Present(e) : o[s] /\ o[t] => s = t \/ s \in {} \/ t \in {}
    BY Zenon
  <2>2. Reflagged(e, g, m, o) BY <1>2, SoloReflags
  <2>. HIDE DEF m, o
  <2>. QED BY <2>1, <2>2, ReflaggedOneSolo
<1>3. ASSUME g # apply_solo(e, id)
      PROVE  \A s \in Present(g) : g.sessions[s].soloed => s \notin FlagsMoved(e, g)
  <2>. DEFINE muted(b)  == [s \in Present(e) |-> IF s = id THEN b ELSE e.sessions[s].muted]
              soloed(b) == [s \in Present(e) |-> IF s = id THEN b ELSE e.sessions[s].soloed]
  <2>1. \E b \in BOOLEAN : Reflagged(e, g, muted(b), soloed(FALSE))
    BY <1>3, MuteReflags, UnmuteReflags
  <2>2. PICK b \in BOOLEAN : Reflagged(e, g, muted(b), soloed(FALSE)) BY <2>1
  <2>3. \A s \in Present(e) : /\ g.sessions[s].muted = IF s = id THEN b ELSE e.sessions[s].muted
                              /\ g.sessions[s].soloed = IF s = id THEN FALSE ELSE e.sessions[s].soloed
    BY <2>2 DEF Reflagged
  <2>4. Present(g) = Present(e) BY <2>2 DEF Reflagged
  <2>. QED BY <2>3, <2>4 DEF FlagsMoved
<1>4. CASE g = apply_solo(e, id) BY <1>2, <1>4, OneSoloFewer
<1>5. CASE g # apply_solo(e, id) BY <1>1, <1>3, <1>5 DEF OneSolo
<1>. QED BY <1>4, <1>5

\* Every step keeps the log up with memory, whatever fails and wherever the
\* process ends.
LEMMA KeepsUpStep == KeepsUpInv /\ [Next]_vars => KeepsUpInv'
<1>. SUFFICES ASSUME KeepsUpInv, [Next]_vars PROVE KeepsUpInv' OBVIOUS
<1>0. /\ StoreInv /\ StoreInv' /\ FlagsFromCommand'
      /\ engine \in Engine /\ logged \in Engine /\ job.before \in Engine
      /\ OneSolo(engine, mixed) /\ OneSolo(job.before, mixed)
      /\ NeverBoth(engine) /\ NeverBoth(job.before) /\ NeverBoth(logged)
  BY StoreInvStep, FlagsFromCommandStep DEF KeepsUpInv, StoreInv, Sound, OneSolo
<1>1. ASSUME NEW id \in SessionIds, NEW t \in Timestamps,
             NEW runs \in [RunIds -> InputRuns \cup {Absent}],
             apply_session_upsert(id, runs, t)
      PROVE  KeepsUpInv'
  <2>. DEFINE x == Shell(runs, t)
              y == preserve_hub_owned_fields(engine, id, x)
  <2>1. x \in Session BY InputType
  <2>2. ~x.muted /\ ~x.soloed BY DEF Shell
  <2>0. /\ engine' = upsert_session(engine, id, y) /\ logged' = upsert_session(logged, id, y)
        /\ job = Idle /\ job' = job /\ torn' = torn \ {id} /\ mixed' = mixed
    BY <1>1 DEF apply_session_upsert
  <2>. HIDE DEF x
  <2>3. y \in Session BY <1>0, <2>1, ShellKept
  <2>4. Follows(logged, engine, torn) BY <2>0, RestFollows
  <2>5. Follows(logged', engine', torn')
    <3>. HIDE DEF y
    <3>. QED BY <1>0, <2>0, <2>3, <2>4, UpsertFollows
  <2>6. OneSolo(engine', mixed') BY <1>0, <2>0, <2>1, <2>2, UpsertOneSolo
  <2>7. NeverBoth(logged') BY <1>0, <2>0, <2>1, <2>2, KeptFlags
  <2>. QED BY <1>0, <2>0, <2>5, <2>6, <2>7, KeepsAtRest
<1>2. ASSUME NEW id \in SessionIds, job \in {Idle, Gc}, job' = job, RemoveSession(id)
      PROVE  KeepsUpInv'
  <2>1. /\ engine' = remove_session(engine, id) /\ logged' = remove_session(logged, id)
        /\ torn' = torn \ {id} /\ mixed' = mixed \ {id} /\ id \in Present(engine)
    BY <1>2 DEF RemoveSession
  <2>2. Follows(logged, engine, torn) BY <1>2, RestFollows
  <2>3. Follows(logged', engine', torn') BY <1>0, <2>1, <2>2, RemoveFollows
  <2>4. id \in Present(logged) BY <2>1, <2>2 DEF Follows
  <2>5. NeverBoth(logged') BY <1>0, <2>1, <2>4, NeverBothKept
  <2>6. OneSolo(engine', mixed) BY <1>0, <2>1, RemoveOneSolo
  <2>7. Present(engine') = Present(engine) \ {id} BY <1>0, <2>1, Removed
  <2>8. OneSolo(engine', mixed') BY <2>1, <2>6, <2>7, OneSoloFewer
  <2>. QED BY <1>0, <1>2, <2>3, <2>5, <2>8, KeepsAtRest
<1>3. ASSUME NEW id \in SessionIds, NEW rid \in RunIds, NEW run \in InputRuns,
             job = Idle, job' = job, id \in Present(engine), UNCHANGED <<torn, mixed>>,
             logged' = upsert_run(logged, id, rid, run),
             engine' = upsert_run(engine, id, rid, run)
      PROVE  KeepsUpInv'
  <2>1. Follows(logged, engine, torn) BY <1>3, RestFollows
  <2>2. run \in AgentRun BY InputType
  <2>3. id \in Present(logged) BY <1>3, <2>1 DEF Follows
  <2>4. Follows(logged', engine', torn') BY <1>0, <1>3, <2>1, <2>2, UpsertRunFollows
  <2>5. OneSolo(engine', mixed') BY <1>0, <1>3, <2>2, UpsertRunOneSolo
  <2>6. NeverBoth(logged') BY <1>0, <1>3, <2>2, <2>3, NeverBothKept
  <2>. QED BY <1>0, <1>3, <2>4, <2>5, <2>6, KeepsAtRest
<1>4. ASSUME NEW id \in SessionIds, NEW rid \in RunIds, NEW stamp \in Stamps,
             RunUpsertSeqNotAppended(id, rid, stamp)
      PROVE  KeepsUpInv'
  BY <1>0, <1>4, RestFollows, KeepsAtRest DEF RunUpsertSeqNotAppended, Admitted, tears
<1>5. ASSUME NEW id \in SessionIds, NEW rid \in RunIds, job \in {Idle, Gc}, job' = job,
             RemoveRun(id, rid), UNCHANGED <<torn, mixed>>
      PROVE  KeepsUpInv'
  <2>1. /\ engine' = remove_run(engine, id, rid) /\ logged' = remove_run(logged, id, rid)
        /\ HasRun(engine, id, rid)
    BY <1>5 DEF RemoveRun
  <2>2. Follows(logged, engine, torn) BY <1>5, RestFollows
  <2>3. Follows(logged', engine', torn') BY <1>0, <1>5, <2>1, <2>2, RemoveRunFollows
  <2>4. OneSolo(engine', mixed') BY <1>0, <1>5, <2>1, RemoveRunOneSolo
  <2>5. id \in Present(logged) /\ HasRun(logged, id, rid)
    BY <2>1, <2>2 DEF Follows, HasRun, Near, Shows
  <2>6. NeverBoth(logged') BY <1>0, <2>1, <2>5, NeverBothKept
  <2>. QED BY <1>0, <1>5, <2>3, <2>4, <2>6, KeepsAtRest
<1>6. ASSUME NEW id \in SessionIds, Mute(id) \/ Unmute(id) \/ Solo(id)
      PROVE  KeepsUpInv'
  <2>1. ASSUME NEW after \in {apply_mute(engine, id), apply_unmute(engine, id), apply_solo(engine, id)},
               apply_flag_change(after)
        PROVE  KeepsUpInv'
    <3>1. id \in Present(engine)
      BY <2>1 DEF apply_flag_change, apply_mute, apply_unmute, apply_solo
    <3>2. OneSolo(after, mixed) BY <1>0, <3>1, CommandOneSolo
    <3>3. Present(after) = Present(engine) /\ after.older = engine.older
      BY <1>0, <3>1, CommandKeepsOrder
    <3>. QED BY <1>0, <2>1, <3>2, <3>3, KeepsFlagChange
  <2>. QED BY <1>6, <2>1 DEF Mute, Unmute, Solo
<1>7. ASSUME NEW id \in SessionIds, AppendFlagRow(id)
      PROVE  KeepsUpInv'
  <2>. DEFINE x == engine.sessions[id]
  <2>1. /\ job.kind = "flags" /\ id \in job.rows
        /\ logged' = upsert_session(logged, id, x)
        /\ engine' = engine /\ torn' = torn \ {id}
    BY <1>7 DEF AppendFlagRow, NextRow
  <2>2. id \in Present(engine) /\ id \in Present(logged)
    BY <1>0, <2>1 DEF KeepsUpInv, StoreInv, JobOK, Changed, LogFollows
  <2>3. x \in Session /\ RolledUp(x)
    BY <1>0, <2>2, PresentType DEF StoreInv, Sound, AllRolledUp
  <2>0. x.soloed => ~x.muted BY <1>0, <2>2 DEF NeverBoth
  <2>. HIDE DEF x
  <2>4. /\ Present(logged') = Present(logged) /\ logged'.older = logged.older
        /\ Alike(logged'.sessions[id], x)
        /\ \A s \in SessionIds \ {id} : logged'.sessions[s] = logged.sessions[s]
    BY <1>0, <2>1, <2>2, <2>3, Rewritten
  <2>6. /\ logged'.older = engine.older /\ Present(logged') = Present(engine)
    BY <2>2, <2>4 DEF KeepsUpInv, LogFollows
  <2>7. \A s \in Present(engine) : s \in SessionIds BY <1>0, PresentType
  <2>8. ASSUME NEW s \in Present(engine)
        PROVE  /\ Near(logged'.sessions[s],
                       (IF s \in job.rows \ {id} THEN job.before ELSE engine).sessions[s], s, torn')
               /\ logged'.sessions[s].soloed => ~logged'.sessions[s].muted
    <3>1. CASE s = id
      BY <2>0, <2>4, <3>1, AlikeIsNear DEF Near, SameFlags, x
    <3>2. CASE s # id
      BY <1>0, <2>1, <2>4, <2>7, <3>2 DEF KeepsUpInv, LogFollows, Near, NeverBoth
    <3>. QED BY <3>1, <3>2
  <2>11. NeverBoth(logged') BY <2>6, <2>8 DEF NeverBoth
  <2>9. CASE job.rows = {id}
    <3>1. job' = Idle /\ mixed' = mixed \ FlagsMoved(job.before, engine)
      BY <1>7, <2>9 DEF AppendFlagRow
    <3>2. Follows(logged', engine', torn') BY <2>1, <2>6, <2>8, <2>9 DEF Follows
    <3>3. PICK s \in Present(job.before) :
            engine \in {apply_mute(job.before, s), apply_unmute(job.before, s), apply_solo(job.before, s)}
      BY <2>1 DEF KeepsUpInv, FlagsFromCommand
    <3>4. OneSolo(engine', mixed') BY <1>0, <2>1, <3>1, <3>3, CommandSettles
    <3>. QED BY <1>0, <2>11, <3>1, <3>2, <3>4, KeepsAtRest
  <2>10. CASE job.rows # {id}
    <3>1. job' = Flags(job.rows \ {id}, job.before) /\ mixed' = mixed
      BY <1>7, <2>10 DEF AppendFlagRow
    <3>2. job'.rows = job.rows \ {id} /\ job'.before = job.before BY <3>1 DEF Flags
    <3>3. LogFollows' BY <2>1, <2>6, <2>8, <3>2 DEF LogFollows
    <3>4. NeverBoth(logged)' BY <2>11 DEF NeverBoth, Present
    <3>. QED BY <1>0, <2>1, <3>1, <3>2, <3>3, <3>4 DEF KeepsUpInv
  <2>. QED BY <2>9, <2>10
<1>8. CASE FlagRowNotAppended
  <2>1. /\ job.kind = "flags" /\ engine' = job.before /\ logged' = logged /\ job' = Idle
        /\ torn' = torn \cup HalfWritten /\ mixed' = mixed
    BY <1>8 DEF FlagRowNotAppended
  <2>2. Follows(logged', engine', torn')
    BY <2>1, SettledFollows DEF settled
  <2>. QED BY <1>0, <2>1, <2>2, KeepsAtRest
<1>9. ASSUME NEW id \in SessionIds, Focus(id)
      PROVE  KeepsUpInv'
  <2>. DEFINE x == engine'.sessions[id]
  <2>1. /\ engine' = apply_focus(engine, id) /\ engine' # engine /\ job = Idle /\ job' = job
        /\ \/ logged' = upsert_session(logged, id, x) /\ torn' = torn \ {id}
           \/ logged' = logged /\ torn' = torn
        /\ mixed' = mixed
    BY <1>9 DEF Focus
  <2>2. Follows(logged, engine, torn) BY <2>1, RestFollows
  <2>3. /\ engine' \in Engine /\ Present(engine') = Present(engine)
        /\ engine'.older = engine.older
        /\ \A s \in Present(engine) : Alike(engine'.sessions[s], engine.sessions[s])
    BY <1>0, <2>1, Focused
  <2>4. OneSolo(engine', mixed') BY <1>0, <2>1, <2>3, OneSoloAlike DEF Alike, SameFlags
  <2>5. Follows(logged, engine', torn)
    <3>1. \A s \in Present(engine) : Near(logged.sessions[s], engine'.sessions[s], s, torn)
      <4>. TAKE s \in Present(engine)
      <4>1. Alike(logged.sessions[s], logged.sessions[s]) BY DEF Alike
      <4>2. Near(logged.sessions[s], engine.sessions[s], s, torn) BY <2>2 DEF Follows
      <4>. QED BY <2>3, <4>1, <4>2, NearAlike
    <3>. QED BY <2>2, <2>3, <3>1 DEF Follows
  <2>6. CASE logged' = logged /\ torn' = torn
    BY <1>0, <2>1, <2>4, <2>5, <2>6, KeepsAtRest
  <2>7. CASE logged' = upsert_session(logged, id, x) /\ torn' = torn \ {id}
    <3>1. id \in Present(engine') BY <2>1, <2>3 DEF apply_focus
    <3>2. RolledUp(x)
      BY <1>0, <2>1, <3>1, FocusSound DEF StoreInv, Sound, AllRolledUp
    <3>3. NeverBoth(engine') BY <2>4 DEF OneSolo
    <3>4. Follows(logged', engine', torn') /\ NeverBoth(logged')
      BY <1>0, <2>3, <2>5, <2>7, <3>1, <3>2, <3>3, RowFollows
    <3>. QED BY <1>0, <2>1, <2>4, <3>4, KeepsAtRest
  <2>. QED BY <2>1, <2>6, <2>7
<1>10. CASE GcBegin \/ GcEnd \/ Tick
  BY <1>0, <1>10, RestFollows, KeepsAtRest DEF GcBegin, GcEnd, Tick, tears
<1>11. CASE Restart
  <2>1. /\ engine' = logged' /\ job' = Idle
        /\ logged' = IF Persist THEN logged ELSE EmptyEngine
        /\ mixed' = IF Persist THEN mixed \cup torn \cup HalfWritten ELSE {}
    BY <1>11 DEF Restart
  <2>2. OneSolo(logged, mixed \cup torn \cup HalfWritten)
    <3>1. Follows(logged, settled, torn \cup HalfWritten) BY SettledFollows
    <3>2. OneSolo(settled, mixed) BY <1>0 DEF settled
    <3>. HIDE DEF HalfWritten, settled
    <3>. QED BY <1>0, <3>1, <3>2 DEF OneSolo, Follows, Near, SameFlags
  <2>3. OneSolo(EmptyEngine, {}) BY EmptySound DEF OneSolo, NeverBoth
  <2>4. OneSolo(engine', mixed')
    <3>. HIDE DEF EmptyEngine, HalfWritten
    <3>. QED BY <2>1, <2>2, <2>3
  <2>5. Follows(logged', engine', torn') BY <2>1 DEF Follows, Near, Shows, SameFlags
  <2>6. NeverBoth(logged') BY <2>1, <2>4 DEF OneSolo
  <2>. QED BY <1>0, <2>1, <2>4, <2>5, <2>6, KeepsAtRest
<1>12. CASE UNCHANGED vars
  BY <1>0, <1>12 DEF vars, KeepsUpInv, OneSolo, NeverBoth, LogFollows, Present
<1>. QED
  BY <1>1, <1>2, <1>3, <1>4, <1>5, <1>6, <1>7, <1>8, <1>9, <1>10, <1>11, <1>12
  DEF Next, tears, apply_session_remove, apply_run_upsert, apply_run_upsert_seq, Admitted,
      apply_run_remove, reap_dead, sweep_expired_sessions

\* A restart restores the inbox as last shown: what the log would restore is what
\* memory holds, badges aside, whatever fails and wherever the process ends, but
\* for the flags of the sessions a command that failed half way had written
\* (persist.rs 541).
THEOREM LogFollowsMemory == Spec => []LogKeepsUp
<1>1. KeepsUpInv => LogKeepsUp
  <2>. SUFFICES ASSUME KeepsUpInv PROVE LogKeepsUp OBVIOUS
  <2>0. /\ engine \in Engine /\ logged \in Engine /\ job.before \in Engine
    BY DEF KeepsUpInv, StoreInv, Sound
  <2>. DEFINE shown(s) == (IF s \in job.rows THEN job.before ELSE engine).sessions[s]
  <2>1. ASSUME NEW s \in SessionIds
        PROVE  /\ SameButFlags(logged.sessions[s], shown(s))
               /\ s \notin torn => SameButUnread(logged.sessions[s], shown(s))
    <3>1. s \in job.rows => Present(job.before) = Present(engine)
      BY DEF KeepsUpInv, StoreInv, JobOK
    <3>2. CASE s \in Present(engine)
      <4>1. shown(s) \in Session BY <2>0, <3>1, <3>2, PresentType
      <4>2. logged.sessions[s] \in Session
        BY <2>0, <3>2, PresentType DEF KeepsUpInv, LogFollows
      <4>3. Near(logged.sessions[s], shown(s), s, torn) BY <3>2 DEF KeepsUpInv, LogFollows
      <4>. HIDE DEF shown
      <4>4. SameButFlags(logged.sessions[s], shown(s)) BY <4>1, <4>2, <4>3, ShowsIsSame DEF Near
      <4>5. s \notin torn => Alike(logged.sessions[s], shown(s)) BY <4>3, AlikeIsNear DEF Near
      <4>. QED BY <4>1, <4>2, <4>4, <4>5, AlikeIsSame
    <3>3. CASE s \notin Present(engine)
      <4>1. logged.sessions[s] = Absent
        BY <2>0, <3>3, PresentType DEF KeepsUpInv, LogFollows
      <4>2. shown(s) = Absent BY <2>0, <3>1, <3>3, PresentType
      <4>. HIDE DEF shown
      <4>. QED BY <4>1, <4>2 DEF SameButUnread, SameButFlags
    <3>. QED BY <3>2, <3>3
  <2>. QED BY <2>1 DEF LogKeepsUp, KeepsUpInv, LogFollows
<1>. QED BY <1>1, KeepsUpInit, KeepsUpStep, PTL DEF Spec

\* In everything a face is shown, through failed appends, rollbacks and replay
\* after an end of the process at any point, no soloed session is muted, and of
\* two that are soloed one was brought back from a row of a solo cut short and
\* has not been flagged anew since (merge.rs 360).
THEOREM SoloExclusive == Spec => []SoloIsExclusive
<1>1. KeepsUpInv => SoloIsExclusive
  BY DEF KeepsUpInv, OneSolo, NeverBoth, SoloIsExclusive, Soloed, settled
<1>. QED BY <1>1, KeepsUpInit, KeepsUpStep, PTL DEF Spec

-----------------------------------------------------------------------------
(* Dedup state lives and dies with its session.                            *)

MarksInv == StoreInv /\ MarksFollowSessions

\* Only removals, new sessions and restarts change which sessions are there.
LEMMA MarksUntouched ==
  ASSUME MarksInv, StoreInv', UNCHANGED <<marks, session_durables>>,
         Present(engine) \subseteq Present(engine')
  PROVE  MarksInv'
<1>1. Present(engine)' = Present(engine') BY DEF Present
<1>. QED BY <1>1 DEF MarksInv, MarksFollowSessions

\* Removing a session takes its marks and its index entry with it.
LEMMA MarksRemoveSession ==
  ASSUME MarksInv, StoreInv', NEW id \in SessionIds, RemoveSession(id)
  PROVE  MarksInv'
<1>. DEFINE g == remove_session(engine, id)
<1>0. engine \in Engine /\ session_durables \in [SessionIds -> SUBSET NativeIds]
  BY DEF MarksInv, StoreInv, TypeOK
<1>1. /\ engine' = g
      /\ id \in Present(engine)
      /\ marks' = drop_ids(marks, session_durables[id])
      /\ session_durables' = [session_durables EXCEPT ![id] = {}]
  BY DEF RemoveSession, drop_session_reclaim
<1>2. /\ g \in Engine
      /\ Present(g) = Present(engine) \ {id}
      /\ g.older = {p \in engine.older : p[1] # id /\ p[2] # id}
      /\ \A s \in Present(g) : Alike(g.sessions[s], engine.sessions[s])
  BY <1>0, <1>1, Removed
<1>. HIDE DEF g
<1>3. Present(engine)' = Present(engine) \ {id} BY <1>1, <1>2 DEF Present
<1>4. \A n \in NativeIds : marks'[n] # NoMark => marks[n] # NoMark /\ n \notin session_durables[id]
  BY <1>1 DEF drop_ids
<1>5. ASSUME NEW n \in NativeIds, marks'[n] # NoMark
      PROVE  \E s \in SessionIds : n \in session_durables'[s]
  <2>1. PICK s \in SessionIds : n \in session_durables[s]
    BY <1>4, <1>5 DEF MarksInv, MarksFollowSessions
  <2>2. s # id BY <1>4, <1>5, <2>1
  <2>. QED BY <1>0, <1>1, <2>1, <2>2
<1>6. ASSUME NEW s \in SessionIds, session_durables'[s] # {}
      PROVE  s \in Present(engine)'
  BY <1>0, <1>1, <1>3, <1>6 DEF MarksInv, MarksFollowSessions
<1>. QED BY <1>5, <1>6 DEF MarksInv, MarksFollowSessions

\* Removing a run takes its mark and its index entry with it.
LEMMA MarksRemoveRun ==
  ASSUME MarksInv, StoreInv', NEW id \in SessionIds, NEW rid \in RunIds, RemoveRun(id, rid)
  PROVE  MarksInv'
<1>. DEFINE n == native_id[rid]
            still_used == \E q \in RunIds : q # rid /\ native_id[q] = n /\ HasRun(engine, id, q)
<1>0. /\ engine \in Engine /\ session_durables \in [SessionIds -> SUBSET NativeIds]
      /\ marks \in Marks /\ n \in NativeIds
  BY StoreConstants DEF MarksInv, StoreInv, TypeOK
<1>1. engine' = remove_run(engine, id, rid) /\ HasRun(engine, id, rid) BY DEF RemoveRun
<1>2. Present(engine') = Present(engine)
  <2>1. id \in Present(engine) /\ engine.sessions[id] \in Session
    BY <1>0, <1>1, PresentType DEF HasRun
  <2>2. [engine.sessions[id].runs EXCEPT ![rid] = Absent] \in Runs BY <2>1 DEF Session, Runs
  <2>. QED BY <1>0, <1>1, <2>1, <2>2, Rerun DEF remove_run
<1>3. CASE still_used
  BY <1>2, <1>3, MarksUntouched DEF RemoveRun
<1>4. CASE ~still_used
  <2>1. /\ marks' = drop_ids(marks, {n})
        /\ session_durables' = [session_durables EXCEPT ![id] = @ \ {n}]
    BY <1>4 DEF RemoveRun
  <2>. HIDE DEF n
  <2>2. Present(engine)' = Present(engine) BY <1>2 DEF Present
  <2>3. \A k \in NativeIds : marks'[k] # NoMark => marks[k] # NoMark /\ k # n
    BY <2>1 DEF drop_ids
  <2>4. ASSUME NEW k \in NativeIds, marks'[k] # NoMark
        PROVE  \E s \in SessionIds : k \in session_durables'[s]
    <3>1. PICK s \in SessionIds : k \in session_durables[s]
      BY <2>3, <2>4 DEF MarksInv, MarksFollowSessions
    <3>2. k \in session_durables'[s] BY <1>0, <2>1, <2>3, <2>4, <3>1
    <3>. QED BY <3>2
  <2>5. \A s \in SessionIds : session_durables'[s] # {} => session_durables[s] # {}
    BY <1>0, <2>1
  <2>. QED BY <2>2, <2>4, <2>5 DEF MarksInv, MarksFollowSessions
<1>. QED BY <1>3, <1>4

\* An admitted delta's stamp is the new mark.
LEMMA AdmitSets ==
  ASSUME NEW ms \in Marks, NEW n \in NativeIds, NEW stamp \in Stamp,
         applies(classify(ms, n, stamp))
  PROVE  admit(ms, n, stamp) = [ms EXCEPT ![n] = stamp]
<1>1. ms[n] = NoMark \/ (ms[n] \in Stamp /\ ms[n] # NoMark) BY NoMarkIsNew DEF Marks
<1>2. ms[n] = NoMark \/ After(stamp, ms[n]) BY <1>1 DEF applies, classify, After, Stamp
<1>. QED BY <1>2 DEF admit, commit

\* An admitted delta's mark is indexed under a session that is there.
LEMMA MarksAdmit ==
  ASSUME MarksInv, StoreInv', NEW id \in SessionIds, NEW rid \in RunIds, NEW stamp \in Stamps,
         Admitted(id, rid, stamp), Present(engine) \subseteq Present(engine')
  PROVE  MarksInv'
<1>. DEFINE n == native_id[rid]
<1>0. /\ session_durables \in [SessionIds -> SUBSET NativeIds] /\ marks \in Marks
      /\ n \in NativeIds /\ stamp \in Stamp
  BY StoreConstants DEF MarksInv, StoreInv, TypeOK
<1>1. /\ marks' = [marks EXCEPT ![n] = stamp]
      /\ session_durables' = [session_durables EXCEPT ![id] = @ \cup {n}]
      /\ id \in Present(engine)
  BY <1>0, AdmitSets DEF Admitted
<1>. HIDE DEF n
<1>2. Present(engine)' = Present(engine') BY DEF Present
<1>3. ASSUME NEW k \in NativeIds, marks'[k] # NoMark
      PROVE  \E s \in SessionIds : k \in session_durables'[s]
  <2>1. CASE k = n BY <1>0, <1>1, <2>1
  <2>2. CASE k # n
    <3>1. PICK s \in SessionIds : k \in session_durables[s]
      BY <1>0, <1>1, <1>3, <2>2 DEF MarksInv, MarksFollowSessions, Marks
    <3>. QED BY <1>0, <1>1, <3>1
  <2>. QED BY <2>1, <2>2
<1>4. ASSUME NEW s \in SessionIds, session_durables'[s] # {}
      PROVE  s \in Present(engine)'
  BY <1>0, <1>1, <1>2, <1>4 DEF MarksInv, MarksFollowSessions
<1>. QED BY <1>3, <1>4 DEF MarksInv, MarksFollowSessions

\* An upsert of a run leaves the set of sessions as it is.
LEMMA UpsertRunPresent ==
  ASSUME NEW e \in Engine, NEW id \in Present(e), NEW rid \in RunIds, NEW run \in AgentRun
  PROVE  Present(upsert_run(e, id, rid, run)) = Present(e)
<1>1. e.sessions[id] \in Session BY PresentType
<1>2. [e.sessions[id].runs EXCEPT ![rid] = run] \in Runs BY <1>1 DEF Session, Runs
<1>. QED BY <1>2, Rerun DEF upsert_run

\* There is no dedup state at the start.
LEMMA MarksInvInit == Init => MarksInv
<1>. SUFFICES ASSUME Init PROVE MarksInv OBVIOUS
<1>1. \A n \in NativeIds : marks[n] = NoMark BY DEF Init, NoMarks
<1>2. \A s \in SessionIds : session_durables[s] = {} BY DEF Init
<1>. QED BY <1>1, <1>2, StoreInvInit DEF MarksInv, MarksFollowSessions

\* Every step keeps the dedup state with its session.
LEMMA MarksInvStep == MarksInv /\ [Next]_vars => MarksInv'
<1>. SUFFICES ASSUME MarksInv, [Next]_vars PROVE MarksInv' OBVIOUS
<1>0. StoreInv /\ StoreInv' /\ engine \in Engine BY StoreInvStep DEF MarksInv, StoreInv, TypeOK
<1>1. ASSUME NEW id \in SessionIds, NEW t \in Timestamps,
             NEW runs \in [RunIds -> InputRuns \cup {Absent}],
             apply_session_upsert(id, runs, t)
      PROVE  MarksInv'
  <2>. DEFINE x == preserve_hub_owned_fields(engine, id, Shell(runs, t))
              g == upsert_session(engine, id, x)
  <2>1. x \in Session BY <1>0, InputType, ShellKept
  <2>. HIDE DEF x
  <2>2. /\ g \in Engine
        /\ Present(g) = Present(engine) \cup {id}
        /\ g.older = IF id \in Present(engine) THEN engine.older
                     ELSE engine.older \cup {<<y, id>> : y \in Present(engine)}
        /\ Alike(g.sessions[id], recompute_rollups(x))
        /\ \A s \in SessionIds \ {id} : g.sessions[s] = engine.sessions[s]
    BY <1>0, <2>1, Upserted
  <2>3. engine' = g /\ UNCHANGED <<marks, session_durables>>
    BY <1>1 DEF apply_session_upsert, x
  <2>. HIDE DEF g
  <2>. QED BY <1>0, <2>2, <2>3, MarksUntouched
<1>2. ASSUME NEW id \in SessionIds, RemoveSession(id)
      PROVE  MarksInv'
  BY <1>0, <1>2, MarksRemoveSession
<1>3. ASSUME NEW id \in SessionIds, NEW rid \in RunIds, NEW run \in InputRuns,
             apply_run_upsert(id, rid, run)
      PROVE  MarksInv'
  BY <1>0, <1>3, InputType, UpsertRunPresent, MarksUntouched DEF apply_run_upsert
<1>4. ASSUME NEW id \in SessionIds, NEW rid \in RunIds, NEW run \in InputRuns,
             NEW stamp \in Stamps, apply_run_upsert_seq(id, rid, run, stamp)
      PROVE  MarksInv'
  <2>1. Admitted(id, rid, stamp) /\ engine' = upsert_run(engine, id, rid, run)
    BY <1>4 DEF apply_run_upsert_seq
  <2>2. Present(engine') = Present(engine)
    BY <1>0, <2>1, InputType, UpsertRunPresent DEF Admitted
  <2>. QED BY <1>0, <2>1, <2>2, MarksAdmit
<1>5. ASSUME NEW id \in SessionIds, NEW rid \in RunIds, NEW stamp \in Stamps,
             RunUpsertSeqNotAppended(id, rid, stamp)
      PROVE  MarksInv'
  BY <1>0, <1>5, MarksAdmit DEF RunUpsertSeqNotAppended
<1>6. ASSUME NEW id \in SessionIds, NEW rid \in RunIds, RemoveRun(id, rid)
      PROVE  MarksInv'
  BY <1>0, <1>6, MarksRemoveRun
<1>7. ASSUME NEW id \in SessionIds, Mute(id) \/ Unmute(id) \/ Solo(id)
      PROVE  MarksInv'
  <2>1. ASSUME NEW after \in {apply_mute(engine, id), apply_unmute(engine, id), apply_solo(engine, id)},
               apply_flag_change(after)
        PROVE  MarksInv'
    <3>1. id \in Present(engine)
      BY <2>1 DEF apply_flag_change, apply_mute, apply_unmute, apply_solo
    <3>2. Present(after) = Present(engine) BY <1>0, <3>1, CommandKeepsOrder
    <3>. QED BY <1>0, <2>1, <3>2, MarksUntouched DEF apply_flag_change
  <2>. QED BY <1>7, <2>1 DEF Mute, Unmute, Solo
<1>8. ASSUME NEW id \in SessionIds, AppendFlagRow(id)
      PROVE  MarksInv'
  BY <1>0, <1>8, MarksUntouched DEF AppendFlagRow
<1>9. CASE FlagRowNotAppended
  BY <1>0, <1>9, MarksUntouched DEF FlagRowNotAppended, StoreInv, JobOK
<1>10. ASSUME NEW id \in SessionIds, Focus(id)
       PROVE  MarksInv'
  <2>1. engine' = apply_focus(engine, id) /\ UNCHANGED <<marks, session_durables>>
    BY <1>10 DEF Focus
  <2>2. Present(engine') = Present(engine) BY <1>0, <2>1, Focused
  <2>. QED BY <1>0, <2>1, <2>2, MarksUntouched
<1>11. CASE GcBegin \/ GcEnd \/ Tick \/ UNCHANGED vars
  BY <1>0, <1>11, MarksUntouched DEF GcBegin, GcEnd, Tick, vars
<1>12. CASE Restart
  <2>1. \A n \in NativeIds : marks'[n] = NoMark BY <1>12 DEF Restart, NoMarks
  <2>2. \A s \in SessionIds : session_durables'[s] = NativesOf(engine', s) BY <1>12 DEF Restart
  <2>3. \A s \in SessionIds : session_durables'[s] # {} => s \in Present(engine)'
    BY <2>2 DEF NativesOf, Present
  <2>. QED BY <1>0, <2>1, <2>3 DEF MarksInv, MarksFollowSessions
<1>. QED
  BY <1>1, <1>2, <1>3, <1>4, <1>5, <1>6, <1>7, <1>8, <1>9, <1>10, <1>11, <1>12
  DEF Next, apply_session_remove, apply_run_remove, reap_dead, sweep_expired_sessions

\* Dedup state never outlives the session it belongs to, under every fault
\* (reclaim.rs, invariant 3).
THEOREM MarksGoWithSessions == Spec => []MarksFollowSessions
<1>1. MarksInv => MarksFollowSessions BY DEF MarksInv
<1>. QED BY <1>1, MarksInvInit, MarksInvStep, PTL DEF Spec
-----------------------------------------------------------------------------
(* A mark is the stamp of a delta that landed, when every append succeeds. *)

RecordsInv == MarksInv /\ MarksRecordApplies

\* A step that drops marks, and histories of unindexed ids only, keeps records.
LEMMA RecordsDropped ==
  ASSUME RecordsInv, MarksInv', ForgetUnindexed,
         \A n \in NativeIds : marks'[n] # NoMark => marks'[n] = marks[n]
  PROVE  RecordsInv'
<1>1. ASSUME NEW n \in NativeIds, marks'[n] # NoMark
      PROVE  landed'[n] = marks'[n]
  <2>1. \E s \in SessionIds : n \in session_durables'[s]
    BY <1>1 DEF MarksInv, MarksFollowSessions
  <2>2. landed'[n] = landed[n] BY <2>1 DEF ForgetUnindexed
  <2>. QED BY <1>1, <2>2 DEF RecordsInv, MarksRecordApplies
<1>. QED BY <1>1 DEF RecordsInv, MarksRecordApplies

\* Dropping marks leaves the others as they are.
LEMMA DropKeeps ==
  ASSUME NEW ms, NEW ids, NEW n \in NativeIds, drop_ids(ms, ids)[n] # NoMark
  PROVE  drop_ids(ms, ids)[n] = ms[n]
BY DEF drop_ids

\* The records hold before any delta has come.
LEMMA RecordsInvInit == Init => RecordsInv
<1>. SUFFICES ASSUME Init PROVE RecordsInv OBVIOUS
<1>1. \A n \in NativeIds : marks[n] = NoMark BY DEF Init, NoMarks
<1>. QED BY <1>1, MarksInvInit DEF RecordsInv, MarksRecordApplies

\* Every step keeps the records true if no append fails.
LEMMA RecordsInvStep ==
  ASSUME "append" \notin Faults
  PROVE  RecordsInv /\ [Next]_vars => RecordsInv'
<1>. SUFFICES ASSUME RecordsInv, [Next]_vars PROVE RecordsInv' OBVIOUS
<1>0. MarksInv /\ MarksInv' BY MarksInvStep DEF RecordsInv
<1>1. CASE UNCHANGED <<marks, landed>>
  BY <1>0, <1>1 DEF RecordsInv, MarksRecordApplies
<1>2. ASSUME NEW id \in SessionIds, RemoveSession(id)
      PROVE  RecordsInv'
  BY <1>0, <1>2, DropKeeps, RecordsDropped DEF RemoveSession, drop_session_reclaim
<1>3. ASSUME NEW id \in SessionIds, NEW rid \in RunIds, RemoveRun(id, rid)
      PROVE  RecordsInv'
  <2>1. CASE UNCHANGED <<marks, landed>> BY <1>1, <2>1
  <2>2. CASE marks' = drop_ids(marks, {native_id[rid]}) /\ ForgetUnindexed
    BY <1>0, <2>2, DropKeeps, RecordsDropped
  <2>. QED BY <1>3, <2>1, <2>2 DEF RemoveRun
<1>4. ASSUME NEW id \in SessionIds, NEW rid \in RunIds, NEW run \in InputRuns,
             NEW stamp \in Stamps, apply_run_upsert_seq(id, rid, run, stamp)
      PROVE  RecordsInv'
  <2>. DEFINE n == native_id[rid]
  <2>0. marks \in Marks /\ landed \in Marks /\ n \in NativeIds /\ stamp \in Stamp
    BY <1>0, StoreConstants DEF MarksInv, StoreInv, TypeOK
  <2>1. /\ marks' = [marks EXCEPT ![n] = stamp]
        /\ landed' = [landed EXCEPT ![n] = stamp]
    BY <1>4, <2>0, AdmitSets DEF apply_run_upsert_seq, Admitted
  <2>. HIDE DEF n
  <2>2. ASSUME NEW k \in NativeIds, marks'[k] # NoMark
        PROVE  landed'[k] = marks'[k]
    <3>1. CASE k = n BY <2>0, <2>1, <3>1 DEF Marks
    <3>2. CASE k # n BY <2>0, <2>1, <2>2, <3>2 DEF Marks, RecordsInv, MarksRecordApplies
    <3>. QED BY <3>1, <3>2
  <2>. QED BY <1>0, <2>2 DEF RecordsInv, MarksRecordApplies
<1>5. CASE Restart
  <2>1. \A n \in NativeIds : marks'[n] = NoMark BY <1>5 DEF Restart, NoMarks
  <2>. QED BY <1>0, <2>1 DEF RecordsInv, MarksRecordApplies
<1>6. ASSUME NEW id \in SessionIds, Mute(id) \/ Unmute(id) \/ Solo(id)
      PROVE  UNCHANGED <<marks, landed>>
  BY <1>6 DEF Mute, Unmute, Solo, apply_flag_change
<1>. QED
  BY <1>1, <1>2, <1>3, <1>4, <1>5, <1>6
  DEF Next, vars, apply_session_upsert, apply_session_remove, apply_run_upsert,
      RunUpsertSeqNotAppended, apply_run_remove, AppendFlagRow, FlagRowNotAppended, Focus,
      GcBegin, reap_dead, sweep_expired_sessions, GcEnd, Tick

\* A mark stands for a delta that reached the log, so a retry that the gate
\* drops is a repeat, as long as no append fails (reclaim.rs 167).
THEOREM MarksAreApplies ==
  ASSUME "append" \notin Faults
  PROVE  Spec => []MarksRecordApplies
<1>1. RecordsInv => MarksRecordApplies BY DEF RecordsInv
<1>. QED BY <1>1, RecordsInvInit, RecordsInvStep, PTL DEF Spec
-----------------------------------------------------------------------------
(* What the log has of a durable id is never ahead of the id's mark.       *)

\* No two sessions have a durable id in common, in their runs or in the index.
DurablesApart ==
  \A s, t \in SessionIds : s # t =>
    (session_durables[s] \cup NativesOf(engine, s)) \cap session_durables[t] = {}

LandedInv ==
  \A n \in NativeIds : landed[n] # NoMark => marks[n] # NoMark /\ ~After(landed[n], marks[n])

\* A step of the history goes forwards.
LandsLater ==
  \A n \in NativeIds :
    landed[n] # NoMark /\ landed'[n] \notin {NoMark, landed[n]} => After(landed'[n], landed[n])

\* Dropping the marks of ids that no session is indexed for any more.
LEMMA LandedDropped ==
  ASSUME LandedInv, ForgetUnindexed, NEW ids, marks' = drop_ids(marks, ids),
         \A n \in NativeIds : n \in ids => \A s \in SessionIds : n \notin session_durables'[s]
  PROVE  LandedInv' /\ LandsLater
<1>1. ASSUME NEW n \in NativeIds
      PROVE  /\ landed'[n] \in {landed[n], NoMark}
             /\ n \in ids => landed'[n] = NoMark
             /\ n \notin ids => marks'[n] = marks[n]
  BY <1>1 DEF ForgetUnindexed, drop_ids
<1>2. LandsLater BY <1>1 DEF LandsLater
<1>3. LandedInv' BY <1>1 DEF LandedInv
<1>. QED BY <1>2, <1>3

\* A removed session takes the marks of its ids along, and no one else's.
LEMMA LandedRemoveSession ==
  ASSUME StoreInv, LandedInv, DurablesApart, NEW id \in SessionIds, RemoveSession(id)
  PROVE  LandedInv' /\ LandsLater
<1>0. session_durables \in [SessionIds -> SUBSET NativeIds] BY DEF StoreInv, TypeOK
<1>1. /\ marks' = drop_ids(marks, session_durables[id])
      /\ session_durables' = [session_durables EXCEPT ![id] = {}]
      /\ ForgetUnindexed
  BY DEF RemoveSession, drop_session_reclaim
<1>2. ASSUME NEW n \in NativeIds, n \in session_durables[id], NEW s \in SessionIds
      PROVE  n \notin session_durables'[s]
  BY <1>0, <1>1, <1>2 DEF DurablesApart
<1>. QED BY <1>1, <1>2, LandedDropped

\* So does a removed run whose id no other run of the session shares.
LEMMA LandedRemoveRun ==
  ASSUME StoreInv, LandedInv, DurablesApart,
         NEW id \in SessionIds, NEW rid \in RunIds, RemoveRun(id, rid)
  PROVE  \/ LandedInv' /\ LandsLater
         \/ UNCHANGED <<marks, landed>>
<1>. DEFINE n == native_id[rid]
<1>0. session_durables \in [SessionIds -> SUBSET NativeIds] BY DEF StoreInv, TypeOK
<1>. SUFFICES ASSUME ~UNCHANGED <<marks, landed>>
              PROVE  LandedInv' /\ LandsLater
  OBVIOUS
<1>1. /\ marks' = drop_ids(marks, {n})
      /\ session_durables' = [session_durables EXCEPT ![id] = @ \ {n}]
      /\ ForgetUnindexed
  BY DEF RemoveRun
<1>2. n \in NativesOf(engine, id) BY DEF RemoveRun, HasRun, NativesOf
<1>. HIDE DEF n
<1>3. ASSUME NEW s \in SessionIds
      PROVE  n \notin session_durables'[s]
  BY <1>0, <1>1, <1>2, <1>3 DEF DurablesApart
<1>. QED BY <1>1, <1>3, LandedDropped

\* An admitted delta is after the mark, and the mark not before what landed.
LEMMA LandedAdmit ==
  ASSUME StoreInv, LandedInv, NEW n \in NativeIds, NEW stamp \in Stamp,
         applies(classify(marks, n, stamp)), marks' = admit(marks, n, stamp),
         landed' = landed \/ landed' = [landed EXCEPT ![n] = stamp]
  PROVE  LandedInv' /\ LandsLater
<1>0. marks \in Marks /\ landed \in Marks BY DEF StoreInv, TypeOK
<1>1. marks' = [marks EXCEPT ![n] = stamp] BY <1>0, AdmitSets
<1>2. marks[n] = NoMark \/ (marks[n] \in Stamp /\ marks[n] # NoMark) BY <1>0, NoMarkIsNew DEF Marks
<1>3. marks[n] = NoMark \/ After(stamp, marks[n]) BY <1>2 DEF applies, classify, After, Stamp
<1>4. landed[n] = NoMark \/ (landed[n] \in Stamp /\ After(stamp, landed[n]) /\ ~After(landed[n], stamp))
  <2>. SUFFICES ASSUME landed[n] # NoMark
                PROVE  landed[n] \in Stamp /\ After(stamp, landed[n]) /\ ~After(landed[n], stamp)
    OBVIOUS
  <2>1. landed[n] \in Stamp BY <1>0 DEF Marks
  <2>2. marks[n] \in Stamp /\ ~After(landed[n], marks[n]) BY <1>2 DEF LandedInv
  <2>3. After(stamp, marks[n]) BY <1>3 DEF LandedInv
  <2>. QED BY <2>1, <2>2, <2>3 DEF After, Stamp
<1>5. ~After(stamp, stamp) BY DEF After, Stamp
<1>6. stamp # NoMark BY NoMarkIsNew
<1>7. ASSUME NEW k \in NativeIds, k # n
      PROVE  marks'[k] = marks[k] /\ landed'[k] = landed[k]
  BY <1>0, <1>1, <1>7 DEF Marks
<1>8. marks'[n] = stamp /\ landed'[n] \in {landed[n], stamp} BY <1>0, <1>1 DEF Marks
<1>9. LandedInv' BY <1>4, <1>5, <1>6, <1>7, <1>8 DEF LandedInv
<1>10. LandsLater BY <1>4, <1>7, <1>8 DEF LandsLater
<1>. QED BY <1>9, <1>10

\* Without restarts every step lands later, or nothing.
LEMMA LandedStep ==
  ASSUME "restart" \notin Faults, StoreInv, LandedInv, DurablesApart, [Next]_vars
  PROVE  LandedInv' /\ LandsLater
<1>1. CASE UNCHANGED <<marks, landed>> BY <1>1 DEF LandedInv, LandsLater
<1>2. ASSUME NEW id \in SessionIds, RemoveSession(id)
      PROVE  LandedInv' /\ LandsLater
  BY <1>2, LandedRemoveSession
<1>3. ASSUME NEW id \in SessionIds, NEW rid \in RunIds, RemoveRun(id, rid)
      PROVE  LandedInv' /\ LandsLater
  BY <1>1, <1>3, LandedRemoveRun
<1>4. ASSUME NEW id \in SessionIds, NEW rid \in RunIds, NEW stamp \in Stamps,
             \/ \E run \in InputRuns : apply_run_upsert_seq(id, rid, run, stamp)
             \/ RunUpsertSeqNotAppended(id, rid, stamp)
      PROVE  LandedInv' /\ LandsLater
  <2>. DEFINE n == native_id[rid]
  <2>0. n \in NativeIds /\ stamp \in Stamp BY StoreConstants
  <2>1. /\ applies(classify(marks, n, stamp)) /\ marks' = admit(marks, n, stamp)
        /\ landed' = landed \/ landed' = [landed EXCEPT ![n] = stamp]
    BY <1>4 DEF apply_run_upsert_seq, RunUpsertSeqNotAppended, Admitted
  <2>. HIDE DEF n
  <2>. QED BY <2>0, <2>1, LandedAdmit
<1>5. ASSUME NEW id \in SessionIds, Mute(id) \/ Unmute(id) \/ Solo(id)
      PROVE  UNCHANGED <<marks, landed>>
  BY <1>5 DEF Mute, Unmute, Solo, apply_flag_change
<1>. QED
  BY <1>1, <1>2, <1>3, <1>4, <1>5
  DEF Next, vars, apply_session_upsert, apply_session_remove, apply_run_upsert,
      apply_run_remove, AppendFlagRow, FlagRowNotAppended, Focus,
      GcBegin, reap_dead, sweep_expired_sessions, GcEnd, Tick, Restart

\* Without restarts, and with no durable id under two sessions, a stale or
\* repeated delta never lands over a later one (reclaim.rs 156).
THEOREM StaleLandsNever ==
  ASSUME "restart" \notin Faults
  PROVE  Spec /\ []DurablesApart => StaleNeverLands
<1>1. Init => LandedInv BY DEF Init, LandedInv, NoMarks
<1>2. StoreInv /\ LandedInv /\ DurablesApart /\ [Next]_vars => LandedInv' /\ LandsLater
  BY LandedStep
<1>3. LandsLater => [\A n \in NativeIds :
        landed[n] # NoMark /\ landed'[n] \notin {NoMark, landed[n]} => After(landed'[n], landed[n])]_landed
  BY DEF LandsLater
<1>. QED BY <1>1, <1>2, <1>3, StoreInvariant, PTL DEF Spec, StaleNeverLands

-----------------------------------------------------------------------------
(***************************************************************************)
(* The store implements FleetInbox: each step is a report, a removal, one  *)
(* command, one that fails, a recovery or a loss of the inbox, or changes  *)
(* nothing of what faces are shown.  And while the process runs, the       *)
(* badges it shows follow the pings.                                       *)
(***************************************************************************)

(* What a change of the engine is to the inbox.                            *)

\* From inbox i to inbox j there is a report on s ...
Reported(i, j, s) ==
  /\ j[s] \in Inbox!Entry
  /\ i[s] = Absent => ~j[s].muted /\ ~j[s].soloed
  /\ i[s] # Absent => j[s].muted = i[s].muted /\ j[s].soloed = i[s].soloed
  /\ j = [i EXCEPT ![s] = j[s]]

\* ... or s is removed ...
Taken(i, j, s) == i[s] # Absent /\ j = [i EXCEPT ![s] = Absent]

\* ... or s is muted, unmuted or soloed.
Commanded(i, j, s) ==
  /\ i[s] # Absent
  /\ \/ j = [i EXCEPT ![s].muted = TRUE, ![s].soloed = FALSE]
     \/ j = [i EXCEPT ![s].muted = FALSE, ![s].soloed = FALSE]
     \/ j = [t \in SessionIds |->
              IF i[t] = Absent THEN Absent
              ELSE [i[t] EXCEPT !.muted = @ /\ t # s, !.soloed = t = s]]

\* An inbox has an entry for each session that is there, and it is an entry.
LEMMA InboxType ==
  ASSUME NEW e \in Engine
  PROVE  /\ InboxOf(e) = [s \in SessionIds |-> InboxOf(e)[s]]
         /\ \A s \in Present(e) :
              /\ InboxOf(e)[s] = [runs   |-> e.sessions[s].runs,
                                  muted  |-> e.sessions[s].muted,
                                  soloed |-> e.sessions[s].soloed]
              /\ InboxOf(e)[s] \in Inbox!Entry
         /\ \A s \in SessionIds : InboxOf(e)[s] = Absent <=> s \notin Present(e)
<1>. DEFINE entry(s) == [runs   |-> e.sessions[s].runs,
                         muted  |-> e.sessions[s].muted,
                         soloed |-> e.sessions[s].soloed]
<1>1. \A s \in Present(e) : s \in SessionIds /\ e.sessions[s] \in Session BY PresentType
<1>2. InboxOf(e) = [s \in SessionIds |-> IF s \notin Present(e) THEN Absent ELSE entry(s)]
  BY DEF InboxOf
<1>3. \A s \in Present(e) : entry(s) \in Inbox!Entry BY <1>1 DEF Session, Inbox!Entry
<1>. HIDE DEF entry
<1>4. InboxOf(e) = [s \in SessionIds |-> InboxOf(e)[s]] BY <1>2
<1>5. \A s \in Present(e) : InboxOf(e)[s] = entry(s) BY <1>1, <1>2
<1>6. \A s \in SessionIds : InboxOf(e)[s] = Absent <=> s \notin Present(e)
  BY <1>2, <1>3, EntryIsNew
<1>. QED BY <1>3, <1>4, <1>5, <1>6 DEF entry

\* What an entry shows.
LEMMA EntryShows ==
  ASSUME NEW e \in Engine, NEW s \in Present(e)
  PROVE  LET x == InboxOf(e)[s]
         IN  /\ x \in Inbox!Entry
             /\ x.runs = e.sessions[s].runs
             /\ x.muted = e.sessions[s].muted
             /\ x.soloed = e.sessions[s].soloed
<1>1. /\ InboxOf(e)[s] = [runs   |-> e.sessions[s].runs,
                          muted  |-> e.sessions[s].muted,
                          soloed |-> e.sessions[s].soloed]
      /\ InboxOf(e)[s] \in Inbox!Entry
  BY InboxType
<1>. QED BY <1>1

\* Entries that show the same are the same.
LEMMA SameEntry ==
  ASSUME NEW x \in Inbox!Entry, NEW y \in Inbox!Entry,
         x.runs = y.runs, x.muted = y.muted, x.soloed = y.soloed
  PROVE  x = y
BY DEF Inbox!Entry

\* Two inboxes are one if they agree on every session.
LEMMA InboxAgrees ==
  ASSUME NEW e \in Engine, NEW f, f = [s \in SessionIds |-> f[s]],
         \A s \in SessionIds : InboxOf(e)[s] = f[s]
  PROVE  InboxOf(e) = f
BY InboxType

\* Engines alike but for badges show one inbox.
LEMMA AlikeInbox ==
  ASSUME NEW e \in Engine, NEW g \in Engine, Present(g) = Present(e),
         \A s \in Present(e) : Alike(g.sessions[s], e.sessions[s])
  PROVE  InboxOf(g) = InboxOf(e)
<1>1. \A s \in SessionIds : InboxOf(g)[s] = InboxOf(e)[s]
  <2>. TAKE s \in SessionIds
  <2>1. CASE s \in Present(e) BY <2>1, EntryShows, SameEntry DEF Alike
  <2>2. CASE s \notin Present(e) BY <2>2, InboxType
  <2>. QED BY <2>1, <2>2
<1>. QED BY <1>1, InboxType, InboxAgrees

\* A session that is put, with the flags it had or with none, is a report.
LEMMA PutReports ==
  ASSUME NEW e \in Engine, NEW g \in Engine, NEW id \in SessionIds,
         Present(g) = Present(e) \cup {id},
         \A s \in SessionIds \ {id} : g.sessions[s] = e.sessions[s],
         id \notin Present(e) => ~g.sessions[id].muted /\ ~g.sessions[id].soloed,
         id \in Present(e) => /\ g.sessions[id].muted = e.sessions[id].muted
                              /\ g.sessions[id].soloed = e.sessions[id].soloed
  PROVE  Reported(InboxOf(e), InboxOf(g), id)
<1>. DEFINE i == InboxOf(e)
            j == InboxOf(g)
<1>1. /\ j[id] \in Inbox!Entry
      /\ j[id].muted = g.sessions[id].muted /\ j[id].soloed = g.sessions[id].soloed
  <2>1. id \in Present(g) OBVIOUS
  <2>. QED BY <2>1, EntryShows
<1>2. i[id] = Absent <=> id \notin Present(e) BY InboxType
<1>3. id \in Present(e) =>
        i[id].muted = e.sessions[id].muted /\ i[id].soloed = e.sessions[id].soloed
  BY EntryShows
<1>4. \A s \in SessionIds : j[s] = [i EXCEPT ![id] = j[id]][s]
  <2>. TAKE s \in SessionIds
  <2>0. i = [t \in SessionIds |-> i[t]] BY InboxType
  <2>1. CASE s = id BY <2>0, <2>1
  <2>2. CASE s # id /\ s \in Present(e)
    <3>1. j[s] = i[s] BY <2>2, EntryShows, SameEntry
    <3>. QED BY <2>0, <2>2, <3>1
  <2>3. CASE s # id /\ s \notin Present(e) BY <2>0, <2>3, InboxType
  <2>. QED BY <2>1, <2>2, <2>3
<1>5. j = [i EXCEPT ![id] = j[id]] BY <1>4, InboxType, InboxAgrees
<1>. QED BY <1>1, <1>2, <1>3, <1>5 DEF Reported

\* The inbox of e under the flags m and o.
Reshown(e, m, o) ==
  [s \in SessionIds |->
     IF s \in Present(e) THEN [InboxOf(e)[s] EXCEPT !.muted = m[s], !.soloed = o[s]] ELSE Absent]

\* New flags for a session are new flags of its entry.
LEMMA ReflaggedInbox ==
  ASSUME NEW e \in Engine, NEW g, NEW m, NEW o, Reflagged(e, g, m, o)
  PROVE  InboxOf(g) = Reshown(e, m, o)
<1>. DEFINE f == [s \in SessionIds |->
           IF s \in Present(e) THEN [InboxOf(e)[s] EXCEPT !.muted = m[s], !.soloed = o[s]]
           ELSE Absent]
<1>1. g \in Engine /\ Present(g) = Present(e) BY DEF Reflagged
<1>2. \A s \in SessionIds : InboxOf(g)[s] = f[s]
  <2>. TAKE s \in SessionIds
  <2>1. CASE s \in Present(e)
    <3>. DEFINE x == InboxOf(e)[s]
                y == InboxOf(g)[s]
    <3>1. /\ x \in Inbox!Entry /\ x.runs = e.sessions[s].runs
          /\ y \in Inbox!Entry /\ y.runs = g.sessions[s].runs
          /\ y.muted = g.sessions[s].muted /\ y.soloed = g.sessions[s].soloed
      BY <1>1, <2>1, EntryShows
    <3>2. y.runs = x.runs /\ y.muted = m[s] /\ y.soloed = o[s]
      BY <2>1, <3>1 DEF Reflagged
    <3>. HIDE DEF x, y
    <3>3. y = [x EXCEPT !.muted = m[s], !.soloed = o[s]]
      BY <3>1, <3>2 DEF Inbox!Entry
    <3>. QED BY <2>1, <3>3 DEF x, y
  <2>2. CASE s \notin Present(e) BY <1>1, <2>2, InboxType
  <2>. QED BY <2>1, <2>2
<1>. QED BY <1>1, <1>2, InboxAgrees DEF Reshown

\* A mute and an unmute are the inbox's SetFlags, a solo is its Solo.
LEMMA CommandsOfInbox ==
  ASSUME NEW e \in Engine, NEW id \in Present(e),
         NEW g \in {apply_mute(e, id), apply_unmute(e, id), apply_solo(e, id)}
  PROVE  Commanded(InboxOf(e), InboxOf(g), id)
<1>. DEFINE i == InboxOf(e)
            muted(b)  == [s \in Present(e) |-> IF s = id THEN b ELSE e.sessions[s].muted]
            soloed(b) == [s \in Present(e) |-> IF s = id THEN b ELSE e.sessions[s].soloed]
            set(b)    == [i EXCEPT ![id].muted = b, ![id].soloed = FALSE]
            new(b)    == [s \in SessionIds |->
                            IF s \in Present(e)
                            THEN [i[s] EXCEPT !.muted = muted(b)[s], !.soloed = soloed(FALSE)[s]]
                            ELSE Absent]
<1>0. id \in SessionIds BY PresentType
<1>1. ASSUME NEW b \in BOOLEAN PROVE new(b) = set(b)
  <2>0. i = [s \in SessionIds |-> i[s]] BY InboxType
  <2>1. ASSUME NEW s \in SessionIds PROVE new(b)[s] = set(b)[s]
    <3>1. CASE s = id
      <4>1. new(b)[s] = [i[s] EXCEPT !.muted = b, !.soloed = FALSE] BY <3>1
      <4>2. set(b)[s] = [i[s] EXCEPT !.muted = b, !.soloed = FALSE] BY <2>0, <3>1
      <4>. QED BY <4>1, <4>2
    <3>2. CASE s # id /\ s \in Present(e)
      <4>1. i[s] \in Inbox!Entry /\ i[s].muted = e.sessions[s].muted /\ i[s].soloed = e.sessions[s].soloed
        BY <3>2, EntryShows
      <4>2. new(b)[s] = [i[s] EXCEPT !.muted = e.sessions[s].muted, !.soloed = e.sessions[s].soloed]
        BY <3>2
      <4>3. set(b)[s] = i[s] BY <2>0, <3>2
      <4>. HIDE DEF i, new, set
      <4>4. new(b)[s] = i[s] BY <4>1, <4>2 DEF Inbox!Entry
      <4>. QED BY <4>3, <4>4
    <3>3. CASE s # id /\ s \notin Present(e)
      <4>1. i[s] = Absent BY <3>3, InboxType
      <4>2. set(b)[s] = i[s] BY <2>0, <3>3
      <4>. QED BY <3>3, <4>1, <4>2
    <3>. QED BY <3>1, <3>2, <3>3
  <2>2. set(b) = [s \in SessionIds |-> set(b)[s]] BY <2>0
  <2>. HIDE DEF set
  <2>3. new(b) = [s \in SessionIds |-> new(b)[s]] OBVIOUS
  <2>. HIDE DEF new
  <2>. QED BY <2>1, <2>2, <2>3
<1>2. InboxOf(apply_mute(e, id)) = new(TRUE)
  <2>1. Reflagged(e, apply_mute(e, id), muted(TRUE), soloed(FALSE)) BY MuteReflags
  <2>2. InboxOf(apply_mute(e, id)) = Reshown(e, muted(TRUE), soloed(FALSE))
    BY <2>1, ReflaggedInbox, Zenon
  <2>. QED BY <2>2 DEF Reshown
<1>3. InboxOf(apply_unmute(e, id)) = new(FALSE)
  <2>1. Reflagged(e, apply_unmute(e, id), muted(FALSE), soloed(FALSE)) BY UnmuteReflags
  <2>2. InboxOf(apply_unmute(e, id)) = Reshown(e, muted(FALSE), soloed(FALSE))
    BY <2>1, ReflaggedInbox, Zenon
  <2>. QED BY <2>2 DEF Reshown
<1>4. InboxOf(apply_solo(e, id)) = [s \in SessionIds |->
        IF i[s] = Absent THEN Absent
        ELSE [i[s] EXCEPT !.muted = @ /\ s # id, !.soloed = s = id]]
  <2>. DEFINE m == [s \in Present(e) |-> e.sessions[s].muted /\ s # id]
              o == [s \in Present(e) |-> s = id]
              j == [s \in SessionIds |->
                      IF s \in Present(e) THEN [i[s] EXCEPT !.muted = m[s], !.soloed = o[s]]
                      ELSE Absent]
  <2>1. Reflagged(e, apply_solo(e, id), m, o) BY SoloReflags
  <2>2. \A s \in Present(e) : m[s] = (i[s].muted /\ s # id) /\ o[s] = (s = id)
    <3>. TAKE s \in Present(e)
    <3>1. i[s].muted = e.sessions[s].muted BY EntryShows
    <3>. QED BY <3>1, Zenon
  <2>. HIDE DEF m, o
  <2>3. InboxOf(apply_solo(e, id)) = Reshown(e, m, o) BY <2>1, ReflaggedInbox, Zenon
  <2>8. InboxOf(apply_solo(e, id)) = j BY <2>3 DEF Reshown
  <2>4. \A s \in SessionIds : i[s] = Absent <=> s \notin Present(e) BY InboxType
  <2>. HIDE DEF i
  <2>5. \A s \in SessionIds :
          j[s] = IF i[s] = Absent THEN Absent
                 ELSE [i[s] EXCEPT !.muted = @ /\ s # id, !.soloed = s = id]
    <3>. TAKE s \in SessionIds
    <3>1. CASE s \in Present(e)
      <4>1. [i[s] EXCEPT !.muted = m[s], !.soloed = o[s]]
              = [i[s] EXCEPT !.muted = i[s].muted /\ s # id, !.soloed = s = id]
        BY <2>2, <3>1, Zenon
      <4>. QED BY <2>4, <3>1, <4>1
    <3>2. CASE s \notin Present(e) BY <2>4, <3>2
    <3>. QED BY <3>1, <3>2
  <2>6. j = [s \in SessionIds |-> j[s]] OBVIOUS
  <2>. HIDE DEF j
  <2>. QED BY <2>5, <2>6, <2>8
<1>. HIDE DEF new, set
<1>5. InboxOf(apply_mute(e, id)) = set(TRUE) BY <1>1, <1>2
<1>6. InboxOf(apply_unmute(e, id)) = set(FALSE) BY <1>1, <1>3
<1>7. i[id] # Absent BY <1>0, InboxType
<1>. QED BY <1>4, <1>5, <1>6, <1>7 DEF set, Commanded

-----------------------------------------------------------------------------
(* What faces are shown, step by step.                                     *)

\* With no flag change under way faces are shown the engine.
LEMMA SettledAtRest ==
  ASSUME job.kind # "flags"
  PROVE  settled = engine
BY DEF settled

\* What one command makes of the inbox faces are shown is an outcome.
LEMMA CommandsAreOutcomes ==
  ASSUME NEW s \in SessionIds, NEW j, Commanded(InboxOf(settled), j, s)
  PROVE  j \in Inbox!Outcomes
<1>. DEFINE these == {Inbox!Flagged(s, TRUE), Inbox!Flagged(s, FALSE), Inbox!SoloedOnly(s)}
<1>1. j \in these
  BY Zenon DEF Commanded, Inbox!Flagged, Inbox!SoloedOnly
<1>2. s \in {t \in SessionIds : InboxOf(settled)[t] # Absent} BY DEF Commanded
<1>3. these \in {{Inbox!Flagged(t, TRUE), Inbox!Flagged(t, FALSE), Inbox!SoloedOnly(t)} :
                   t \in {u \in SessionIds : InboxOf(settled)[u] # Absent}}
  BY <1>2
<1>. HIDE DEF these
<1>. QED BY <1>1, <1>3 DEF Inbox!Outcomes

\* A report, a removal, a command or nothing.
ChangeStep(i, j) ==
  \/ j = i
  \/ \E s \in SessionIds : Reported(i, j, s) \/ Taken(i, j, s) \/ Commanded(i, j, s)

\* A recovery: but for torn flags, each entry is as before or as after a command.
RecoverStep(i, j) ==
  \E after \in Inbox!Outcomes \cup {i} : \A t \in SessionIds :
    /\ Inbox!SameView(j[t], i[t])
    /\ t \notin torn => j[t] \in {i[t], after[t]}

\* A step is one of the inbox if what faces are shown after it is.
LEMMA StepsOfInbox ==
  ASSUME NEW i, i = InboxOf(settled), NEW j, j = InboxOf(settled'),
         \/ ChangeStep(i, j) /\ torn' \subseteq torn
         \/ /\ j = i
            /\ \E after \in Inbox!Outcomes :
                 torn' \subseteq torn \cup {t \in SessionIds : after[t] # i[t]}
         \/ Persist /\ RecoverStep(i, j) /\ torn' = {}
         \/ ~Persist /\ j = [s \in SessionIds |-> Absent] /\ torn' = {}
  PROVE  Inbox!Next
<1>1. InboxOf(settled)' = j BY DEF InboxOf, Present
<1>2. ASSUME ChangeStep(i, j), torn' \subseteq torn PROVE Inbox!Change
  <2>1. ASSUME NEW s \in SessionIds, Commanded(i, j, s) PROVE Inbox!Command
    BY <1>1, <2>1, CommandsAreOutcomes DEF Inbox!Command
  <2>2. ASSUME NEW s \in SessionIds, Reported(i, j, s) \/ Taken(i, j, s)
        PROVE  Inbox!Report(s) \/ Inbox!Remove(s)
    BY <1>1, <2>2 DEF Reported, Taken, Inbox!Report, Inbox!Remove
  <2>. QED BY <1>1, <1>2, <2>1, <2>2 DEF ChangeStep, Inbox!Change
<1>3. ASSUME j = i, \E after \in Inbox!Outcomes :
               torn' \subseteq torn \cup {t \in SessionIds : after[t] # i[t]}
      PROVE  Inbox!Fail
  BY <1>1, <1>3 DEF Inbox!Fail
<1>4. ASSUME Persist, RecoverStep(i, j), torn' = {} PROVE Inbox!Recover
  BY <1>1, <1>4 DEF RecoverStep, Inbox!Recover
<1>5. ASSUME ~Persist, j = [s \in SessionIds |-> Absent], torn' = {} PROVE Inbox!Forget
  BY <1>1, <1>5 DEF Inbox!Forget
<1>. QED BY <1>2, <1>3, <1>4, <1>5 DEF Inbox!Next

\* A removal takes its session out of the inbox.
LEMMA RemovalTakes ==
  ASSUME NEW e \in Engine, NEW id \in Present(e)
  PROVE  Taken(InboxOf(e), InboxOf(remove_session(e, id)), id)
<1>. DEFINE g == remove_session(e, id)
            i == InboxOf(e)
<1>0. id \in SessionIds BY PresentType
<1>1. /\ g \in Engine /\ Present(g) = Present(e) \ {id}
      /\ \A s \in Present(g) : Alike(g.sessions[s], e.sessions[s])
  BY Removed
<1>. HIDE DEF g
<1>2. \A s \in SessionIds : InboxOf(g)[s] = [i EXCEPT ![id] = Absent][s]
  <2>. TAKE s \in SessionIds
  <2>0. i = [t \in SessionIds |-> i[t]] BY InboxType
  <2>1. CASE s = id BY <1>1, <2>0, <2>1, InboxType
  <2>2. CASE s # id /\ s \in Present(e)
    <3>1. s \in Present(g) BY <1>1, <2>2
    <3>2. InboxOf(g)[s] = i[s] BY <1>1, <2>2, <3>1, EntryShows, SameEntry DEF Alike
    <3>. QED BY <2>0, <2>2, <3>2
  <2>3. CASE s # id /\ s \notin Present(e) BY <1>1, <2>0, <2>3, InboxType
  <2>. QED BY <2>1, <2>2, <2>3
<1>3. InboxOf(g) = [i EXCEPT ![id] = Absent] BY <1>1, <1>2, InboxType, InboxAgrees
<1>4. i[id] # Absent BY <1>0, InboxType
<1>. QED BY <1>3, <1>4 DEF Taken, g

\* New runs are a report.
LEMMA RunsReport ==
  ASSUME NEW e \in Engine, NEW id \in Present(e), NEW runs \in Runs
  PROVE  Reported(InboxOf(e), InboxOf(WithRuns(e, id, runs)), id)
<1>. DEFINE g == WithRuns(e, id, runs)
            x == [e.sessions[id] EXCEPT !.runs = runs]
<1>0. id \in SessionIds /\ e.sessions[id] \in Session BY PresentType
<1>1. x \in Session /\ x.muted = e.sessions[id].muted /\ x.soloed = e.sessions[id].soloed
  BY <1>0 DEF Session
<1>2. /\ g \in Engine /\ Present(g) = Present(e)
      /\ Alike(g.sessions[id], recompute_rollups(x))
      /\ \A s \in SessionIds \ {id} : g.sessions[s] = e.sessions[s]
  BY Rerun
<1>. HIDE DEF g, x
<1>3. /\ g.sessions[id].muted = e.sessions[id].muted
      /\ g.sessions[id].soloed = e.sessions[id].soloed
  BY <1>1, <1>2, Recomputed DEF Alike
<1>4. Present(g) = Present(e) \cup {id} BY <1>2
<1>. QED BY <1>0, <1>2, <1>3, <1>4, PutReports DEF g

\* A session the reporter sends is a report: the flags are the Hub's.
LEMMA UpsertReports ==
  ASSUME NEW e \in Engine, NEW id \in SessionIds, NEW x \in Session, ~x.muted, ~x.soloed
  PROVE  Reported(InboxOf(e), InboxOf(upsert_session(e, id, preserve_hub_owned_fields(e, id, x))), id)
<1>. DEFINE y == preserve_hub_owned_fields(e, id, x)
            g == upsert_session(e, id, y)
<1>1. y \in Session BY ShellKept
<1>2. /\ id \in Present(e) => y.muted = e.sessions[id].muted /\ y.soloed = e.sessions[id].soloed
      /\ id \notin Present(e) => ~y.muted /\ ~y.soloed
  BY DEF preserve_hub_owned_fields, Session
<1>. HIDE DEF y
<1>3. /\ g \in Engine /\ Present(g) = Present(e) \cup {id}
      /\ Alike(g.sessions[id], recompute_rollups(y))
      /\ \A s \in SessionIds \ {id} : g.sessions[s] = e.sessions[s]
  <2>1. ASSUME NEW z \in Session
        PROVE  /\ upsert_session(e, id, z) \in Engine
               /\ Present(upsert_session(e, id, z)) = Present(e) \cup {id}
               /\ Alike(upsert_session(e, id, z).sessions[id], recompute_rollups(z))
               /\ \A s \in SessionIds \ {id} : upsert_session(e, id, z).sessions[s] = e.sessions[s]
    BY Upserted, ZenonT(90)
  <2>. QED BY <1>1, <2>1, Zenon
<1>. HIDE DEF g
<1>4. g.sessions[id].muted = y.muted /\ g.sessions[id].soloed = y.soloed
  BY <1>1, <1>3, Recomputed DEF Alike
<1>. QED BY <1>2, <1>3, <1>4, PutReports DEF g, y

\* The flag change under way is one command on what faces are shown.
LEMMA UnderWay ==
  ASSUME KeepsUpInv, job.kind = "flags"
  PROVE  /\ settled = job.before
         /\ InboxOf(engine) \in Inbox!Outcomes
         /\ HalfWritten \subseteq {t \in SessionIds : InboxOf(engine)[t] # InboxOf(settled)[t]}
<1>0. engine \in Engine /\ job.before \in Engine BY DEF KeepsUpInv, StoreInv, Sound
<1>1. settled = job.before BY DEF settled
<1>2. PICK s \in Present(job.before) :
        engine \in {apply_mute(job.before, s), apply_unmute(job.before, s), apply_solo(job.before, s)}
  BY DEF KeepsUpInv, FlagsFromCommand
<1>3. s \in SessionIds BY <1>0, PresentType
<1>4. InboxOf(engine) \in Inbox!Outcomes
  BY <1>0, <1>1, <1>2, <1>3, CommandsOfInbox, CommandsAreOutcomes
<1>5. ASSUME NEW t \in HalfWritten
      PROVE  t \in SessionIds /\ InboxOf(engine)[t] # InboxOf(settled)[t]
  <2>1. t \in Present(engine) /\ t \in Present(job.before)
    BY DEF HalfWritten, FlagsMoved, KeepsUpInv, StoreInv, JobOK
  <2>2. \/ job.before.sessions[t].muted # engine.sessions[t].muted
        \/ job.before.sessions[t].soloed # engine.sessions[t].soloed
    BY DEF HalfWritten, FlagsMoved
  <2>. QED BY <1>0, <1>1, <2>1, <2>2, EntryShows, PresentType
<1>. QED BY <1>1, <1>4, <1>5

\* What the log restores is the inbox faces are shown, but for torn flags and for
\* rows of the command under way.
LEMMA RestoredInbox ==
  ASSUME KeepsUpInv
  PROVE  RecoverStep(InboxOf(settled), InboxOf(logged))
<1>. DEFINE i == InboxOf(settled)
            j == InboxOf(logged)
            after == IF job.kind = "flags" THEN InboxOf(engine) ELSE i
<1>0. /\ logged \in Engine /\ engine \in Engine /\ settled \in Engine
  BY DEF KeepsUpInv, StoreInv, Sound, settled
<1>1. Follows(logged, settled, torn \cup HalfWritten) BY SettledFollows
<1>2. after \in Inbox!Outcomes \cup {i} BY UnderWay
<1>3. ASSUME NEW t \in SessionIds
      PROVE  Inbox!SameView(j[t], i[t]) /\ (t \notin torn => j[t] \in {i[t], after[t]})
  <2>1. CASE t \notin Present(settled)
    <3>1. i[t] = Absent /\ j[t] = Absent BY <1>0, <1>1, <2>1, InboxType DEF Follows
    <3>. QED BY <3>1 DEF Inbox!SameView
  <2>2. CASE t \in Present(settled)
    <3>1. t \in Present(logged) /\ Near(logged.sessions[t], settled.sessions[t], t, torn \cup HalfWritten)
      BY <1>1, <2>2 DEF Follows
    <3>2. /\ i[t] \in Inbox!Entry /\ i[t].runs = settled.sessions[t].runs
          /\ i[t].muted = settled.sessions[t].muted /\ i[t].soloed = settled.sessions[t].soloed
      BY <1>0, <2>2, EntryShows
    <3>3. /\ j[t] \in Inbox!Entry /\ j[t].runs = logged.sessions[t].runs
          /\ j[t].muted = logged.sessions[t].muted /\ j[t].soloed = logged.sessions[t].soloed
      BY <1>0, <3>1, EntryShows
    <3>. HIDE DEF i, j
    <3>4. Inbox!SameView(j[t], i[t])
      BY <3>1, <3>2, <3>3, EntryIsNew DEF Near, Shows, Inbox!SameView
    <3>5. CASE t \notin torn \cup HalfWritten
      <4>1. j[t] = i[t] BY <3>1, <3>2, <3>3, <3>5, SameEntry DEF Near, Shows, SameFlags
      <4>. QED BY <3>4, <4>1
    <3>6. CASE t \in HalfWritten /\ t \notin torn
      <4>1. job.kind = "flags" /\ t \in Present(engine) /\ t \notin job.rows
        BY <3>6 DEF HalfWritten, FlagsMoved
      <4>2. Near(logged.sessions[t], engine.sessions[t], t, torn)
        BY <4>1 DEF KeepsUpInv, LogFollows
      <4>3. LET k == InboxOf(engine)
            IN  /\ k[t] \in Inbox!Entry /\ k[t].runs = engine.sessions[t].runs
                /\ k[t].muted = engine.sessions[t].muted /\ k[t].soloed = engine.sessions[t].soloed
        BY <1>0, <4>1, EntryShows
      <4>4. j[t] = InboxOf(engine)[t]
        BY <3>3, <3>6, <4>2, <4>3, SameEntry DEF Near, Shows, SameFlags
      <4>. QED BY <3>4, <4>1, <4>4
    <3>7. CASE t \in torn BY <3>4, <3>7
    <3>. QED BY <3>5, <3>6, <3>7
  <2>. QED BY <2>1, <2>2
<1>. HIDE DEF after
<1>. QED BY <1>2, <1>3 DEF RecoverStep

\* An empty engine shows an empty inbox.
LEMMA EmptyInbox == InboxOf(EmptyEngine) = [s \in SessionIds |-> Absent]
<1>1. Present(EmptyEngine) = {} BY EmptySound
<1>. HIDE DEF EmptyEngine
<1>. QED BY <1>1 DEF InboxOf

\* Every step of the store is one of the inbox.
LEMMA StoreSteps ==
  ASSUME KeepsUpInv, StoreInv', [Next]_vars
  PROVE  [Inbox!Next]_(Inbox!vars)
<1>. DEFINE i == InboxOf(settled)
            j == InboxOf(settled')
            Goal == ChangeStep(i, j) /\ torn' \subseteq torn
<1>0. engine \in Engine /\ engine' \in Engine BY DEF KeepsUpInv, StoreInv, Sound
<1>1. job.kind # "flags" /\ job'.kind # "flags" => settled = engine /\ settled' = engine'
  BY DEF settled
<1>30. job.kind # "flags" => torn' \subseteq torn
  BY TearsStep DEF TearsGrow, HalfWritten
<1>2. ASSUME NEW id \in SessionIds, NEW t \in Timestamps,
             NEW runs \in [RunIds -> InputRuns \cup {Absent}],
             apply_session_upsert(id, runs, t)
      PROVE  Goal
  <2>. DEFINE x == Shell(runs, t)
  <2>1. x \in Session BY InputType
  <2>2. ~x.muted /\ ~x.soloed BY DEF Shell
  <2>3. /\ engine' = upsert_session(engine, id, preserve_hub_owned_fields(engine, id, x))
        /\ job = Idle /\ job' = job
    BY <1>2 DEF apply_session_upsert
  <2>4. settled = engine /\ settled' = engine' BY <1>1, <2>3, JobKinds
  <2>. HIDE DEF x
  <2>. QED BY <1>0, <1>30, <2>1, <2>2, <2>3, <2>4, JobKinds, UpsertReports DEF ChangeStep
<1>3. ASSUME NEW id \in SessionIds, job \in {Idle, Gc}, job' = job, RemoveSession(id)
      PROVE  Goal
  <2>1. settled = engine /\ settled' = engine' BY <1>1, <1>3, JobKinds
  <2>2. id \in Present(engine) /\ engine' = remove_session(engine, id) BY <1>3 DEF RemoveSession
  <2>3. id \in SessionIds /\ job.kind # "flags" BY <1>3, JobKinds
  <2>. QED BY <1>0, <1>30, <2>1, <2>2, <2>3, RemovalTakes DEF ChangeStep
<1>4. ASSUME NEW id \in Present(engine), NEW runs \in Runs,
             job.kind # "flags", job' = job, engine' = WithRuns(engine, id, runs)
      PROVE  Goal
  <2>1. settled = engine /\ settled' = engine' BY <1>1, <1>4
  <2>2. id \in SessionIds BY <1>0, PresentType
  <2>. QED BY <1>0, <1>4, <1>30, <2>1, <2>2, RunsReport DEF ChangeStep
<1>5. ASSUME NEW id \in SessionIds, NEW rid \in RunIds, NEW run \in InputRuns,
             job = Idle, job' = job, id \in Present(engine),
             engine' = upsert_run(engine, id, rid, run)
      PROVE  Goal
  <2>1. engine.sessions[id] \in Session BY <1>0, <1>5, PresentType
  <2>2. [engine.sessions[id].runs EXCEPT ![rid] = run] \in Runs
    BY <2>1, InputType DEF Session, Runs
  <2>. QED BY <1>4, <1>5, <2>2, JobKinds DEF upsert_run
<1>6. ASSUME NEW id \in SessionIds, NEW rid \in RunIds, job \in {Idle, Gc}, job' = job,
             RemoveRun(id, rid)
      PROVE  Goal
  <2>1. HasRun(engine, id, rid) /\ engine' = remove_run(engine, id, rid) BY <1>6 DEF RemoveRun
  <2>2. id \in Present(engine) BY <2>1 DEF HasRun
  <2>3. engine.sessions[id] \in Session BY <1>0, <2>2, PresentType
  <2>4. [engine.sessions[id].runs EXCEPT ![rid] = Absent] \in Runs
    BY <2>3 DEF Session, Runs
  <2>. QED BY <1>4, <1>6, <2>1, <2>2, <2>4, JobKinds DEF remove_run
<1>7. ASSUME NEW id \in SessionIds, Mute(id) \/ Unmute(id) \/ Solo(id)
      PROVE  Goal
  <2>1. settled = engine /\ settled' = engine /\ job.kind # "flags"
    BY <1>7, FlagCommand, JobKinds DEF settled
  <2>. QED BY <1>30, <2>1 DEF ChangeStep
<1>8. ASSUME NEW id \in SessionIds, AppendFlagRow(id)
      PROVE  Goal
  <2>1. /\ job.kind = "flags" /\ engine' = engine
        /\ job' = Idle \/ job' = Flags(job.rows \ {id}, job.before)
        /\ torn' \subseteq torn
    BY <1>8 DEF AppendFlagRow
  <2>2. CASE job' = Flags(job.rows \ {id}, job.before)
    <3>1. settled = job.before /\ settled' = job.before BY <2>1, <2>2, JobKinds DEF settled
    <3>. QED BY <2>1, <3>1 DEF ChangeStep
  <2>3. CASE job' = Idle
    <3>1. settled = job.before /\ settled' = engine BY <2>1, <2>3, JobKinds DEF settled
    <3>2. job.before \in Engine BY DEF KeepsUpInv, StoreInv, Sound
    <3>3. PICK s \in Present(job.before) :
            engine \in {apply_mute(job.before, s), apply_unmute(job.before, s), apply_solo(job.before, s)}
      BY <2>1 DEF KeepsUpInv, FlagsFromCommand
    <3>4. s \in SessionIds BY <3>2, PresentType
    <3>. QED BY <2>1, <3>1, <3>2, <3>3, <3>4, CommandsOfInbox DEF ChangeStep
  <2>. QED BY <2>1, <2>2, <2>3
<1>9. ASSUME FlagRowNotAppended PROVE Inbox!Next
  <2>1. settled = job.before /\ settled' = job.before /\ job.kind = "flags"
        /\ torn' = torn \cup HalfWritten
    BY <1>9, JobKinds DEF FlagRowNotAppended, settled
  <2>2. /\ InboxOf(engine) \in Inbox!Outcomes
        /\ HalfWritten \subseteq {t \in SessionIds : InboxOf(engine)[t] # i[t]}
    BY <2>1, UnderWay
  <2>3. j = i BY <2>1
  <2>4. torn' \subseteq torn \cup {t \in SessionIds : InboxOf(engine)[t] # i[t]}
    <3>. HIDE DEF i, HalfWritten
    <3>. QED BY <2>1, <2>2
  <2>. QED BY <2>2, <2>3, <2>4, StepsOfInbox
<1>10. ASSUME NEW id \in SessionIds, Focus(id)
       PROVE  Goal
  <2>1. engine' = apply_focus(engine, id) /\ job = Idle /\ job' = job BY <1>10 DEF Focus
  <2>2. settled = engine /\ settled' = engine' BY <1>1, <2>1, JobKinds
  <2>3. j = i BY <1>0, <2>1, <2>2, Focused, AlikeInbox
  <2>. QED BY <1>30, <2>1, <2>3, JobKinds DEF ChangeStep
<1>11. ASSUME Restart PROVE Inbox!Next
  <2>1. /\ engine' = IF Persist THEN logged ELSE EmptyEngine
        /\ job' = Idle /\ torn' = {}
    BY <1>11 DEF Restart
  <2>2. settled' = engine' BY <2>1, JobKinds DEF settled
  <2>3. CASE Persist
    <3>1. settled' = logged BY <2>1, <2>2, <2>3
    <3>2. RecoverStep(i, j) BY <3>1, RestoredInbox
    <3>. HIDE DEF i, j
    <3>3. i = InboxOf(settled) /\ j = InboxOf(settled') BY DEF i, j
    <3>. QED BY <2>1, <2>3, <3>2, <3>3, StepsOfInbox
  <2>4. CASE ~Persist
    <3>1. settled' = EmptyEngine BY <2>1, <2>2, <2>4
    <3>2. j = [s \in SessionIds |-> Absent]
      <4>. HIDE DEF EmptyEngine
      <4>. QED BY <3>1, EmptyInbox
    <3>. QED BY <2>1, <2>4, <3>2, StepsOfInbox
  <2>. QED BY <2>3, <2>4
<1>12. ASSUME engine' = engine, job.kind # "flags", job'.kind # "flags" PROVE Goal
  BY <1>1, <1>12, <1>30 DEF ChangeStep
<1>13. ASSUME UNCHANGED vars PROVE Goal BY <1>13 DEF vars, settled, ChangeStep
<1>. HIDE DEF Goal
<1>14. ASSUME NEW id \in SessionIds,
              apply_session_remove(id) \/ sweep_expired_sessions(id)
       PROVE  Goal
  <2>1. job \in {Idle, Gc} /\ job' = job /\ RemoveSession(id)
    BY <1>14 DEF apply_session_remove, sweep_expired_sessions
  <2>. QED BY <1>3, <2>1
<1>15. ASSUME NEW id \in SessionIds, NEW rid \in RunIds,
              apply_run_remove(id, rid) \/ reap_dead(id, rid)
       PROVE  Goal
  <2>1. job \in {Idle, Gc} /\ job' = job /\ RemoveRun(id, rid)
    BY <1>15 DEF apply_run_remove, reap_dead
  <2>. QED BY <1>6, <2>1
<1>16. ASSUME NEW id \in SessionIds, NEW rid \in RunIds, NEW run \in InputRuns,
              apply_run_upsert(id, rid, run)
       PROVE  Goal
  BY <1>5, <1>16 DEF apply_run_upsert
<1>17. ASSUME NEW id \in SessionIds, NEW rid \in RunIds, NEW run \in InputRuns,
              NEW stamp \in Stamps, apply_run_upsert_seq(id, rid, run, stamp)
       PROVE  Goal
  BY <1>5, <1>17 DEF apply_run_upsert_seq, Admitted
<1>18. ASSUME NEW id \in SessionIds, NEW rid \in RunIds, NEW stamp \in Stamps,
              RunUpsertSeqNotAppended(id, rid, stamp)
       PROVE  Goal
  BY <1>12, <1>18, JobKinds DEF RunUpsertSeqNotAppended, Admitted
<1>19. ASSUME GcBegin \/ GcEnd \/ Tick PROVE Goal
  BY <1>12, <1>19, JobKinds DEF GcBegin, GcEnd, Tick
<1>20. ASSUME Next, ~FlagRowNotAppended, ~Restart PROVE Goal
  BY <1>2, <1>7, <1>8, <1>10, <1>14, <1>15, <1>16, <1>17, <1>18, <1>19, <1>20 DEF Next
<1>21. ASSUME Goal PROVE Inbox!Next
  <2>1. ChangeStep(i, j) /\ torn' \subseteq torn BY <1>21 DEF Goal
  <2>. QED BY <2>1, StepsOfInbox
<1>. QED BY <1>9, <1>11, <1>13, <1>20, <1>21

\* The Hub keeps its promise to faces: an inbox that changes by one report, one
\* removal or one command at a time, whatever fails, and that an end of the
\* process at any point does not touch if it is durable, but for the flags of
\* the sessions that the command it cut short, or an earlier one that failed half
\* way, was about to change (persist.rs 541).
THEOREM StoreImplementsInbox == Spec => ImplementsInbox
<1>1. Init => KeepsUpInv /\ Inbox!Init
  <2>. SUFFICES ASSUME Init PROVE KeepsUpInv /\ Inbox!Init OBVIOUS
  <2>1. job = Idle /\ engine = EmptyEngine /\ torn = {} BY DEF Init
  <2>3. settled = EmptyEngine BY <2>1, JobKinds DEF settled
  <2>. QED BY <2>1, <2>3, KeepsUpInit, EmptyInbox DEF Inbox!Init
<1>2. KeepsUpInv /\ [Next]_vars => KeepsUpInv' BY KeepsUpStep
<1>3. KeepsUpInv /\ KeepsUpInv' /\ [Next]_vars => [Inbox!Next]_(Inbox!vars)
  BY StoreSteps DEF KeepsUpInv
<1>. QED BY <1>1, <1>2, <1>3, PTL DEF Spec, ImplementsInbox, Inbox!Spec
-----------------------------------------------------------------------------
(* Badges, step by step.                                                   *)

\* A session that comes, or comes again.
LEMMA UpsertBadges ==
  ASSUME NEW e \in Engine, NEW id \in SessionIds, NEW x \in Session, BadgesTrue(e),
         ~x.soloed, ~x.unread
  PROVE  BadgeStep(e, upsert_session(e, id, preserve_hub_owned_fields(e, id, x)))
<1>. DEFINE kept == preserve_hub_owned_fields(e, id, x)
<1>1. kept \in Session BY ShellKept
<1>2. /\ id \in Present(e) => kept.soloed = e.sessions[id].soloed /\ kept.unread = e.sessions[id].unread
      /\ id \notin Present(e) => ~kept.soloed /\ ~kept.unread
  BY DEF preserve_hub_owned_fields, Session
<1>. HIDE DEF kept
<1>. QED BY <1>1, <1>2, RegisterBadges DEF kept

BadgeInv == StoreInv /\ FlagsFromCommand /\ BadgesTrue(engine) /\ BadgesTrue(job.before)

\* A step outside flag changes moves faces and the engine alike.
LEMMA BadgesAtRest ==
  ASSUME BadgeInv, StoreInv', FlagsFromCommand', BadgeStep(engine, engine'),
         job \in {Idle, Gc}, job' \in {Idle, Gc}
  PROVE  BadgeInv' /\ BadgeStep(settled, settled')
<1>1. settled = engine /\ settled' = engine' BY JobKinds DEF settled
<1>2. job'.before = EmptyEngine BY DEF Idle, Gc
<1>3. Present(EmptyEngine) = {} BY EmptySound
<1>4. BadgesTrue(EmptyEngine)
  <2>. HIDE DEF EmptyEngine
  <2>. QED BY <1>3 DEF BadgesTrue
<1>5. BadgesTrue(engine)' /\ BadgesTrue(job.before)'
  <2>. HIDE DEF EmptyEngine
  <2>. QED BY <1>2, <1>4 DEF BadgeStep, BadgesTrue, Notifies, Present, any_soloed
<1>. QED BY <1>1, <1>5 DEF BadgeInv

\* Without restarts, every step gives new pings their badges and takes them off
\* what does not ping.
LEMMA BadgeInvStep ==
  ASSUME "restart" \notin Faults, BadgeInv, [Next]_vars
  PROVE  BadgeInv' /\ (settled' = settled \/ BadgeStep(settled, settled'))
<1>. DEFINE Goal == BadgeInv' /\ (settled' = settled \/ BadgeStep(settled, settled'))
<1>0. /\ StoreInv /\ StoreInv' /\ FlagsFromCommand /\ FlagsFromCommand'
      /\ engine \in Engine /\ engine' \in Engine /\ job.before \in Engine
      /\ BadgesTrue(engine) /\ BadgesTrue(job.before)
  BY StoreInvStep, FlagsFromCommandStep DEF BadgeInv, StoreInv, Sound
<1>1. ASSUME job \in {Idle, Gc}, job' \in {Idle, Gc}, BadgeStep(engine, engine')
      PROVE  Goal
  BY <1>0, <1>1, BadgesAtRest
<1>2. BadgeStep(engine, engine) BY <1>0 DEF BadgeStep
<1>. HIDE DEF Goal
<1>3. ASSUME NEW id \in SessionIds, NEW t \in Timestamps,
             NEW runs \in [RunIds -> InputRuns \cup {Absent}],
             apply_session_upsert(id, runs, t)
      PROVE  Goal
  <2>. DEFINE x == Shell(runs, t)
  <2>1. x \in Session BY InputType
  <2>2. ~x.soloed /\ ~x.unread BY DEF Shell
  <2>3. /\ engine' = upsert_session(engine, id, preserve_hub_owned_fields(engine, id, x))
        /\ job = Idle /\ job' = job
    BY <1>3 DEF apply_session_upsert
  <2>. HIDE DEF x
  <2>. QED BY <1>0, <1>1, <2>1, <2>2, <2>3, UpsertBadges
<1>4. ASSUME NEW id \in SessionIds, job \in {Idle, Gc}, job' = job, RemoveSession(id)
      PROVE  Goal
  <2>1. id \in Present(engine) /\ engine' = remove_session(engine, id) BY <1>4 DEF RemoveSession
  <2>. QED BY <1>0, <1>1, <1>4, <2>1, RemovalBadges
<1>5. ASSUME NEW id \in Present(engine), NEW runs \in Runs,
             job \in {Idle, Gc}, job' = job, engine' = WithRuns(engine, id, runs)
      PROVE  Goal
  BY <1>0, <1>1, <1>5, RerunBadges
<1>6. ASSUME NEW id \in SessionIds, NEW rid \in RunIds, NEW run \in InputRuns,
             job = Idle, job' = job, id \in Present(engine),
             engine' = upsert_run(engine, id, rid, run)
      PROVE  Goal
  <2>1. engine.sessions[id] \in Session BY <1>0, <1>6, PresentType
  <2>2. [engine.sessions[id].runs EXCEPT ![rid] = run] \in Runs
    BY <2>1, InputType DEF Session, Runs
  <2>. QED BY <1>5, <1>6, <2>2 DEF upsert_run
<1>7. ASSUME NEW id \in SessionIds, NEW rid \in RunIds, job \in {Idle, Gc}, job' = job,
             RemoveRun(id, rid)
      PROVE  Goal
  <2>1. HasRun(engine, id, rid) /\ engine' = remove_run(engine, id, rid) BY <1>7 DEF RemoveRun
  <2>2. id \in Present(engine) BY <2>1 DEF HasRun
  <2>3. engine.sessions[id] \in Session BY <1>0, <2>2, PresentType
  <2>4. [engine.sessions[id].runs EXCEPT ![rid] = Absent] \in Runs
    BY <2>3 DEF Session, Runs
  <2>. QED BY <1>5, <1>7, <2>1, <2>2, <2>4 DEF remove_run
<1>8. ASSUME NEW id \in SessionIds, Mute(id) \/ Unmute(id) \/ Solo(id)
      PROVE  Goal
  <2>1. /\ job = Idle /\ job'.kind = "flags" /\ job'.before = engine
        /\ id \in Present(engine)
        /\ engine' \in {apply_mute(engine, id), apply_unmute(engine, id), apply_solo(engine, id)}
    BY <1>8, FlagCommand
  <2>2. settled = engine /\ settled' = engine BY <2>1, JobKinds DEF settled
  <2>3. BadgeStep(engine, engine') BY <1>0, <2>1, CommandBadges
  <2>4. BadgesTrue(engine)' /\ BadgesTrue(job.before)'
    BY <1>0, <2>1, <2>3 DEF BadgeStep, BadgesTrue, Notifies, Present, any_soloed
  <2>. QED BY <1>0, <2>2, <2>4 DEF Goal, BadgeInv
<1>9. ASSUME NEW id \in SessionIds, AppendFlagRow(id)
      PROVE  Goal
  <2>1. /\ job.kind = "flags" /\ engine' = engine
        /\ job' = Idle \/ job' = Flags(job.rows \ {id}, job.before)
    BY <1>9 DEF AppendFlagRow
  <2>2. CASE job' = Flags(job.rows \ {id}, job.before)
    <3>1. settled' = settled /\ job'.before = job.before BY <2>1, <2>2, JobKinds DEF settled
    <3>2. BadgesTrue(engine)' /\ BadgesTrue(job.before)'
      BY <1>0, <2>1, <3>1 DEF BadgesTrue, Notifies, Present, any_soloed
    <3>. QED BY <1>0, <3>1, <3>2 DEF Goal, BadgeInv
  <2>3. CASE job' = Idle
    <3>1. settled = job.before /\ settled' = engine BY <2>1, <2>3, JobKinds DEF settled
    <3>2. PICK s \in Present(job.before) :
            engine \in {apply_mute(job.before, s), apply_unmute(job.before, s), apply_solo(job.before, s)}
      BY <1>0, <2>1 DEF FlagsFromCommand
    <3>3. BadgeStep(settled, settled') BY <1>0, <3>1, <3>2, CommandBadges
    <3>4. job'.before = EmptyEngine BY <2>3 DEF Idle
    <3>5. Present(EmptyEngine) = {} BY EmptySound
    <3>. HIDE DEF EmptyEngine
    <3>6. BadgesTrue(engine)' /\ BadgesTrue(job.before)'
      BY <1>0, <2>1, <3>4, <3>5 DEF BadgesTrue, Notifies, Present, any_soloed
    <3>. QED BY <1>0, <3>3, <3>6 DEF Goal, BadgeInv
  <2>. QED BY <2>1, <2>2, <2>3
<1>10. ASSUME FlagRowNotAppended PROVE Goal
  <2>1. /\ settled = job.before /\ settled' = job.before
        /\ engine' = job.before /\ job'.before = EmptyEngine
    BY <1>10, JobKinds DEF FlagRowNotAppended, settled, Idle
  <2>2. Present(EmptyEngine) = {} BY EmptySound
  <2>. HIDE DEF EmptyEngine
  <2>3. BadgesTrue(engine)' /\ BadgesTrue(job.before)'
    BY <1>0, <2>1, <2>2 DEF BadgesTrue, Notifies, Present, any_soloed
  <2>. QED BY <1>0, <2>1, <2>3 DEF Goal, BadgeInv
<1>11. ASSUME NEW id \in SessionIds, Focus(id)
       PROVE  Goal
  <2>1. engine' = apply_focus(engine, id) /\ job = Idle /\ job' = job BY <1>11 DEF Focus
  <2>. QED BY <1>0, <1>1, <2>1, FocusBadges
<1>12. ASSUME NEW id \in SessionIds, NEW rid \in RunIds, NEW stamp \in Stamps,
              RunUpsertSeqNotAppended(id, rid, stamp)
       PROVE  Goal
  BY <1>1, <1>2, <1>12 DEF RunUpsertSeqNotAppended, Admitted
<1>13. ASSUME GcBegin \/ GcEnd \/ Tick PROVE Goal
  BY <1>1, <1>2, <1>13 DEF GcBegin, GcEnd, Tick
<1>14. ASSUME NEW id \in SessionIds, NEW rid \in RunIds, NEW run \in InputRuns,
              \/ apply_run_upsert(id, rid, run)
              \/ \E stamp \in Stamps : apply_run_upsert_seq(id, rid, run, stamp)
       PROVE  Goal
  BY <1>6, <1>14 DEF apply_run_upsert, apply_run_upsert_seq, Admitted
<1>15. ASSUME NEW id \in SessionIds,
              apply_session_remove(id) \/ sweep_expired_sessions(id)
       PROVE  Goal
  <2>1. job \in {Idle, Gc} /\ job' = job /\ RemoveSession(id)
    BY <1>15 DEF apply_session_remove, sweep_expired_sessions
  <2>. QED BY <1>4, <2>1
<1>16. ASSUME NEW id \in SessionIds, NEW rid \in RunIds,
              apply_run_remove(id, rid) \/ reap_dead(id, rid)
       PROVE  Goal
  <2>1. job \in {Idle, Gc} /\ job' = job /\ RemoveRun(id, rid)
    BY <1>16 DEF apply_run_remove, reap_dead
  <2>. QED BY <1>7, <2>1
<1>17. ASSUME UNCHANGED vars PROVE Goal
  <2>1. engine' = engine /\ job' = job BY <1>17 DEF vars
  <2>2. settled' = settled BY <2>1 DEF settled
  <2>3. BadgesTrue(engine)' /\ BadgesTrue(job.before)'
    BY <1>0, <2>1 DEF BadgesTrue, Notifies, Present, any_soloed
  <2>. QED BY <1>0, <2>2, <2>3 DEF Goal, BadgeInv
<1>18. ~Restart BY DEF Restart
<1>19. ASSUME Next PROVE Goal
  BY <1>3, <1>8, <1>9, <1>10, <1>11, <1>12, <1>13, <1>14, <1>15, <1>16, <1>18, <1>19 DEF Next
<1>. QED BY <1>17, <1>19 DEF Goal

\* As long as the process runs, badges follow the pings: a session never starts to
\* ping without its badge, and none is left on one that does not ping, whatever
\* appends fail (merge.rs 84-91).
THEOREM BadgesAlwaysFollow ==
  ASSUME "restart" \notin Faults
  PROVE  Spec => BadgesFollowPings
<1>1. Init => BadgeInv
  <2>. SUFFICES ASSUME Init PROVE BadgeInv OBVIOUS
  <2>1. job = Idle /\ engine = EmptyEngine /\ job.before = EmptyEngine BY DEF Init, Idle
  <2>2. FlagsFromCommand BY <2>1, JobKinds DEF FlagsFromCommand
  <2>3. Present(EmptyEngine) = {} BY EmptySound
  <2>. HIDE DEF EmptyEngine
  <2>. QED BY <2>1, <2>2, <2>3, StoreInvInit DEF BadgeInv, BadgesTrue
<1>2. BadgeInv /\ [Next]_vars => BadgeInv' /\ (settled' = settled \/ BadgeStep(settled, settled'))
  BY BadgeInvStep
<1>3. settled' = settled \/ BadgeStep(settled, settled') =>
        [\A s \in SessionIds :
           /\ Notifies(settled', s) /\ ~Notifies(settled, s) => settled'.sessions[s].unread
           /\ s \in Present(settled') /\ settled'.sessions[s].unread => Notifies(settled', s)]_settled
  BY DEF BadgeStep, BadgesTrue
<1>. QED BY <1>1, <1>2, <1>3, PTL DEF Spec, BadgesFollowPings
=============================================================================
