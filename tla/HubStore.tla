------------------------------- MODULE HubStore -------------------------------
(***************************************************************************)
(* The Hub's durable store, crates/fleet-hub/src/persist.rs: the event log *)
(* and the two projections kept beside it in memory, the merge engine and  *)
(* the reclaim table with its session index.                               *)
(*                                                                         *)
(* The log is only ever appended to and replayed from its start, so it is  *)
(* held as what a replay of it yields: appending a row applies the row to  *)
(* logged, by the operation the replay would use.  A mutation of one row   *)
(* is one step.  A flag command appends one row per changed session and    *)
(* the GC one row per victim, under the store lock: those are jobs of      *)
(* several steps that a failed append or the end of the process may cut    *)
(* short after any row.                                                    *)
(***************************************************************************)
EXTENDS MergeEngine, ReclaimTable

CONSTANTS
  native_id,     \* the native id each run id is anchored on
  RunInputs,     \* the [state, urgency] pairs a run is upserted with
  Stamps,        \* the stamps reporters put on run deltas
  Commands,      \* the face commands given, of "mute", "unmute", "solo", "focus"
  Faults,        \* what the environment may do, of "append", "restart"
  Persist,       \* HubConfig.persist: the log survives the process
  MaxTime,       \* bound on the clock and on the timestamps reporters send
  Grace,         \* how long a dead run is kept
  SessionTtl     \* how long an untouched session is kept

ASSUME StoreConstants ==
  /\ native_id \in [RunIds -> NativeIds]
  /\ RunInputs \subseteq [state : State, urgency : Urgency]
  /\ Stamps \subseteq Stamp
  /\ Persist \in BOOLEAN
  /\ MaxTime \in Nat /\ Grace \in Nat /\ SessionTtl \in Nat

VARIABLES
  engine,             \* the projection faces are served from
  logged,             \* the projection a replay of the log yields
  marks,              \* the reclaim table's high-water marks
  session_durables,   \* the durable ids indexed under each session
  job,                \* the mutation in progress under the store lock
  now,                \* the wall clock
  landed,             \* history: the stamp of the last logged delta of each id
  torn,               \* history: sessions whose last row is of a flag change cut short
  mixed               \* history: sessions that a restart brought back from such a row

tears == <<torn, mixed>>

vars == <<engine, logged, marks, session_durables, job, now, landed, torn, mixed>>

Idle == [kind |-> "idle", rows |-> {}, before |-> EmptyEngine]
Gc   == [kind |-> "gc",   rows |-> {}, before |-> EmptyEngine]

\* rows: the sessions whose row is still to be appended.  before: the engine to
\* go back to if an append fails.
Flags(rows, before) == [kind |-> "flags", rows |-> rows, before |-> before]

Jobs == [kind : {"idle", "gc", "flags"}, rows : SUBSET SessionIds, before : Engine]

\* What a snapshot shows: a flag change is seen when its last row is written.
settled == IF job.kind = "flags" THEN job.before ELSE engine

Init ==
  /\ engine = EmptyEngine
  /\ logged = EmptyEngine
  /\ marks = NoMarks
  /\ session_durables = [s \in SessionIds |-> {}]
  /\ job = Idle
  /\ now = 0
  /\ landed = NoMarks
  /\ torn = {} /\ mixed = {}

Timestamps == 0 .. MaxTime

InputRuns == {[state |-> i.state, urgency |-> i.urgency, updated_at |-> t] :
                i \in RunInputs, t \in Timestamps}

\* A session as a reporter sends it: its runs and its own timestamp, no flag set.
Shell(runs, t) ==
  [runs |-> runs, rollup_state |-> "idle", rollup_urgency |-> "none",
   muted |-> FALSE, soloed |-> FALSE, unread |-> FALSE, updated_at |-> t]

-----------------------------------------------------------------------------
(* Reporter mutations: append, then project.                               *)

\* A faulty upsert that lets the reporter's object overwrite the Hub's flags.
PreserveNothing(e, id, session) == session

preserve_hub_owned_fields(e, id, session) ==
  IF id \notin Present(e) THEN session
  ELSE [session EXCEPT !.muted  = e.sessions[id].muted,
                       !.soloed = e.sessions[id].soloed,
                       !.unread = e.sessions[id].unread]

apply_session_upsert(id, runs, t) ==
  LET session == preserve_hub_owned_fields(engine, id, Shell(runs, t))
  IN  /\ job = Idle
      /\ logged' = upsert_session(logged, id, session)
      /\ engine' = upsert_session(engine, id, session)
      /\ torn' = torn \ {id}
      /\ UNCHANGED <<marks, session_durables, job, now, landed, mixed>>

\* The history ends for an id that no session is indexed for any more.
ForgetUnindexed ==
  landed' = [n \in NativeIds |->
    IF \E s \in SessionIds : n \in session_durables'[s] THEN landed[n] ELSE NoMark]

\* A faulty drop that forgets the marks and keeps the index.
DropMarksOnly(id) ==
  /\ marks' = drop_ids(marks, session_durables[id])
  /\ UNCHANGED <<session_durables, landed>>

drop_session_reclaim(id) ==
  /\ marks' = drop_ids(marks, session_durables[id])
  /\ session_durables' = [session_durables EXCEPT ![id] = {}]
  /\ ForgetUnindexed

\* The body of apply_session_remove, for a session that is there.
RemoveSession(id) ==
  /\ id \in Present(engine)
  /\ logged' = remove_session(logged, id)
  /\ engine' = remove_session(engine, id)
  /\ torn' = torn \ {id} /\ mixed' = mixed \ {id}
  /\ drop_session_reclaim(id)

apply_session_remove(id) ==
  /\ job = Idle
  /\ RemoveSession(id)
  /\ UNCHANGED <<job, now>>

apply_run_upsert(id, rid, run) ==
  /\ job = Idle
  /\ id \in Present(engine)
  /\ logged' = upsert_run(logged, id, rid, run)
  /\ engine' = upsert_run(engine, id, rid, run)
  /\ UNCHANGED <<marks, session_durables, job, now, landed, tears>>

\* The gate of apply_run_upsert_seq: an unknown session moves no mark, a
\* dropped delta moves nothing.
Admitted(id, rid, stamp) ==
  /\ job = Idle
  /\ id \in Present(engine)
  /\ applies(classify(marks, native_id[rid], stamp))
  /\ marks' = admit(marks, native_id[rid], stamp)
  /\ session_durables' = [session_durables EXCEPT ![id] = @ \cup {native_id[rid]}]

apply_run_upsert_seq(id, rid, run, stamp) ==
  /\ Admitted(id, rid, stamp)
  /\ logged' = upsert_run(logged, id, rid, run)
  /\ engine' = upsert_run(engine, id, rid, run)
  /\ landed' = [landed EXCEPT ![native_id[rid]] = stamp]
  /\ UNCHANGED <<job, now, tears>>

\* The append fails after the gate has moved: the delta is logged as dropped.
RunUpsertSeqNotAppended(id, rid, stamp) ==
  /\ "append" \in Faults
  /\ Admitted(id, rid, stamp)
  /\ UNCHANGED <<engine, logged, job, now, landed, tears>>

\* The body of apply_run_remove, for a run that is there: its mark goes with
\* it unless another run of the session shares the durable id.
RemoveRun(id, rid) ==
  LET n == native_id[rid]
      still_used == \E q \in RunIds : q # rid /\ native_id[q] = n /\ HasRun(engine, id, q)
  IN  /\ HasRun(engine, id, rid)
      /\ logged' = remove_run(logged, id, rid)
      /\ engine' = remove_run(engine, id, rid)
      /\ IF still_used THEN UNCHANGED <<marks, session_durables, landed>>
         ELSE /\ marks' = drop_ids(marks, {n})
              /\ session_durables' = [session_durables EXCEPT ![id] = @ \ {n}]
              /\ ForgetUnindexed

apply_run_remove(id, rid) ==
  /\ job = Idle
  /\ RemoveRun(id, rid)
  /\ UNCHANGED <<job, now, tears>>

-----------------------------------------------------------------------------
(* Face commands.  A flag change is projected first and then written row   *)
(* by row; focus changes memory whether or not its row is written.         *)

apply_flag_change(after) ==
  /\ job = Idle
  /\ after # engine
  /\ engine' = after
  /\ job' = Flags(Changed(engine, after), engine)
  /\ UNCHANGED <<logged, marks, session_durables, now, landed, tears>>

Mute(id)   == "mute"   \in Commands /\ apply_flag_change(apply_mute(engine, id))
Unmute(id) == "unmute" \in Commands /\ apply_flag_change(apply_unmute(engine, id))
Solo(id)   == "solo"   \in Commands /\ apply_flag_change(apply_solo(engine, id))

\* Rows are written in the insertion order of the sessions.
NextRow(id) == id \in job.rows /\ \A x \in job.rows : <<x, id>> \notin engine.older

\* The sessions whose mute or solo flag a change from e to f sets or clears.
FlagsMoved(e, f) ==
  {s \in Present(f) : e.sessions[s].muted # f.sessions[s].muted
                       \/ e.sessions[s].soloed # f.sessions[s].soloed}

AppendFlagRow(id) ==
  /\ job.kind = "flags"
  /\ NextRow(id)
  /\ logged' = upsert_session(logged, id, engine.sessions[id])
  /\ torn' = torn \ {id}
  /\ IF job.rows = {id}
     THEN job' = Idle /\ mixed' = mixed \ FlagsMoved(job.before, engine)
     ELSE job' = Flags(job.rows \ {id}, job.before) /\ UNCHANGED mixed
  /\ UNCHANGED <<engine, marks, session_durables, now, landed>>

\* The sessions whose new flags the change under way has already written.
HalfWritten ==
  IF job.kind = "flags" THEN FlagsMoved(job.before, engine) \ job.rows ELSE {}

\* A faulty rollback that keeps the speculative flags in memory.
NoRollback ==
  /\ "append" \in Faults
  /\ job.kind = "flags"
  /\ torn' = torn \cup HalfWritten
  /\ job' = Idle
  /\ UNCHANGED <<engine, logged, marks, session_durables, now, landed, mixed>>

\* Memory goes back to before; the rows already written stay in the log.
FlagRowNotAppended ==
  /\ "append" \in Faults
  /\ job.kind = "flags"
  /\ engine' = job.before
  /\ torn' = torn \cup HalfWritten
  /\ job' = Idle
  /\ UNCHANGED <<logged, marks, session_durables, now, landed, mixed>>

Focus(id) ==
  /\ "focus" \in Commands
  /\ job = Idle
  /\ apply_focus(engine, id) # engine
  /\ engine' = apply_focus(engine, id)
  /\ \/ logged' = upsert_session(logged, id, engine'.sessions[id]) /\ torn' = torn \ {id}
     \/ "append" \in Faults /\ UNCHANGED <<logged, torn>>
  /\ UNCHANGED <<marks, session_durables, job, now, landed, mixed>>

-----------------------------------------------------------------------------
(* The GC pass: reap dead runs past the grace, then sweep sessions past    *)
(* the ttl.  The victims are those of the clock reading the pass began at; *)
(* removing one leaves the others victims, so they are not listed.         *)

ReapVictim(id, rid) ==
  /\ HasRun(engine, id, rid)
  /\ engine.sessions[id].runs[rid].state = "dead"
  /\ engine.sessions[id].runs[rid].updated_at < now - Grace

SweepVictim(id) ==
  id \in Present(engine) /\ engine.sessions[id].updated_at < now - SessionTtl

ReapsDone == \A id \in SessionIds, rid \in RunIds : ~ReapVictim(id, rid)

\* A faulty pass that only starts when a session has expired.
GcBeginForSessions ==
  /\ job = Idle
  /\ \E id \in SessionIds : SweepVictim(id)
  /\ job' = Gc
  /\ UNCHANGED <<engine, logged, marks, session_durables, now, landed, tears>>

GcBegin ==
  /\ job = Idle
  /\ (\E id \in SessionIds : SweepVictim(id)) \/ ~ReapsDone
  /\ job' = Gc
  /\ UNCHANGED <<engine, logged, marks, session_durables, now, landed, tears>>

reap_dead(id, rid) ==
  /\ job = Gc
  /\ ReapVictim(id, rid)
  /\ RemoveRun(id, rid)
  /\ UNCHANGED <<job, now, tears>>

sweep_expired_sessions(id) ==
  /\ job = Gc
  /\ ReapsDone
  /\ SweepVictim(id)
  /\ RemoveSession(id)
  /\ UNCHANGED <<job, now>>

\* The pass ends when no victim is left, or at the first failed append.
GcEnd ==
  /\ job = Gc
  /\ \/ ReapsDone /\ \A id \in SessionIds : ~SweepVictim(id)
     \/ "append" \in Faults
  /\ job' = Idle
  /\ UNCHANGED <<engine, logged, marks, session_durables, now, landed, tears>>

-----------------------------------------------------------------------------
(* The environment: time passes, and the Hub process ends and starts anew. *)

Tick ==
  /\ job = Idle
  /\ now < MaxTime
  /\ now' = now + 1
  /\ UNCHANGED <<engine, logged, marks, session_durables, job, landed, tears>>

NativesOf(e, s) ==
  IF s \notin Present(e) THEN {}
  ELSE {native_id[r] : r \in {q \in RunIds : e.sessions[s].runs[q] # Absent}}

\* from_log: replay, an index rebuilt from the projection, no marks.  The process
\* may have ended between two rows of a flag change.
Restart ==
  /\ "restart" \in Faults
  /\ logged' = IF Persist THEN logged ELSE EmptyEngine
  /\ engine' = logged'
  /\ marks' = NoMarks
  /\ session_durables' = [s \in SessionIds |-> NativesOf(engine', s)]
  /\ job' = Idle
  /\ torn' = {}
  /\ mixed' = IF Persist THEN mixed \cup torn \cup HalfWritten ELSE {}
  /\ ForgetUnindexed
  /\ UNCHANGED now

Next ==
  \/ \E id \in SessionIds, t \in Timestamps, runs \in [RunIds -> InputRuns \cup {Absent}] :
       apply_session_upsert(id, runs, t)
  \/ \E id \in SessionIds : apply_session_remove(id)
  \/ \E id \in SessionIds, rid \in RunIds, run \in InputRuns : apply_run_upsert(id, rid, run)
  \/ \E id \in SessionIds, rid \in RunIds, run \in InputRuns, stamp \in Stamps :
       apply_run_upsert_seq(id, rid, run, stamp)
  \/ \E id \in SessionIds, rid \in RunIds, stamp \in Stamps :
       RunUpsertSeqNotAppended(id, rid, stamp)
  \/ \E id \in SessionIds, rid \in RunIds : apply_run_remove(id, rid)
  \/ \E id \in SessionIds : Mute(id)
  \/ \E id \in SessionIds : Unmute(id)
  \/ \E id \in SessionIds : Solo(id)
  \/ \E id \in SessionIds : AppendFlagRow(id)
  \/ FlagRowNotAppended
  \/ \E id \in SessionIds : Focus(id)
  \/ GcBegin
  \/ \E id \in SessionIds, rid \in RunIds : reap_dead(id, rid)
  \/ \E id \in SessionIds : sweep_expired_sessions(id)
  \/ GcEnd
  \/ Tick
  \/ Restart

Spec == Init /\ [][Next]_vars

\* The GC timer keeps firing, the store lock is handed out in FIFO order, a job
\* that holds it runs on, and no removal's append fails for ever.
Fairness ==
  /\ SF_vars(GcBegin)
  /\ WF_vars(\E id \in SessionIds : AppendFlagRow(id))
  /\ \A id \in SessionIds :
       /\ \A rid \in RunIds : SF_vars(reap_dead(id, rid))
       /\ SF_vars(sweep_expired_sessions(id))
  /\ WF_vars(GcEnd)

FairSpec == Spec /\ Fairness

-----------------------------------------------------------------------------
(* Properties.                                                             *)

\* Every variable holds what its Rust type can hold, and both projections list
\* their sessions in one order, each of them once (merge.rs, sessions and order).
TypeOK ==
  /\ engine \in Engine /\ Ordered(engine)
  /\ logged \in Engine /\ Ordered(logged)
  /\ marks \in Marks
  /\ session_durables \in [SessionIds -> SUBSET NativeIds]
  /\ job \in Jobs
  /\ now \in Timestamps
  /\ landed \in Marks
  /\ torn \subseteq SessionIds /\ mixed \subseteq SessionIds

Soloed(e) == {s \in Present(e) : e.sessions[s].soloed}

\* "Exactly one session is soloed at a time", and a soloed session is never
\* muted (merge.rs, apply_solo), across upserts, removals, rollbacks and replay.
\* A second one is seen only where a restart brought back a row of a solo that
\* was cut short, and only until a later command has changed its flags.
SoloIsExclusive ==
  /\ \A s \in Soloed(settled) : ~settled.sessions[s].muted
  /\ \A s, t \in Soloed(settled) : s = t \/ s \in mixed \/ t \in mixed

\* A session never starts to ping without getting its badge, whatever made it
\* ping, its own run, an unmute or another session's solo going away; and no path
\* leaves a badge on a session that is muted, out-soloed or no longer waiting
\* (merge.rs 84-91).
BadgesFollowPings ==
  [][\A s \in SessionIds :
       /\ Notifies(settled', s) /\ ~Notifies(settled, s) => settled'.sessions[s].unread
       /\ s \in Present(settled') /\ settled'.sessions[s].unread => Notifies(settled', s)]_settled

\* Both projections show a session waiting exactly while one of its runs waits,
\* and ask for an approval exactly while one of its runs does.
RollupShowsRuns ==
  \A e \in {engine, logged} : \A s \in Present(e) :
    /\ (e.sessions[s].rollup_state = "waiting") = ("waiting" \in RunStates(e.sessions[s].runs))
    /\ (e.sessions[s].rollup_urgency = "approval") = ("approval" \in RunUrgencies(e.sessions[s].runs))

\* Two entries that differ at most in the badge.
SameButUnread(a, b) ==
  IF a = Absent \/ b = Absent THEN a = b
  ELSE [a EXCEPT !.unread = FALSE] = [b EXCEPT !.unread = FALSE]

\* Two entries that show the same, however they are flagged.
SameButFlags(a, b) ==
  IF a = Absent \/ b = Absent THEN a = b
  ELSE SameButUnread([a EXCEPT !.muted = FALSE, !.soloed = FALSE],
                     [b EXCEPT !.muted = FALSE, !.soloed = FALSE])

\* What the log would restore is what memory holds, badges aside; while a flag
\* change is being written, the sessions without a row yet are as before it
\* ("memory and the log never diverge", persist.rs 541).  After a change that
\* failed at a later row, the sessions of its first rows differ in their flags,
\* until their next row.
LogKeepsUp ==
  /\ logged.older = engine.older
  /\ \A s \in SessionIds :
       LET held == (IF s \in job.rows THEN job.before ELSE engine).sessions[s]
       IN  /\ SameButFlags(logged.sessions[s], held)
           /\ s \notin torn => SameButUnread(logged.sessions[s], held)

\* A mark and its index entry exist only for a session that is there: sweeping,
\* dismissing or reaping leaves no dedup state behind (reclaim.rs, invariant 3).
MarksFollowSessions ==
  /\ \A n \in NativeIds : marks[n] # NoMark => \E s \in SessionIds : n \in session_durables[s]
  /\ \A s \in SessionIds : session_durables[s] # {} => s \in Present(engine)

\* A mark records "a successful apply" (reclaim.rs 167): the delta it stands
\* for reached the log.
MarksRecordApplies ==
  \A n \in NativeIds : marks[n] # NoMark => landed[n] = marks[n]

\* A stale or repeated delta never lands over a later one of its series
\* (reclaim.rs, invariants 1 and 2).
StaleNeverLands ==
  [][\A n \in NativeIds :
       landed[n] # NoMark /\ landed'[n] \notin {NoMark, landed[n]} => After(landed'[n], landed[n])]_landed

\* A dead run past its grace does not stay: the GC pass gets to it (D17).
DeadRunsAreReaped ==
  \A id \in SessionIds, rid \in RunIds : ReapVictim(id, rid) ~> ~ReapVictim(id, rid)

\* "A live but quiet session must not vanish" (lib.rs 115): the sweep takes no
\* session one of whose agents has reported within the ttl and is not dead.
SweepSparesLiveSessions ==
  [][\A id \in Present(engine) \ Present(engine') :
       job.kind = "gc" => \A rid \in RunIds :
         HasRun(engine, id, rid) =>
           \/ engine.sessions[id].runs[rid].state = "dead"
           \/ engine.sessions[id].runs[rid].updated_at < now - SessionTtl]_<<engine, job, now>>

\* The promise to faces: an inbox that changes one report, removal or command
\* at a time, and that a restart does not touch, but for the flags of a command
\* that was cut short.
InboxOf(e) ==
  [s \in SessionIds |->
     IF s \notin Present(e) THEN Absent
     ELSE [runs   |-> e.sessions[s].runs,
           muted  |-> e.sessions[s].muted,
           soloed |-> e.sessions[s].soloed]]

Inbox == INSTANCE FleetInbox WITH inbox <- InboxOf(settled), loose <- torn, Views <- Runs, Durable <- Persist

\* Absent is no entry of the inbox either.
ASSUME EntryIsNew == Absent \notin Inbox!Entry

ImplementsInbox == Inbox!Spec
=============================================================================
