----------------------------- MODULE ReporterCore -----------------------------
(***************************************************************************)
(* The reporter's decision core, ReporterCore of                           *)
(* crates/fleet-reporter/src/reporter.rs, with the parts it owns: the      *)
(* delta buffer, the identity ledger and the liveness trackers.  It does   *)
(* no I/O, so it is a record and operators on it.                          *)
(*                                                                         *)
(* A run is known by its durable id: the adapters mint one run id for each *)
(* native id.  A run's value is its state.  Epochs are 0 throughout: a     *)
(* reporter declares a durable id when it first sees it, and both kinds of *)
(* declaration begin at epoch 0.  The buffer's own sequence numbers only   *)
(* say its order, which a sequence has anyway.                             *)
(***************************************************************************)
EXTENDS ReclaimTable, Sequences, FiniteSets

CONSTANTS
  States,      \* the states runs are reported in, "dead" among them
  NoRun,       \* stands for a run that is not there
  NoTracker,   \* stands for a tracker that is not there
  Capacity,    \* of the delta buffer
  Timeout      \* liveness_timeout

\* sign: history, when the last sign of life the tracker has seen was sent.
Tracker == [last_seen : Nat, confirmed_exit : BOOLEAN, sign : Nat]

ASSUME CoreConstants ==
  /\ "dead" \in States /\ NoRun \notin States
  /\ NoTracker \notin Tracker
  /\ IsFiniteSet(NativeIds)
  /\ Capacity \in Nat \ {0} /\ Timeout \in Nat

Runs   == [NativeIds -> States \cup {NoRun}]
NoRuns == [n \in NativeIds |-> NoRun]

\* The messages of a reporter.  Registration and heartbeat are a whole session.
SessionUpsert(runs)         == [type |-> "session.upsert", runs |-> runs]
RunUpsert(n, state, stamp)  == [type |-> "run.upsert", id |-> n, state |-> state, stamp |-> stamp]

ClientMessage ==
  [type : {"session.upsert"}, runs : Runs]
    \cup [type : {"run.upsert"}, id : NativeIds, state : States, stamp : Stamp]

\* The commands of its observers, with the time each was sent at.
ReporterCommand ==
  [op : {"session", "stop"}, at : Nat]
    \cup [op : {"alive", "exit"}, id : NativeIds, at : Nat]
    \cup [op : {"run"}, id : NativeIds, state : States, at : Nat]

Core ==
  [registered : BOOLEAN,                              \* registered_session
   known_runs : Runs,
   buffer     : Seq(ClientMessage),
   last_seq   : [NativeIds -> Nat],                   \* the identity ledger
   liveness   : [NativeIds -> Tracker \cup {NoTracker}],
   now        : Nat]                                  \* time of the last tick

NewCore ==
  [registered |-> FALSE,
   known_runs |-> NoRuns,
   buffer     |-> <<>>,
   last_seq   |-> [n \in NativeIds |-> 0],
   liveness   |-> [n \in NativeIds |-> NoTracker],
   now        |-> 0]

-----------------------------------------------------------------------------

\* At capacity the oldest deltas go.
newest(q) == IF Len(q) <= Capacity THEN q ELSE SubSeq(q, Len(q) - Capacity + 1, Len(q))

push(buffer, msg) == newest(Append(buffer, msg))

\* The unsent tail goes back before anything buffered since.
requeue_unsent(buffer, tail) == newest(tail \o buffer)

\* A faulty ledger that gives the seq it gave last.
StampRepeats(c, n) == [epoch |-> 0, seq |-> IF c.last_seq[n] = 0 THEN 1 ELSE c.last_seq[n]]

stamp(c, n) == [epoch |-> 0, seq |-> c.last_seq[n] + 1]

\* Remember the run and buffer a stamped delta of it.
Report(c, n, state) ==
  [c EXCEPT !.known_runs[n] = state,
            !.last_seq[n]   = @ + 1,
            !.buffer        = push(@, RunUpsert(n, state, stamp(c, n)))]

\* A run's first upsert makes its tracker, last seen at time zero.
observed(c, n) ==
  IF c.liveness[n] = NoTracker THEN [last_seen |-> 0, confirmed_exit |-> FALSE, sign |-> 0]
  ELSE c.liveness[n]

alive(tracker, now, at) == [tracker EXCEPT !.last_seen = now, !.sign = at]

apply(c, cmd) ==
  CASE cmd.op = "session" ->
         [c EXCEPT !.registered = TRUE, !.buffer = push(@, SessionUpsert(NoRuns))]
    [] cmd.op = "run" ->
         LET t == IF cmd.state = "dead"
                  THEN [observed(c, cmd.id) EXCEPT !.confirmed_exit = TRUE]
                  ELSE alive(observed(c, cmd.id), c.now, cmd.at)
         IN  Report([c EXCEPT !.liveness[cmd.id] = t], cmd.id, cmd.state)
    [] cmd.op = "alive" ->
         IF c.liveness[cmd.id] = NoTracker THEN c
         ELSE [c EXCEPT !.liveness[cmd.id] = alive(@, c.now, cmd.at)]
    [] cmd.op = "exit" ->
         Report(IF c.liveness[cmd.id] = NoTracker THEN c
                ELSE [c EXCEPT !.liveness[cmd.id].confirmed_exit = TRUE],
                cmd.id, "dead")
    [] cmd.op = "stop" -> c

\* pump_pending: every command that is there.
apply_all(c, cmds) ==
  LET after[k \in 0 .. Len(cmds)] ==
        IF k = 0 THEN c ELSE apply(after[k - 1], cmds[k])
  IN  after[Len(cmds)]

\* A faulty verdict that lets a run time out as the window ends.
TimedOutEarly(tracker, now) ==
  /\ tracker # NoTracker
  /\ ~tracker.confirmed_exit
  /\ now - tracker.last_seen >= Timeout

\* evaluate: a timeout, which a confirmed exit is not.
timed_out(tracker, now) ==
  /\ tracker # NoTracker
  /\ ~tracker.confirmed_exit
  /\ now - tracker.last_seen > Timeout

\* Runs that time out together lose their trackers, and a delta of each is
\* buffered in the map's order: any.
reap_timeouts(c) ==
  LET dead   == {n \in NativeIds : timed_out(c.liveness[n], c.now)}
      places == 1 .. Cardinality(dead)
      orders == {f \in [places -> dead] : \A n \in dead : \E i \in places : f[i] = n}
      deaths(order) == [i \in places |-> RunUpsert(order[i], "dead", stamp(c, order[i]))]
  IN  {[c EXCEPT !.known_runs = [n \in NativeIds |-> IF n \in dead THEN "dead" ELSE @[n]],
                 !.last_seq   = [n \in NativeIds |-> IF n \in dead THEN @[n] + 1 ELSE @[n]],
                 !.liveness   = [n \in NativeIds |-> IF n \in dead THEN NoTracker ELSE @[n]],
                 !.buffer     = newest(@ \o deaths(order))] : order \in orders}

advance_to(c, t) == [c EXCEPT !.now = IF t >= @ THEN t ELSE @]

\* A faulty heartbeat that sends the session as it was registered.
HeartbeatIsShell(c) == SessionUpsert(NoRuns)

heartbeat_message(c) == SessionUpsert(c.known_runs)
=============================================================================
