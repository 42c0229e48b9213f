----------------------------- MODULE ReporterLink -----------------------------
(***************************************************************************)
(* A reporter and the Hub's view of its session: the driver loop of        *)
(* crates/fleet-reporter/src/reporter.rs over a link that breaks, and at   *)
(* the other end the gate of persist.rs.  A send succeeds when the frame   *)
(* is handed to the transport: frames under way are lost when the link     *)
(* breaks, or the Hub's task for the old connection still reads them after *)
(* the reporter has connected anew.                                        *)
(***************************************************************************)
EXTENDS ReporterCore

CONSTANTS
  NoSession,   \* stands for a session the Hub does not know
  Faults,      \* what the environment may do, of "break", "late", "hub", "crash", "dismiss"
  Interval,    \* heartbeat_interval
  MaxGap,      \* bound on the time between two ticks, outages included
  MaxTime,     \* bound on the clock
  MaxMoves,    \* bound on the commands and faults
  SocketRoom   \* the frames a socket buffers before a send has to wait

ASSUME LinkConstants ==
  /\ NoSession \notin Runs
  /\ Interval \in Nat /\ MaxGap \in Nat /\ MaxTime \in Nat
  /\ MaxMoves \in Nat /\ SocketRoom \in Nat \ {0}

VARIABLES
  core,        \* the reporter's core
  commands,    \* the channel of commands from its observers
  pc,          \* where the driver is: "connect", "register", "flush", "serve", "done"
  batch,       \* the drained deltas it is sending
  stopping,    \* shutdown_requested
  link,        \* the connection it holds: "up" or "broken"
  frames,      \* the frames on it
  late,        \* frames of the connection before, not yet read by the Hub
  shown,       \* the Hub's view of the session's runs, or NoSession
  marks,       \* the Hub's marks
  clock,       \* the time since the reporter's process started
  moves,       \* the commands and faults so far
  disturbed,   \* history: since a whole session was last sent, something but
               \* the frames of this connection has changed the Hub's view
  relaunched   \* history: the Hub's marks may be of an earlier process

driver == <<core, commands, pc, batch, stopping>>
net    == <<link, frames, late>>
hub    == <<shown, marks, disturbed, relaunched>>
env    == <<clock, moves>>
link_vars == <<driver, net, hub, env>>

LinkInit ==
  /\ core = NewCore
  /\ commands = <<[op |-> "session", at |-> 0]>>
  /\ pc = "connect" /\ batch = <<>> /\ stopping = FALSE
  /\ link = "broken" /\ frames = <<>> /\ late = <<>>
  /\ shown = NoSession /\ marks = NoMarks /\ disturbed = FALSE /\ relaunched = FALSE
  /\ clock = 0 /\ moves = 0

-----------------------------------------------------------------------------
(* The driver.                                                             *)

Stops(cmds) == \E i \in DOMAIN cmds : cmds[i].op = "stop"

\* Drain the core's buffer and send it, if there is anything.
FlushFrom(c) ==
  /\ core' = [c EXCEPT !.buffer = <<>>]
  /\ batch' = c.buffer
  /\ pc' = IF c.buffer # <<>> THEN "flush" ELSE IF stopping THEN "done" ELSE "serve"

\* A send on a broken link fails, and leads back to the connect loop.
SendFrame(msg) == link = "up" /\ Len(frames) < SocketRoom /\ frames' = Append(frames, msg)

ConnectFails ==
  /\ pc = "connect" /\ commands # <<>>
  /\ core' = apply_all(core, commands)
  /\ stopping' = (stopping \/ Stops(commands))
  /\ commands' = <<>>
  /\ UNCHANGED <<pc, batch, net, hub, env>>

ConnectSucceeds ==
  /\ pc = "connect"
  /\ link' = "up" /\ frames' = <<>>
  /\ pc' = "register"
  /\ UNCHANGED <<core, commands, batch, stopping, late, hub, env>>

\* What follows the registration: pending commands if it is to stop, the flush.
Registered ==
  /\ FlushFrom(IF stopping THEN apply_all(core, commands) ELSE core)
  /\ commands' = IF stopping THEN <<>> ELSE commands
  /\ UNCHANGED stopping

Register ==
  /\ pc = "register"
  /\ \/ core.registered /\ SendFrame(heartbeat_message(core)) /\ disturbed' = FALSE
     \/ ~core.registered /\ UNCHANGED <<frames, disturbed>>
  /\ Registered
  /\ UNCHANGED <<link, late, shown, marks, relaunched, env>>

RegisterFails ==
  /\ pc = "register" /\ core.registered /\ link = "broken"
  /\ pc' = "connect"
  /\ UNCHANGED <<core, commands, batch, stopping, net, hub, env>>

Flush ==
  /\ pc = "flush"
  /\ SendFrame(Head(batch))
  /\ batch' = Tail(batch)
  /\ pc' = IF Tail(batch) # <<>> THEN "flush" ELSE IF stopping THEN "done" ELSE "serve"
  /\ UNCHANGED <<core, commands, stopping, link, late, hub, env>>

FlushFails ==
  /\ pc = "flush" /\ link = "broken"
  /\ core' = [core EXCEPT !.buffer = requeue_unsent(@, batch)]
  /\ batch' = <<>>
  /\ pc' = "connect"
  /\ UNCHANGED <<commands, stopping, net, hub, env>>

Serve ==
  /\ pc = "serve" /\ commands # <<>>
  /\ commands' = Tail(commands)
  /\ IF Head(commands).op = "stop"
     THEN pc' = "done" /\ UNCHANGED <<core, batch>>
     ELSE FlushFrom(apply(core, Head(commands)))
  /\ UNCHANGED <<stopping, net, hub, env>>

\* A faulty tick that reaps nothing while there is a heartbeat to send.
OnTickWithoutReap ==
  /\ pc = "serve"
  /\ LET c == advance_to(core, clock) IN
       /\ c.registered /\ SendFrame(heartbeat_message(c)) /\ disturbed' = FALSE
       /\ FlushFrom(c)
  /\ UNCHANGED <<commands, stopping, link, late, shown, marks, relaunched, env>>

\* on_tick: the clock, the timeouts, the heartbeat, and the deltas of the dead.
OnTick ==
  /\ pc = "serve"
  /\ \E c \in reap_timeouts(advance_to(core, clock)) :
       /\ \/ c.registered /\ SendFrame(heartbeat_message(c)) /\ disturbed' = FALSE
          \/ ~c.registered /\ UNCHANGED <<frames, disturbed>>
       /\ FlushFrom(c)
  /\ UNCHANGED <<commands, stopping, link, late, shown, marks, relaunched, env>>

OnTickFails ==
  /\ pc = "serve" /\ core.registered /\ link = "broken"
  /\ core' \in reap_timeouts(advance_to(core, clock))
  /\ pc' = "connect"
  /\ UNCHANGED <<commands, batch, stopping, net, hub, env>>

-----------------------------------------------------------------------------
(* The Hub.                                                                *)

handle(msg) ==
  IF msg.type = "session.upsert" THEN shown' = msg.runs /\ UNCHANGED marks
  ELSE IF shown # NoSession /\ applies(classify(marks, msg.id, msg.stamp))
  THEN /\ shown' = [shown EXCEPT ![msg.id] = msg.state]
       /\ marks' = admit(marks, msg.id, msg.stamp)
  ELSE UNCHANGED <<shown, marks>>

Deliver ==
  /\ frames # <<>>
  /\ handle(Head(frames))
  /\ frames' = Tail(frames)
  /\ UNCHANGED <<driver, link, late, disturbed, relaunched, env>>

DeliverLate ==
  /\ late # <<>>
  /\ handle(Head(late))
  /\ late' = Tail(late)
  /\ disturbed' = TRUE
  /\ UNCHANGED <<driver, link, frames, relaunched, env>>

-----------------------------------------------------------------------------
(* The environment.                                                        *)

Move == moves < MaxMoves /\ moves' = moves + 1

\* An observer sends a command.  An exit is confirmed of a run that was
\* reported, and nothing follows a "stop".
Observe ==
  /\ Move
  /\ pc # "done" /\ ~stopping /\ ~Stops(commands)
  /\ \E cmd \in [op : {"stop"}, at : {clock}]
           \cup [op : {"alive", "exit"}, id : NativeIds, at : {clock}]
           \cup [op : {"run"}, id : NativeIds, state : States, at : {clock}] :
       /\ cmd.op = "exit" => core.known_runs[cmd.id] # NoRun
       /\ commands' = Append(commands, cmd)
  /\ UNCHANGED <<core, pc, batch, stopping, net, hub, clock>>

\* The link breaks.  The Hub loses what it has not read, or reads it later.
Break ==
  /\ "break" \in Faults /\ Move
  /\ link = "up"
  /\ link' = "broken" /\ frames' = <<>>
  /\ late' \in (IF "late" \in Faults THEN {<<>>, frames} ELSE {<<>>})
  /\ UNCHANGED <<driver, hub, clock>>

\* The Hub starts anew, from its log or with nothing, and with no marks.
HubRestart ==
  /\ "hub" \in Faults /\ Move
  /\ shown' \in {shown, NoSession}
  /\ marks' = NoMarks /\ relaunched' = FALSE
  /\ link' = "broken" /\ frames' = <<>> /\ late' = <<>>
  /\ UNCHANGED <<driver, disturbed, clock>>

\* The reporter's process ends and a new one registers the same session.
Crash ==
  /\ "crash" \in Faults /\ Move
  /\ core' = NewCore
  /\ commands' = <<[op |-> "session", at |-> 0]>>
  /\ pc' = "connect" /\ batch' = <<>> /\ stopping' = FALSE
  /\ link' = "broken" /\ frames' = <<>>
  /\ late' \in (IF "late" \in Faults THEN {<<>>, frames} ELSE {<<>>})
  /\ clock' = 0 /\ relaunched' = TRUE
  /\ UNCHANGED <<shown, marks, disturbed>>

\* A face dismisses a run, or the GC reaps it: it goes, and its mark with it.
Dismiss(n) ==
  /\ "dismiss" \in Faults /\ Move
  /\ shown # NoSession /\ shown[n] # NoRun
  /\ shown' = [shown EXCEPT ![n] = NoRun]
  /\ marks' = drop_ids(marks, {n})
  /\ disturbed' = TRUE
  /\ UNCHANGED <<driver, net, relaunched, clock>>

\* A face dismisses the session, or the GC sweeps it, with all its marks.
DismissSession ==
  /\ "dismiss" \in Faults /\ Move
  /\ shown # NoSession
  /\ shown' = NoSession
  /\ marks' = NoMarks
  /\ disturbed' = TRUE
  /\ UNCHANGED <<driver, net, relaunched, clock>>

\* While it serves, the driver reads its commands and ticks when a tick is due.
Pass ==
  /\ clock < MaxTime
  /\ \/ pc = "serve" /\ commands = <<>> /\ clock - core.now < Interval
     \/ pc = "connect" /\ clock - core.now < MaxGap
  /\ clock' = clock + 1
  /\ UNCHANGED <<driver, net, hub, moves>>

LinkNext ==
  \/ ConnectFails \/ ConnectSucceeds \/ Register \/ RegisterFails
  \/ Flush \/ FlushFails \/ Serve \/ OnTick \/ OnTickFails
  \/ Deliver \/ DeliverLate
  \/ Observe \/ Break \/ HubRestart \/ Crash
  \/ (\E n \in NativeIds : Dismiss(n)) \/ DismissSession
  \/ Pass

LinkSpec == LinkInit /\ [][LinkNext]_link_vars

\* The driver's loop runs, a connection succeeds in the end, the ticker fires
\* as often as commands arrive (select! chooses at random among what is ready),
\* and the Hub reads its sockets.  Faults and the passing of time are not fair:
\* ticks go on when the clock is at its bound.
LinkFairness ==
  /\ WF_link_vars(ConnectSucceeds)
  /\ WF_link_vars(Register \/ RegisterFails)
  /\ WF_link_vars(Flush \/ FlushFails)
  /\ SF_link_vars(Serve)
  /\ SF_link_vars(OnTick \/ OnTickFails)
  /\ WF_link_vars(Deliver)
  /\ WF_link_vars(DeliverLate)

LinkFairSpec == LinkSpec /\ LinkFairness

-----------------------------------------------------------------------------
(* Properties.                                                             *)

\* Every variable holds what its Rust type can hold, the queues with a bound
\* keep it, and outside a flush the core holds no delta it should have sent.
LinkTypeOK ==
  /\ core \in Core /\ Len(core.buffer) <= Capacity
  /\ commands \in Seq(ReporterCommand)
  /\ pc \in {"connect", "register", "flush", "serve", "done"}
  /\ batch \in Seq(ClientMessage)
  /\ stopping \in BOOLEAN /\ disturbed \in BOOLEAN /\ relaunched \in BOOLEAN
  /\ link \in {"up", "broken"}
  /\ frames \in Seq(ClientMessage) /\ Len(frames) <= SocketRoom
  /\ late \in Seq(ClientMessage)
  /\ shown \in Runs \cup {NoSession}
  /\ marks \in Marks
  /\ clock \in 0 .. MaxTime /\ moves \in 0 .. MaxMoves

\* The Hub's view after it has read some frames.
Reads(view, msg) ==
  IF msg.type = "session.upsert" THEN [view EXCEPT !.shown = msg.runs]
  ELSE IF view.shown # NoSession /\ applies(classify(view.marks, msg.id, msg.stamp))
  THEN [shown |-> [view.shown EXCEPT ![msg.id] = msg.state],
        marks |-> admit(view.marks, msg.id, msg.stamp)]
  ELSE view

ReadAll(view, msgs) ==
  LET after[k \in 0 .. Len(msgs)] ==
        IF k = 0 THEN view ELSE Reads(after[k - 1], msgs[k])
  IN  after[Len(msgs)]

HubView == [shown |-> shown, marks |-> marks]

ViewAfter(msgs) == ReadAll(HubView, msgs).shown

Agrees == ViewAfter(frames \o batch) = core.known_runs

OnLiveLink ==
  /\ core.registered /\ link = "up" /\ pc \in {"flush", "serve", "done"}
  /\ ~disturbed /\ late = <<>>

\* "No loss, no reorder" (reporter.rs 20): once registered on a live link, what
\* the Hub shows, what is on the wire and what is being sent add up to what the
\* reporter knows, whatever was lost with earlier links.  A relaunched reporter
\* is left to Converges.
NothingIsLost == OnLiveLink /\ ~relaunched => Agrees

\* With clean_start "the Hub wipes any prior series for the durable id"
\* (reporter.rs 61), without it the series goes on (identity.rs 11): either way
\* what a relaunched reporter sends counts.  The code breaks this.
RelaunchIsHeard == OnLiveLink => Agrees

\* A reporter that has stopped had nothing left to send (reporter.rs 497-501).
StopsWhenDelivered == pc = "done" => batch = <<>> /\ core.buffer = <<>>

\* Whether the link lives, breaks or is given up: types, buffers within their
\* limit, and every report on its way or at the Hub.
LinkInv == LinkTypeOK /\ NothingIsLost /\ StopsWhenDelivered

\* When faults and commands end, the Hub comes to show what the reporter knows,
\* after losses, restarts of either, late frames and dismissals.
Converges == <>[](pc = "done" \/ shown = core.known_runs)

\* The core's clock stands still between two ticks and while the link is down.
Lag == IF MaxGap > Interval THEN MaxGap ELSE Interval

\* A run times out only if its agent has sent no sign of life for the timeout,
\* less what the core's clock may be behind (reporter.rs 27).
OnlySilenceKills ==
  [][\A n \in NativeIds :
       timed_out(core.liveness[n], core'.now) =>
         clock - core.liveness[n].sign > Timeout - Lag]_core

\* A run whose agent has gone silent does not stay as it was: at the time it
\* should have timed out the driver reaps it in the end, whatever breaks and
\* whatever the reporter itself sends meanwhile (reporter.rs 596-602).
SilentRunsDie ==
  \A n \in NativeIds :
    timed_out(core.liveness[n], clock) ~> (pc = "done" \/ ~timed_out(core.liveness[n], clock))
=============================================================================
