----------------------------- MODULE HookReceiver -----------------------------
(***************************************************************************)
(* The hook receiver of fleet-reporter --serve and the adapters it drives: *)
(* serve.rs, machine.rs, claude.rs (S15), claude_infer.rs (S16), codex.rs. *)
(*                                                                         *)
(* Every hook of an agent is a line on a connection of its own.  A task    *)
(* takes the receiver's lock, feeds the line to the adapters, releases the *)
(* lock and then sends the commands that came out, with no await in        *)
(* between: a worker thread of the runtime that has taken the lock does    *)
(* nothing else until its commands are sent, but other workers go on.      *)
(*                                                                         *)
(* No hook of Claude's native UI says that it waits for an approval.  S16  *)
(* infers it: a PreToolUse with no activity for a window, unless the       *)
(* transcript says that the tool has its result.  S15 and S16 are fed the  *)
(* same lines under one lock, so they mint the same run ids, and a run is  *)
(* known by its agent's id here.                                           *)
(*                                                                         *)
(* The agents are the environment.  They may have been at work before the  *)
(* receiver was started.  A Claude session asks for tools, at most         *)
(* Parallel at a time; a tool that needs an approval is one that is never  *)
(* answered.  Its transcript lags behind.                                  *)
(***************************************************************************)
EXTENDS Integers, FiniteSets, Sequences

CONSTANTS
  Sessions,    \* Claude sessions
  Threads,     \* Codex threads
  Tools,       \* ids of tool uses
  NoTool,      \* stands for a tool use without an id
  Workers,     \* worker threads of the runtime
  Parallel,    \* tools a session may have under way
  IdsCarried,  \* whether PreToolUse hooks carry tool_use_id
  Room,        \* hooks under way to the receiver
  Lines,       \* bound on the hooks of a behaviour
  Window       \* debounce_ms

ASSUME ReceiverConstants ==
  /\ IsFiniteSet(Sessions) /\ Sessions \cap Threads = {}
  /\ NoTool \notin Tools
  /\ Parallel \in Nat /\ IdsCarried \in BOOLEAN
  /\ Room \in Nat \ {0} /\ Lines \in Nat /\ Window \in Nat \ {0}

Off == -1     \* no PreToolUse is armed

VARIABLES
  agent,       \* session -> what Claude does
  asked,       \* session -> tools it has asked for
  answered,    \* session -> those of them that are over
  transcript,  \* session -> what its transcript says of them
  wire,        \* hook lines sent and not yet read
  lines,       \* how many have been sent
  claude,      \* session -> S15 machine
  infer,       \* session -> S16 machine
  codex,       \* thread -> its machine
  sending,     \* worker -> commands it has still to send
  reported,    \* session or thread -> state in the last upsert sent
  \* history, which no action reads:
  holder,      \* session or thread -> the worker that has its newest upsert, till sent
  overtaken,   \* those whose last upsert sent was older than one sent before
  cutShort     \* session -> tools the machine watched when another line cleared it

receiver == <<claude, infer, codex>>
agents   == <<agent, asked, answered, transcript>>
history  == <<holder, overtaken, cutShort>>
vars     == <<agents, wire, lines, receiver, sending, reported, history>>

Ids == Sessions \cup Threads

\* A machine nobody has heard of yet is "none".
ClaudeState == {"none", "idle", "working", "done", "dead"}
InferState  == ClaudeState \cup {"waiting"}
CodexState  == {"none", "idle", "working", "waiting", "done"}

ClaudeKind == {"SessionStart", "UserPromptSubmit", "PreToolUse", "PostToolUse", "Stop",
               "StopContinues", "SubagentStop", "PreCompact", "SessionEnd", "Other", "drift"}
CodexKind  == {"SessionStart", "UserPromptSubmit", "PreToolUse", "PermissionRequest",
               "PostToolUse", "Stop", "StopContinues", "PreCompact", "Other"}

Frame == [id : Sessions, kind : ClaudeKind, tool : Tools \cup {NoTool}]
           \cup [id : Threads, kind : CodexKind, tool : {NoTool}]

\* The commands for the reporter: UpsertRun and Liveness.
Upsert(id, state) == [op |-> "run", id |-> id, state |-> state]
Alive(id)         == [op |-> "alive", id |-> id, state |-> "none"]
Command           == [op : {"run", "alive"}, id : Ids, state : InferState]

\* armed: how long ago armed_since was, as far as the window tells it.
Machine == [state   : InferState,
            armed   : {Off} \cup 0 .. Window,
            waiting : BOOLEAN,                        \* inferred_waiting
            tool    : Tools \cup {NoTool}]            \* armed_tool_use_id

Transcript == [uses : SUBSET Tools, last : Tools \cup {NoTool}, results : SUBSET Tools]

Running(s) == asked[s] \ answered[s]

Init ==
  /\ agent \in [Sessions -> {"off", "ready", "turn"}]
  /\ asked = [s \in Sessions |-> {}]
  /\ answered = [s \in Sessions |-> {}]
  /\ transcript = [s \in Sessions |-> [uses |-> {}, last |-> NoTool, results |-> {}]]
  /\ wire = <<>> /\ lines = 0
  /\ claude = [s \in Sessions |-> "none"]
  /\ infer = [s \in Sessions |->
       [state |-> "none", armed |-> Off, waiting |-> FALSE, tool |-> NoTool]]
  /\ codex = [x \in Threads |-> "none"]
  /\ sending = [w \in Workers |-> <<>>]
  /\ reported = [id \in Ids |-> "none"]
  /\ holder = [id \in Ids |-> {}]
  /\ overtaken = {}
  /\ cutShort = [s \in Sessions |-> {}]

-----------------------------------------------------------------------------
(* The adapters.                                                           *)

\* commands_for: a change is an upsert, other activity a sign of life.
commands_for(id, state, changed, liveness) ==
  IF changed THEN <<Upsert(id, state)>> ELSE IF liveness THEN <<Alive(id)>> ELSE <<>>

\* ensure: the first line of an id makes its machine, which begins idle.
ensure(state) == IF state = "none" THEN "idle" ELSE state

\* S15.  It never waits; a Stop that continues says nothing to it.
ClaudeApply(state, kind) ==
  CASE kind \in {"UserPromptSubmit", "PreToolUse"}     -> "working"
    [] kind = "Stop"                                   -> "done"
    [] kind = "SessionEnd"                             -> "dead"
    [] kind = "SessionStart" /\ ensure(state) = "dead" -> "idle"
    [] OTHER                                           -> ensure(state)

ClaudeCommands(s, state, kind) ==
  LET after == ClaudeApply(state, kind)
  IN  commands_for(s, after, after # ensure(state),
        kind \in {"UserPromptSubmit", "PreToolUse", "PostToolUse",
                  "StopContinues", "SubagentStop", "PreCompact"})

\* clear_inference.
Cleared(m) == [m EXCEPT !.armed = Off, !.waiting = FALSE, !.tool = NoTool]

\* A faulty S16 to which a Stop that continues ends the turn.
ContinuationEndsTurn(m, kind, tool) ==
  CASE kind = "PreToolUse" -> [state |-> "working", armed |-> 0, waiting |-> FALSE, tool |-> tool]
    [] kind = "UserPromptSubmit" -> [Cleared(m) EXCEPT !.state = "working"]
    [] kind \in {"Stop", "StopContinues"} -> [Cleared(m) EXCEPT !.state = "done"]
    [] kind = "SessionEnd" -> [m EXCEPT !.state = "dead", !.armed = Off, !.waiting = FALSE]
    [] kind = "SessionStart" /\ m.state = "dead" -> [m EXCEPT !.state = "idle", !.armed = Off]
    [] kind = "PostToolUse" -> IF m.waiting THEN [Cleared(m) EXCEPT !.state = "working"] ELSE Cleared(m)
    [] OTHER -> m

\* S16, of a machine that is there.
InferApply(m, kind, tool) ==
  CASE kind = "PreToolUse" ->
         [state |-> "working", armed |-> 0, waiting |-> FALSE, tool |-> tool]
    [] kind \in {"UserPromptSubmit", "StopContinues"} ->
         [Cleared(m) EXCEPT !.state = "working"]
    [] kind = "Stop" ->
         [Cleared(m) EXCEPT !.state = "done"]
    [] kind = "SessionEnd" ->
         [m EXCEPT !.state = "dead", !.armed = Off, !.waiting = FALSE]
    [] kind = "SessionStart" /\ m.state = "dead" ->
         [m EXCEPT !.state = "idle", !.armed = Off, !.waiting = FALSE]
    [] kind = "PostToolUse" ->
         IF m.waiting THEN [Cleared(m) EXCEPT !.state = "working"] ELSE Cleared(m)
    [] OTHER -> m

\* A faulty report: a tool that is done is a sign of life, whatever it resolves.
PostIsLiveness(s, m, kind, tool) ==
  LET after == InferApply(m, kind, tool)
  IN  commands_for(s, after.state, kind # "PostToolUse" /\ after.state # m.state,
        kind \in {"UserPromptSubmit", "PreToolUse", "PostToolUse",
                  "StopContinues", "SubagentStop", "PreCompact"})

\* Which changes S16 reports: of the state, or an inferred waiting resolved.
InferCommands(s, m, kind, tool) ==
  LET after == InferApply(m, kind, tool)
  IN  commands_for(s, after.state,
        \/ after.state # m.state
        \/ m.waiting /\ ~after.waiting /\ kind # "SessionEnd",
        kind \in {"UserPromptSubmit", "PreToolUse", "PostToolUse",
                  "StopContinues", "SubagentStop", "PreCompact"})

\* Codex says itself that it waits.  A pending approval is the waiting state.
CodexApply(state, kind) ==
  CASE kind \in {"UserPromptSubmit", "PreToolUse", "StopContinues"} -> "working"
    [] kind = "PermissionRequest"                                   -> "waiting"
    [] kind = "Stop"                                                -> "done"
    [] OTHER                                                        -> ensure(state)

CodexCommands(x, state, kind) ==
  LET after == CodexApply(state, kind)
  IN  commands_for(x, after, after # ensure(state) \/ kind = "PermissionRequest",
        kind \notin {"Stop", "Other"})

-----------------------------------------------------------------------------
(* The agents.                                                             *)

Hook(id, kind, tool) ==
  /\ Len(wire) < Room /\ lines < Lines
  /\ lines' = lines + 1
  /\ wire' = Append(wire, [id |-> id, kind |-> kind, tool |-> tool])
  /\ UNCHANGED <<receiver, sending, reported, history>>

Turns(s, from, to, kind) ==
  /\ agent[s] = from
  /\ agent' = [agent EXCEPT ![s] = to]
  /\ Hook(s, kind, NoTool)
  /\ UNCHANGED <<asked, answered, transcript>>

Start(s)      == Turns(s, "off", "ready", "SessionStart")
Prompt(s)     == Turns(s, "ready", "turn", "UserPromptSubmit")
StopTurn(s)   == Running(s) = {} /\ Turns(s, "turn", "ready", "Stop")
Continue(s)   == Running(s) = {} /\ Turns(s, "turn", "turn", "StopContinues")
Note(s, kind) == kind \in {"SubagentStop", "PreCompact", "Other", "drift"}
                   /\ Turns(s, "turn", "turn", kind)

\* A session closes from wherever it is; its tools are over.
End(s) ==
  /\ agent[s] # "off"
  /\ agent' = [agent EXCEPT ![s] = "off"]
  /\ answered' = [answered EXCEPT ![s] = asked[s]]
  /\ Hook(s, "SessionEnd", NoTool)
  /\ UNCHANGED <<asked, transcript>>

AskTool(s, t) ==
  /\ agent[s] = "turn" /\ t \notin asked[s]
  /\ Cardinality(Running(s)) < Parallel
  /\ asked' = [asked EXCEPT ![s] = @ \cup {t}]
  /\ Hook(s, "PreToolUse", IF IdsCarried THEN t ELSE NoTool)
  /\ UNCHANGED <<agent, answered, transcript>>

\* A tool ends.  The native UI has no PostToolUse hook.
ToolEnds(s, t) ==
  /\ t \in Running(s)
  /\ answered' = [answered EXCEPT ![s] = @ \cup {t}]
  /\ \/ Hook(s, "PostToolUse", t)
     \/ UNCHANGED <<wire, lines, receiver, sending, reported, history>>
  /\ UNCHANGED <<agent, asked, transcript>>

WriteUse(s, t) ==
  /\ t \in asked[s] \ transcript[s].uses
  /\ transcript' = [transcript EXCEPT ![s].uses = @ \cup {t}, ![s].last = t]
  /\ UNCHANGED <<agent, asked, answered, wire, lines, receiver, sending, reported, history>>

WriteResult(s, t) ==
  /\ t \in (answered[s] \cap transcript[s].uses) \ transcript[s].results
  /\ transcript' = [transcript EXCEPT ![s].results = @ \cup {t}]
  /\ UNCHANGED <<agent, asked, answered, wire, lines, receiver, sending, reported, history>>

\* Of a Codex thread nothing is known but its hooks.
CodexHook(x, kind) == Hook(x, kind, NoTool) /\ UNCHANGED agents

-----------------------------------------------------------------------------
(* The receiver.                                                           *)

\* Whose upserts are among these commands.
Upserted(commands) == {commands[i].id : i \in {k \in 1 .. Len(commands) : commands[k].op = "run"}}

\* The upserts that a worker has just computed are now the newest.
NowNewest(w, commands) ==
  [id \in Ids |-> IF id \in Upserted(commands) THEN {w} ELSE holder[id]]

\* The tool an S16 machine has armed or infers to wait, if any.
Watched(m) == IF m.armed # Off \/ m.waiting THEN {m.tool} ELSE {}

Remaining(i) == SubSeq(wire, 1, i - 1) \o SubSeq(wire, i + 1, Len(wire))

\* serve_hook_connection and process, up to the end of the lock: of the lines
\* that have come, any task may be first.
Process(w, i) ==
  LET f == wire[i]
  IN  /\ sending[w] = <<>>
      /\ wire' = Remaining(i)
      /\ IF f.kind = "drift" THEN UNCHANGED <<receiver, sending, cutShort>>
         ELSE IF f.id \in Sessions THEN
           LET m == [infer[f.id] EXCEPT !.state = ensure(@)]
           IN  /\ claude' = [claude EXCEPT ![f.id] = ClaudeApply(@, f.kind)]
               /\ infer' = [infer EXCEPT ![f.id] = InferApply(m, f.kind, f.tool)]
               /\ sending' = [sending EXCEPT ![w] =
                    ClaudeCommands(f.id, claude[f.id], f.kind)
                      \o InferCommands(f.id, m, f.kind, f.tool)]
               /\ cutShort' = [cutShort EXCEPT ![f.id] =
                    @ \cup (Watched(infer[f.id]) \ Watched(infer'[f.id]))]
               /\ UNCHANGED codex
         ELSE
           /\ codex' = [codex EXCEPT ![f.id] = CodexApply(@, f.kind)]
           /\ sending' = [sending EXCEPT ![w] = CodexCommands(f.id, codex[f.id], f.kind)]
           /\ UNCHANGED <<claude, infer, cutShort>>
      /\ holder' = NowNewest(w, sending'[w])
      /\ UNCHANGED <<agents, lines, reported, overtaken>>

\* Time passes for the machines that are armed.
Elapse ==
  /\ \E s \in Sessions : infer[s].armed \in 0 .. Window - 1
  /\ infer' = [s \in Sessions |->
       IF infer[s].armed \in 0 .. Window - 1 THEN [infer[s] EXCEPT !.armed = @ + 1]
       ELSE infer[s]]
  /\ UNCHANGED <<agents, wire, lines, claude, codex, sending, reported, history>>

\* A faulty check that looks at the last tool of the transcript.
VerdictOnLast(s) ==
  LET t == transcript[s].last
  IN  CASE t = NoTool                     -> "Unknown"
        [] t \in transcript[s].results    -> "Resolved"
        [] OTHER                          -> "Stuck"

\* A faulty check that takes a tool it does not find for resolved.
UnknownVetoes(s) ==
  LET t == IF infer[s].tool = NoTool THEN transcript[s].last ELSE infer[s].tool
  IN  IF t \in transcript[s].uses \ transcript[s].results THEN "Stuck" ELSE "Resolved"

\* corroborate_blob: of the tool that was armed, or else of the last one.
Verdict(s) ==
  LET t == IF infer[s].tool = NoTool THEN transcript[s].last ELSE infer[s].tool
  IN  CASE t \notin transcript[s].uses    -> "Unknown"
        [] t \in transcript[s].results    -> "Resolved"
        [] OTHER                          -> "Stuck"

\* The sessions whose debounce has run out.
pending_fires == {s \in Sessions : infer[s].armed = Window}

Fired(m) == [m EXCEPT !.state = "waiting", !.armed = Off, !.waiting = TRUE]

\* The ways a map of these sessions may be walked.
Orders(S) == {q \in [1 .. Cardinality(S) -> S] : \A s \in S : \E i \in DOMAIN q : q[i] = s}

\* infer_tick_loop and tick_at, up to the end of the lock.  Of the transcripts
\* some can be read; a result in one disarms its session, and the others fire,
\* in the order of the map.
Tick(w, readable) ==
  LET vetoed == {s \in pending_fires \cap readable : Verdict(s) = "Resolved"}
      fired  == pending_fires \ vetoed
  IN  /\ sending[w] = <<>>
      /\ pending_fires # {}
      /\ infer' = [s \in Sessions |->
           IF s \in vetoed THEN Cleared(infer[s])
           ELSE IF s \in fired THEN Fired(infer[s]) ELSE infer[s]]
      /\ \E order \in Orders(fired) :
           sending' = [sending EXCEPT ![w] =
             [i \in 1 .. Cardinality(fired) |-> Upsert(order[i], "waiting")]]
      /\ holder' = NowNewest(w, sending'[w])
      /\ UNCHANGED <<agents, wire, lines, claude, codex, reported, overtaken, cutShort>>

\* handle.send, after the lock: another worker may have sent a newer upsert of
\* the same run before.
Send(w) ==
  /\ sending[w] # <<>>
  /\ LET cmd  == Head(sending[w])
         last == holder[cmd.id] = {w} /\ cmd.id \notin Upserted(Tail(sending[w]))
     IN  IF cmd.op = "run" THEN
           /\ reported' = [reported EXCEPT ![cmd.id] = cmd.state]
           /\ holder' = [holder EXCEPT ![cmd.id] = IF last THEN {} ELSE @]
           /\ overtaken' = IF holder[cmd.id] = {} THEN overtaken \cup {cmd.id}
                           ELSE overtaken \ {cmd.id}
         ELSE UNCHANGED <<reported, holder, overtaken>>
  /\ sending' = [sending EXCEPT ![w] = Tail(@)]
  /\ UNCHANGED <<agents, wire, lines, receiver, cutShort>>

Next ==
  \/ \E s \in Sessions :
       \/ Start(s) \/ Prompt(s) \/ StopTurn(s) \/ Continue(s) \/ End(s)
       \/ \E kind \in ClaudeKind : Note(s, kind)
       \/ \E t \in Tools : AskTool(s, t) \/ ToolEnds(s, t) \/ WriteUse(s, t) \/ WriteResult(s, t)
  \/ \E x \in Threads, kind \in CodexKind : CodexHook(x, kind)
  \/ \E w \in Workers :
       \/ \E i \in 1 .. Len(wire) : Process(w, i)
       \/ \E readable \in SUBSET Sessions : Tick(w, readable)
       \/ Send(w)
  \/ Elapse

Spec == Init /\ [][Next]_vars

\* The runtime polls every task that is ready and the mutex is first come,
\* first served, so no task waits for ever: the oldest line is read in the end,
\* and the timer goes on.  What agents do is not fair.
Fairness ==
  /\ WF_vars(Elapse)
  /\ \A w \in Workers : WF_vars(Send(w))
  /\ SF_vars(\E w \in Workers : wire # <<>> /\ Process(w, 1))
  /\ SF_vars(\E w \in Workers, readable \in SUBSET Sessions : Tick(w, readable))

FairSpec == Spec /\ Fairness

-----------------------------------------------------------------------------
(* Properties.                                                             *)

\* Every variable has its type, and the parts of an S16 machine go together:
\* only a working session is armed, and it waits iff it has inferred so.
TypeOK ==
  /\ agent \in [Sessions -> {"off", "ready", "turn"}]
  /\ asked \in [Sessions -> SUBSET Tools] /\ answered \in [Sessions -> SUBSET Tools]
  /\ transcript \in [Sessions -> Transcript]
  /\ wire \in Seq(Frame) /\ lines \in 0 .. Lines
  /\ claude \in [Sessions -> ClaudeState]
  /\ infer \in [Sessions -> Machine]
  /\ \A s \in Sessions :
       /\ infer[s].armed # Off => infer[s].state = "working"
       /\ infer[s].waiting <=> infer[s].state = "waiting"
  /\ codex \in [Threads -> CodexState]
  /\ sending \in [Workers -> Seq(Command)]
  /\ reported \in [Ids -> InferState]
  /\ holder \in [Ids -> SUBSET Workers]
  /\ overtaken \in SUBSET Ids
  /\ cutShort \in [Sessions -> SUBSET (Tools \cup {NoTool})]

\* S15 and S16 judge the same session and write the same run, the last one
\* wins: they may differ only where S15 cannot know (a turn that goes on after
\* a Stop, an inferred waiting), else the inbox would flip between them.
AdaptersAgree ==
  \A s \in Sessions :
    \/ infer[s].state = claude[s]
    \/ infer[s].state = "working"
    \/ infer[s].state = "waiting" /\ claude[s] = "working"

\* "Any later activity cancels the pending inference and auto-resolves any
\* already-raised waiting" (claude_infer.rs 20-22): once every command is sent,
\* a run is reported as waiting if and only if its machine says that it waits,
\* unless the last upsert of it came too late: it was sent, after the lock, by a
\* worker that a newer one of the same run had overtaken (serve.rs 395).
NoStaleWaiting ==
  (\A w \in Workers : sending[w] = <<>>) =>
    /\ \A s \in Sessions \ overtaken : reported[s] = "waiting" <=> infer[s].state = "waiting"
    /\ \A x \in Threads \ overtaken : reported[x] = "waiting" <=> codex[x] = "waiting"

\* The timer alone only ever turns a working session into a waiting one: a
\* session that ended, stopped or waits is left alone.
TimerRaises ==
  wire' = wire => \A s \in Sessions :
    infer'[s].state # infer[s].state =>
      infer[s].state = "working" /\ infer'[s].state = "waiting"

\* The transcript vetoes an inference only if the tool has its result, however
\* far the transcript lags.
TimerLetsOff ==
  wire' = wire => \A s \in Sessions :
    infer[s].armed # Off /\ infer'[s].armed = Off /\ infer'[s].state = "working" =>
      infer[s].tool \in answered[s]

\* What the timer does of itself is right both ways: it raises a waiting only on
\* a session at work, and lets a tool off only when that tool has its result.
TimerIsSound == [][TimerRaises /\ TimerLetsOff]_vars

\* "A PreToolUse with no matching PostToolUse/Stop within a debounce window" is
\* reported as waiting (docs/ENGINEERING_SPEC.md 155): a tool that is asked for and
\* stays unanswered, as one that needs an approval does, is reported in the end,
\* however hooks overtake each other and whatever else the session has under way.
\* There are two exceptions: a machine watches one tool, which any other activity
\* of its session clears (claude_infer.rs 20-22, 338-343), and the report may be
\* overwritten by an older one sent late (serve.rs 395).
BlockedIsShown ==
  \A s \in Sessions, t \in Tools :
    t \in Running(s) ~>
      \/ t \in answered[s] \/ reported[s] = "waiting"
      \/ t \in cutShort[s] \/ s \in overtaken
=============================================================================
