---------------------------- MODULE ReporterProofs ----------------------------
(***************************************************************************)
(* The reporter's end.  What holds of the hook receiver for every number   *)
(* of agents, tools, worker threads and hooks under way, whatever order    *)
(* hooks arrive in; then of the settings that install the hooks, for any   *)
(* events and any number of changes; and last of the link to the Hub, for  *)
(* any native ids, states, capacity and timeout, however often the link    *)
(* breaks and whichever process crashes.                                   *)
(***************************************************************************)
EXTENDS HookReceiver, Installer, ReporterLink,
        FiniteSetTheorems, SequenceTheorems, NaturalsInduction, TLAPS

-----------------------------------------------------------------------------
(* The adapters.                                                           *)

\* The parts of an S16 machine that go together.
Coherent(m) ==
  /\ m.armed # Off => m.state = "working"
  /\ m.waiting <=> m.state = "waiting"

\* A transition gives at most one command, an upsert if and only if it is a
\* change.
LEMMA CommandsForOne ==
  ASSUME NEW id \in Ids, NEW state \in InferState,
         NEW changed \in BOOLEAN, NEW liveness \in BOOLEAN
  PROVE  \/ commands_for(id, state, changed, liveness) = <<Upsert(id, state)>> /\ changed
         \/ commands_for(id, state, changed, liveness) = <<Alive(id)>> /\ ~changed
         \/ commands_for(id, state, changed, liveness) = <<>> /\ ~changed
BY DEF commands_for

\* Both commands are well-typed.
LEMMA CommandsTyped ==
  ASSUME NEW id \in Ids, NEW state \in InferState
  PROVE  Upsert(id, state) \in Command /\ Alive(id) \in Command
BY DEF Upsert, Alive, Command, InferState, ClaudeState

LEMMA CommandsForType ==
  ASSUME NEW id \in Ids, NEW state \in InferState, NEW changed, NEW liveness
  PROVE  commands_for(id, state, changed, liveness) \in Seq(Command)
<1>1. \A c \in Command : <<c>> \in Seq(Command) OBVIOUS
<1>2. <<>> \in Seq(Command) OBVIOUS
<1>. QED BY <1>1, <1>2, CommandsTyped, Zenon DEF commands_for

\* S15 never waits.
LEMMA ClaudeApplyType ==
  ASSUME NEW state \in ClaudeState, NEW kind
  PROVE  ClaudeApply(state, kind) \in ClaudeState \ {"none"}
BY DEF ClaudeApply, ensure, ClaudeState

\* S16 keeps the parts of its machine together.
LEMMA InferApplyType ==
  ASSUME NEW m \in Machine, Coherent(m), NEW kind, NEW tool \in Tools \cup {NoTool}
  PROVE  InferApply(m, kind, tool) \in Machine /\ Coherent(InferApply(m, kind, tool))
<1>1. 0 \in 0 .. Window BY ReceiverConstants
<1>. QED BY <1>1 DEF InferApply, Cleared, Machine, Coherent, InferState, ClaudeState, Off

\* The machine a line is applied to is there.
LEMMA EnsuredType ==
  ASSUME NEW m \in Machine, Coherent(m)
  PROVE  /\ [m EXCEPT !.state = ensure(@)] \in Machine
         /\ Coherent([m EXCEPT !.state = ensure(@)])
BY DEF ensure, Machine, Coherent, InferState, ClaudeState, Off

LEMMA CodexApplyType ==
  ASSUME NEW state \in CodexState, NEW kind
  PROVE  CodexApply(state, kind) \in CodexState \ {"none"}
BY DEF CodexApply, ensure, CodexState

LEMMA ClaudeCommandsType ==
  ASSUME NEW s \in Sessions, NEW state \in ClaudeState, NEW kind
  PROVE  ClaudeCommands(s, state, kind) \in Seq(Command)
<1>. DEFINE after == ClaudeApply(state, kind)
            lively == kind \in {"UserPromptSubmit", "PreToolUse", "PostToolUse",
                               "StopContinues", "SubagentStop", "PreCompact"}
<1>1. s \in Ids /\ after \in InferState BY ClaudeApplyType DEF Ids, InferState
<1>. HIDE DEF after, lively
<1>2. commands_for(s, after, after # ensure(state), lively) \in Seq(Command)
  BY <1>1, CommandsForType, Zenon
<1>. QED BY <1>2 DEF ClaudeCommands, after, lively

LEMMA InferCommandsType ==
  ASSUME NEW s \in Sessions, NEW m \in Machine, Coherent(m), NEW kind,
         NEW tool \in Tools \cup {NoTool}
  PROVE  InferCommands(s, m, kind, tool) \in Seq(Command)
<1>1. InferApply(m, kind, tool).state \in InferState BY InferApplyType DEF Machine
<1>. QED BY <1>1, CommandsForType DEF InferCommands, Ids

LEMMA CodexCommandsType ==
  ASSUME NEW x \in Threads, NEW state \in CodexState, NEW kind
  PROVE  CodexCommands(x, state, kind) \in Seq(Command)
<1>1. CodexApply(state, kind) \in InferState
  BY CodexApplyType DEF CodexState, InferState, ClaudeState
<1>. QED BY <1>1, CommandsForType DEF CodexCommands, Ids

\* Reading a line leaves the others.
LEMMA RemainingType ==
  ASSUME NEW S, wire \in Seq(S), NEW i \in 1 .. Len(wire)
  PROVE  Remaining(i) \in Seq(S)
<1>1. \A k \in 1 .. i - 1 : wire[k] \in S OBVIOUS
<1>2. \A k \in i + 1 .. Len(wire) : wire[k] \in S OBVIOUS
<1>3. SubSeq(wire, 1, i - 1) \in Seq(S) BY <1>1, SubSeqProperties
<1>4. SubSeq(wire, i + 1, Len(wire)) \in Seq(S) BY <1>2, SubSeqProperties
<1>. QED BY <1>3, <1>4, ConcatProperties DEF Remaining

-----------------------------------------------------------------------------
(* The type invariant.                                                     *)

\* The part that agents own and the part that the receiver owns.
AgentsTyped ==
  /\ agent \in [Sessions -> {"off", "ready", "turn"}]
  /\ asked \in [Sessions -> SUBSET Tools] /\ answered \in [Sessions -> SUBSET Tools]
  /\ transcript \in [Sessions -> Transcript]

ReceiverTyped ==
  /\ claude \in [Sessions -> ClaudeState]
  /\ infer \in [Sessions -> Machine]
  /\ \A s \in Sessions : Coherent(infer[s])
  /\ codex \in [Threads -> CodexState]
  /\ sending \in [Workers -> Seq(Command)]
  /\ reported \in [Ids -> InferState]

\* The bound on lines, and the history.
HistoryTyped ==
  /\ lines \in 0 .. Lines
  /\ holder \in [Ids -> SUBSET Workers]
  /\ overtaken \in SUBSET Ids
  /\ cutShort \in [Sessions -> SUBSET (Tools \cup {NoTool})]

PartsTyped == AgentsTyped /\ wire \in Seq(Frame) /\ ReceiverTyped

LEMMA TypeParts ==
  /\ TypeOK <=> PartsTyped /\ HistoryTyped
  /\ TypeOK' <=> PartsTyped' /\ HistoryTyped'
  /\ PartsTyped <=> AgentsTyped /\ wire \in Seq(Frame) /\ ReceiverTyped
  /\ PartsTyped' <=> AgentsTyped' /\ wire' \in Seq(Frame) /\ ReceiverTyped'
BY DEF TypeOK, PartsTyped, AgentsTyped, ReceiverTyped, HistoryTyped, Coherent

LEMMA InitTyped == Init => TypeOK
<1>. SUFFICES ASSUME Init PROVE TypeOK OBVIOUS
<1>1. AgentsTyped BY DEF Init, AgentsTyped, Transcript
<1>2. wire \in Seq(Frame) BY DEF Init
<1>3. ReceiverTyped
  BY DEF Init, ReceiverTyped, Machine, Coherent, InferState, ClaudeState, CodexState, Command, Off
<1>4. HistoryTyped BY ReceiverConstants DEF Init, HistoryTyped
<1>. QED BY <1>1, <1>2, <1>3, <1>4, TypeParts

\* A hook only adds a line.
LEMMA HookTyped ==
  ASSUME TypeOK, NEW id, NEW kind, NEW tool,
         [id |-> id, kind |-> kind, tool |-> tool] \in Frame, Hook(id, kind, tool)
  PROVE  wire' \in Seq(Frame) /\ UNCHANGED <<claude, infer, codex, sending, reported>>
BY AppendProperties DEF Hook, TypeOK, receiver

LEMMA UnchangedTyped ==
  ASSUME TypeOK, UNCHANGED <<claude, infer, codex, sending, reported>>
  PROVE  ReceiverTyped'
BY DEF TypeOK, ReceiverTyped, Coherent

\* What a session does.
LEMMA SessionTyped ==
  ASSUME TypeOK, NEW s \in Sessions,
         \/ Start(s) \/ Prompt(s) \/ StopTurn(s) \/ Continue(s) \/ End(s)
         \/ \E kind \in ClaudeKind : Note(s, kind)
         \/ \E t \in Tools :
              AskTool(s, t) \/ ToolEnds(s, t) \/ WriteUse(s, t) \/ WriteResult(s, t)
  PROVE  PartsTyped'
<1>0. AgentsTyped BY TypeParts
<1>1. ASSUME NEW from, NEW to \in {"off", "ready", "turn"}, NEW kind \in ClaudeKind,
             Turns(s, from, to, kind)
      PROVE  PartsTyped'
  <2>1. [id |-> s, kind |-> kind, tool |-> NoTool] \in Frame BY DEF Frame
  <2>2. wire' \in Seq(Frame) /\ ReceiverTyped' BY <1>1, <2>1, HookTyped, UnchangedTyped DEF Turns
  <2>3. AgentsTyped' BY <1>0, <1>1 DEF Turns, AgentsTyped
  <2>. QED BY <2>2, <2>3, TypeParts
<1>2. CASE Start(s) \/ Prompt(s) \/ StopTurn(s) \/ Continue(s)
  BY <1>1, <1>2 DEF Start, Prompt, StopTurn, Continue, ClaudeKind
<1>3. CASE End(s)
  <2>1. [id |-> s, kind |-> "SessionEnd", tool |-> NoTool] \in Frame BY DEF Frame, ClaudeKind
  <2>2. wire' \in Seq(Frame) /\ ReceiverTyped' BY <1>3, <2>1, HookTyped, UnchangedTyped DEF End
  <2>3. AgentsTyped' BY <1>0, <1>3 DEF End, AgentsTyped
  <2>. QED BY <2>2, <2>3, TypeParts
<1>4. CASE \E kind \in ClaudeKind : Note(s, kind)
  BY <1>1, <1>4 DEF Note
<1>5. ASSUME NEW t \in Tools, AskTool(s, t) PROVE PartsTyped'
  <2>. DEFINE tool == IF IdsCarried THEN t ELSE NoTool
  <2>1. [id |-> s, kind |-> "PreToolUse", tool |-> tool] \in Frame BY DEF Frame, ClaudeKind
  <2>2. wire' \in Seq(Frame) /\ ReceiverTyped' BY <1>5, <2>1, HookTyped, UnchangedTyped DEF AskTool
  <2>3. AgentsTyped' BY <1>0, <1>5 DEF AskTool, AgentsTyped
  <2>. QED BY <2>2, <2>3, TypeParts
<1>6. ASSUME NEW t \in Tools, ToolEnds(s, t) PROVE PartsTyped'
  <2>1. [id |-> s, kind |-> "PostToolUse", tool |-> t] \in Frame BY DEF Frame, ClaudeKind
  <2>3. wire' \in Seq(Frame) /\ ReceiverTyped'
    <3>1. CASE Hook(s, "PostToolUse", t)
      BY <2>1, <3>1, HookTyped, UnchangedTyped
    <3>2. CASE UNCHANGED <<wire, lines, receiver, sending, reported, history>>
      BY <3>2, UnchangedTyped DEF receiver, TypeOK
    <3>. QED BY <1>6, <3>1, <3>2 DEF ToolEnds
  <2>4. AgentsTyped' BY <1>0, <1>6 DEF ToolEnds, AgentsTyped
  <2>. QED BY <2>3, <2>4, TypeParts
<1>7. ASSUME NEW t \in Tools, WriteUse(s, t) \/ WriteResult(s, t) PROVE PartsTyped'
  <2>1. wire' \in Seq(Frame) /\ ReceiverTyped'
    BY <1>7, UnchangedTyped DEF WriteUse, WriteResult, receiver, TypeOK
  <2>2. transcript' \in [Sessions -> Transcript]
    BY <1>0, <1>7 DEF WriteUse, WriteResult, AgentsTyped, Transcript
  <2>3. AgentsTyped' BY <1>0, <1>7, <2>2 DEF WriteUse, WriteResult, AgentsTyped
  <2>. QED BY <2>1, <2>3, TypeParts
<1>. QED BY <1>2, <1>3, <1>4, <1>5, <1>6, <1>7

LEMMA CodexHookTyped ==
  ASSUME TypeOK, NEW x \in Threads, NEW kind \in CodexKind, CodexHook(x, kind)
  PROVE  PartsTyped'
<1>1. [id |-> x, kind |-> kind, tool |-> NoTool] \in Frame BY DEF Frame
<1>2. wire' \in Seq(Frame) /\ ReceiverTyped' BY <1>1, HookTyped, UnchangedTyped DEF CodexHook
<1>3. AgentsTyped' BY TypeParts DEF CodexHook, agents, AgentsTyped
<1>. QED BY <1>2, <1>3, TypeParts

\* Each adapter keeps its machine, and both give commands.
LEMMA ProcessTyped ==
  ASSUME TypeOK, NEW w \in Workers, NEW i \in 1 .. Len(wire), Process(w, i)
  PROVE  PartsTyped'
<1>. DEFINE f == wire[i]
            m == [infer[f.id] EXCEPT !.state = ensure(@)]
<1>0. AgentsTyped /\ ReceiverTyped /\ wire \in Seq(Frame) BY TypeParts
<1>1. f \in Frame BY <1>0
<1>2. AgentsTyped' BY <1>0 DEF Process, agents, AgentsTyped
<1>3. wire' \in Seq(Frame) BY <1>0, RemainingType DEF Process
<1>4. ReceiverTyped'
  <2>1. CASE f.kind = "drift" BY <1>0, <2>1 DEF Process, receiver, ReceiverTyped, Coherent
  <2>2. CASE f.kind # "drift" /\ f.id \in Sessions
    <3>1. f.tool \in Tools \cup {NoTool} BY <1>1 DEF Frame
    <3>2. infer[f.id] \in Machine /\ Coherent(infer[f.id]) BY <1>0, <2>2 DEF ReceiverTyped
    <3>3. m \in Machine /\ Coherent(m) BY <3>2, EnsuredType
    <3>4. /\ InferApply(m, f.kind, f.tool) \in Machine
          /\ Coherent(InferApply(m, f.kind, f.tool))
      BY <3>1, <3>3, InferApplyType
    <3>5. claude[f.id] \in ClaudeState BY <1>0, <2>2 DEF ReceiverTyped
    <3>6. ClaudeApply(claude[f.id], f.kind) \in ClaudeState BY <3>5, ClaudeApplyType
    <3>7. ClaudeCommands(f.id, claude[f.id], f.kind) \o InferCommands(f.id, m, f.kind, f.tool)
            \in Seq(Command)
      BY <2>2, <3>1, <3>3, <3>5, ClaudeCommandsType, InferCommandsType, ConcatProperties
    <3>8. /\ claude' = [claude EXCEPT ![f.id] = ClaudeApply(@, f.kind)]
          /\ infer' = [infer EXCEPT ![f.id] = InferApply(m, f.kind, f.tool)]
          /\ sending' = [sending EXCEPT ![w] =
               ClaudeCommands(f.id, claude[f.id], f.kind) \o InferCommands(f.id, m, f.kind, f.tool)]
          /\ UNCHANGED <<codex, reported>>
      BY <2>2 DEF Process
    <3>. HIDE DEF f, m
    <3>9. \A s \in Sessions : Coherent(infer'[s]) BY <1>0, <3>4, <3>8 DEF ReceiverTyped
    <3>10. /\ claude' \in [Sessions -> ClaudeState] /\ infer' \in [Sessions -> Machine]
           /\ sending' \in [Workers -> Seq(Command)]
      BY <1>0, <3>4, <3>6, <3>7, <3>8 DEF ReceiverTyped
    <3>. QED BY <1>0, <3>8, <3>9, <3>10 DEF ReceiverTyped, Coherent
  <2>3. CASE f.kind # "drift" /\ f.id \notin Sessions
    <3>1. f.id \in Threads BY <1>1, <2>3 DEF Frame
    <3>2. codex[f.id] \in CodexState BY <1>0, <3>1 DEF ReceiverTyped
    <3>3. CodexApply(codex[f.id], f.kind) \in CodexState BY <3>2, CodexApplyType
    <3>4. CodexCommands(f.id, codex[f.id], f.kind) \in Seq(Command)
      BY <3>1, <3>2, CodexCommandsType
    <3>. QED BY <1>0, <2>3, <3>1, <3>3, <3>4 DEF Process, ReceiverTyped, Coherent
  <2>. QED BY <2>1, <2>2, <2>3
<1>. QED BY <1>2, <1>3, <1>4, TypeParts

\* How many sessions fire is a number.
LEMMA FiredCount == \A S \in SUBSET Sessions : Cardinality(S) \in Nat
BY ReceiverConstants, FS_Subset, FS_CardinalityType

\* A machine that fires or is vetoed keeps its parts together.
LEMMA FiredType ==
  ASSUME NEW m \in Machine, Coherent(m), m.armed = Window
  PROVE  /\ Fired(m) \in Machine /\ Coherent(Fired(m))
         /\ Cleared(m) \in Machine /\ Coherent(Cleared(m))
         /\ m.state = "working" /\ Cleared(m).state = "working" /\ Fired(m).state = "waiting"
<1>1. m.state = "working" /\ ~m.waiting BY ReceiverConstants DEF Coherent, Off
<1>2. Fired(m) \in Machine /\ Fired(m).armed = Off /\ Fired(m).waiting /\ Fired(m).state = "waiting"
  BY DEF Fired, Machine, InferState
<1>3. /\ Cleared(m) \in Machine /\ Cleared(m).armed = Off /\ Cleared(m).waiting = FALSE
      /\ Cleared(m).state = m.state
  BY DEF Cleared, Machine
<1>. QED BY <1>1, <1>2, <1>3 DEF Coherent

LEMMA TickTyped ==
  ASSUME TypeOK, NEW w \in Workers, NEW readable \in SUBSET Sessions, Tick(w, readable)
  PROVE  PartsTyped'
<1>. DEFINE vetoed == {s \in pending_fires \cap readable : Verdict(s) = "Resolved"}
            fired  == pending_fires \ vetoed
<1>0. AgentsTyped /\ ReceiverTyped /\ wire \in Seq(Frame) BY TypeParts
<1>1. AgentsTyped' /\ wire' \in Seq(Frame) BY <1>0 DEF Tick, agents, AgentsTyped
<1>2. ASSUME NEW s \in Sessions PROVE infer'[s] \in Machine /\ Coherent(infer'[s])
  <2>1. infer[s] \in Machine /\ Coherent(infer[s]) BY <1>0 DEF ReceiverTyped
  <2>2. infer'[s] = IF s \in vetoed THEN Cleared(infer[s])
                    ELSE IF s \in fired THEN Fired(infer[s]) ELSE infer[s]
    BY DEF Tick
  <2>3. s \in vetoed \cup fired => infer[s].armed = Window BY DEF pending_fires
  <2>. HIDE DEF vetoed, fired
  <2>. QED BY <2>1, <2>2, <2>3, FiredType
<1>3. infer' \in [Sessions -> Machine] BY <1>2 DEF Tick
<1>4. sending' \in [Workers -> Seq(Command)]
  <2>1. PICK order \in Orders(fired) :
          sending' = [sending EXCEPT ![w] =
            [i \in 1 .. Cardinality(fired) |-> Upsert(order[i], "waiting")]]
    BY DEF Tick
  <2>2. fired \in SUBSET Sessions BY DEF pending_fires
  <2>. HIDE DEF fired, vetoed
  <2>3. Cardinality(fired) \in Nat BY <2>2, FiredCount
  <2>4. \A i \in 1 .. Cardinality(fired) : Upsert(order[i], "waiting") \in Command
    BY <2>1, <2>2, CommandsTyped DEF Orders, Ids, InferState
  <2>5. [i \in 1 .. Cardinality(fired) |-> Upsert(order[i], "waiting")] \in Seq(Command)
    BY <2>3, <2>4
  <2>. QED BY <1>0, <2>1, <2>5 DEF ReceiverTyped
<1>5. ReceiverTyped' BY <1>0, <1>2, <1>3, <1>4 DEF Tick, ReceiverTyped, Coherent
<1>. QED BY <1>1, <1>5, TypeParts

LEMMA SendTyped ==
  ASSUME TypeOK, NEW w \in Workers, Send(w)
  PROVE  PartsTyped'
<1>0. AgentsTyped /\ ReceiverTyped /\ wire \in Seq(Frame) BY TypeParts
<1>1. AgentsTyped' /\ wire' \in Seq(Frame) BY <1>0 DEF Send, agents, AgentsTyped
<1>2. sending[w] \in Seq(Command) /\ sending[w] # <<>> BY <1>0 DEF Send, ReceiverTyped
<1>3. Head(sending[w]) \in Command /\ Tail(sending[w]) \in Seq(Command)
  BY <1>2, HeadTailProperties
<1>4. reported' \in [Ids -> InferState]
  BY <1>0, <1>3 DEF Send, ReceiverTyped, Command
<1>5. sending' \in [Workers -> Seq(Command)] BY <1>0, <1>3 DEF Send, ReceiverTyped
<1>6. ReceiverTyped' BY <1>0, <1>4, <1>5 DEF Send, receiver, ReceiverTyped, Coherent
<1>. QED BY <1>1, <1>6, TypeParts

LEMMA ElapseTyped ==
  ASSUME TypeOK, Elapse
  PROVE  PartsTyped'
<1>0. AgentsTyped /\ ReceiverTyped /\ wire \in Seq(Frame) BY TypeParts
<1>1. AgentsTyped' /\ wire' \in Seq(Frame) BY <1>0 DEF Elapse, agents, AgentsTyped
<1>2. ASSUME NEW s \in Sessions PROVE infer'[s] \in Machine /\ Coherent(infer'[s])
  <2>1. infer[s] \in Machine /\ Coherent(infer[s]) BY <1>0 DEF ReceiverTyped
  <2>2. CASE infer[s].armed \in 0 .. Window - 1
    <3>1. infer'[s] = [infer[s] EXCEPT !.armed = @ + 1] BY <2>2 DEF Elapse
    <3>2. infer[s].armed + 1 \in 0 .. Window /\ infer[s].armed # Off
      BY <2>2, ReceiverConstants DEF Off
    <3>. QED BY <2>1, <3>1, <3>2 DEF Machine, Coherent
  <2>3. CASE infer[s].armed \notin 0 .. Window - 1 BY <2>1, <2>3 DEF Elapse
  <2>. QED BY <2>2, <2>3
<1>3. infer' \in [Sessions -> Machine] BY <1>2 DEF Elapse
<1>4. ReceiverTyped' BY <1>0, <1>2, <1>3 DEF Elapse, ReceiverTyped, Coherent
<1>. QED BY <1>1, <1>4, TypeParts

LEMMA StutterTyped == ASSUME TypeOK, UNCHANGED vars PROVE PartsTyped'
BY DEF TypeOK, PartsTyped, AgentsTyped, ReceiverTyped, Coherent, vars, agents, receiver

\* What agents do, and a step that does nothing, leave the receiver alone.
AgentStep ==
  \/ \E s \in Sessions :
       \/ Start(s) \/ Prompt(s) \/ StopTurn(s) \/ Continue(s) \/ End(s)
       \/ \E kind \in ClaudeKind : Note(s, kind)
       \/ \E t \in Tools : AskTool(s, t) \/ ToolEnds(s, t) \/ WriteUse(s, t) \/ WriteResult(s, t)
  \/ \E x \in Threads, kind \in CodexKind : CodexHook(x, kind)
  \/ UNCHANGED vars

LEMMA AgentStepLeaves ==
  ASSUME AgentStep
  PROVE  UNCHANGED <<claude, infer, codex, sending, reported, holder, overtaken, cutShort>>
BY DEF AgentStep, Start, Prompt, StopTurn, Continue, End, Note, Turns, AskTool, ToolEnds,
       WriteUse, WriteResult, CodexHook, Hook, receiver, history, vars

\* Every step is one of an agent or one of the receiver.
LEMMA StepKinds ==
  ASSUME [Next]_vars
  PROVE  \/ AgentStep
         \/ \E w \in Workers, i \in 1 .. Len(wire) : Process(w, i)
         \/ \E w \in Workers, readable \in SUBSET Sessions : Tick(w, readable)
         \/ \E w \in Workers : Send(w)
         \/ Elapse
BY DEF Next, AgentStep

\* No step exceeds the bound or gives the history another type.
LEMMA HistoryStep ==
  ASSUME TypeOK, [Next]_vars
  PROVE  HistoryTyped'
<1>0. HistoryTyped /\ ReceiverTyped /\ wire \in Seq(Frame) BY TypeParts
<1>1. CASE AgentStep
  <2>1. lines' = lines \/ (lines < Lines /\ lines' = lines + 1)
    BY <1>1 DEF AgentStep, Start, Prompt, StopTurn, Continue, End, Note, Turns, AskTool, ToolEnds,
                WriteUse, WriteResult, CodexHook, Hook, vars
  <2>. QED BY <1>0, <1>1, <2>1, AgentStepLeaves, ReceiverConstants DEF HistoryTyped
<1>2. ASSUME NEW w \in Workers, NEW i \in 1 .. Len(wire), Process(w, i)
      PROVE  HistoryTyped'
  <2>1. lines' = lines /\ overtaken' = overtaken /\ holder' = NowNewest(w, sending'[w])
    BY <1>2 DEF Process
  <2>2. NowNewest(w, sending'[w]) \in [Ids -> SUBSET Workers]
    BY <1>0 DEF NowNewest, HistoryTyped
  <2>3. \A s \in Sessions : Watched(infer[s]) \subseteq Tools \cup {NoTool}
    BY <1>0 DEF Watched, ReceiverTyped, Machine
  <2>4. \/ cutShort' = cutShort
        \/ wire[i].id \in Sessions /\ cutShort' = [cutShort EXCEPT ![wire[i].id] =
             @ \cup (Watched(infer[wire[i].id]) \ Watched(infer'[wire[i].id]))]
    BY <1>2 DEF Process
  <2>5. cutShort' \in [Sessions -> SUBSET (Tools \cup {NoTool})]
    BY <1>0, <2>3, <2>4 DEF HistoryTyped
  <2>. QED BY <1>0, <2>1, <2>2, <2>5 DEF HistoryTyped
<1>3. ASSUME NEW w \in Workers, NEW readable \in SUBSET Sessions, Tick(w, readable)
      PROVE  HistoryTyped'
  BY <1>0, <1>3 DEF Tick, NowNewest, HistoryTyped
<1>4. ASSUME NEW w \in Workers, Send(w) PROVE HistoryTyped'
  <2>1. sending[w] \in Seq(Command) /\ sending[w] # <<>> BY <1>0, <1>4 DEF Send, ReceiverTyped
  <2>2. PICK h \in Command : h = Head(sending[w]) BY <2>1, HeadTailProperties
  <2>3. h.id \in Ids BY DEF Command
  <2>. QED BY <1>0, <1>4, <2>2, <2>3 DEF Send, HistoryTyped
<1>5. CASE Elapse BY <1>0, <1>5 DEF Elapse, history, HistoryTyped
<1>. QED BY <1>1, <1>2, <1>3, <1>4, <1>5, StepKinds

LEMMA TypeStep == TypeOK /\ [Next]_vars => TypeOK'
<1>. SUFFICES ASSUME TypeOK, [Next]_vars PROVE TypeOK' OBVIOUS
<1>1. PartsTyped'
  BY SessionTyped, CodexHookTyped, ProcessTyped, TickTyped, SendTyped, ElapseTyped,
     StutterTyped DEF Next
<1>. QED BY <1>1, HistoryStep, TypeParts

\* The variables keep their types and the parts of every S16 machine go
\* together: only a working session is armed, whatever order hooks come in.
THEOREM MachinesCohere == Spec => []TypeOK
<1>1. Init => TypeOK BY InitTyped
<1>. QED BY <1>1, TypeStep, PTL DEF Spec

-----------------------------------------------------------------------------
(* The two adapters of a Claude session.                                   *)

\* How far S15 and S16 may differ, and S16 arms only what S15 sees working.
Agree(c, m) ==
  /\ m.state = c \/ m.state = "working" \/ (m.state = "waiting" /\ c = "working")
  /\ m.armed # Off => c = "working"

AgreeInv == TypeOK /\ \A s \in Sessions : Agree(claude[s], infer[s])

\* One line keeps two adapters that agree in agreement.
LEMMA LineAgrees ==
  ASSUME NEW c \in ClaudeState, NEW m \in Machine, Coherent(m), Agree(c, m), NEW kind, NEW tool
  PROVE  Agree(ClaudeApply(c, kind), InferApply([m EXCEPT !.state = ensure(@)], kind, tool))
<1>. DEFINE n == [m EXCEPT !.state = ensure(@)]
<1>1. /\ n.state = ensure(m.state) /\ n.armed = m.armed /\ n.waiting = m.waiting
      /\ n.waiting <=> n.state = "waiting"
  BY DEF Machine, Coherent, ensure
<1>2. /\ ensure(m.state) = ensure(c) \/ ensure(m.state) = "working"
         \/ (ensure(m.state) = "waiting" /\ ensure(c) = "working")
      /\ m.armed # Off => ensure(c) = "working" /\ ensure(m.state) = "working"
  BY DEF Agree, ensure, Coherent
<1>3. n \in Machine BY EnsuredType
<1>. HIDE DEF n
<1>. QED BY <1>1, <1>2, <1>3 DEF Agree, ClaudeApply, InferApply, Cleared, Machine, Off

LEMMA AgreeStep == AgreeInv /\ [Next]_vars => AgreeInv'
<1>. SUFFICES ASSUME AgreeInv, [Next]_vars PROVE AgreeInv' OBVIOUS
<1>1. TypeOK /\ ReceiverTyped BY TypeParts DEF AgreeInv
<1>2. TypeOK' BY <1>1, TypeStep
<1>3. ASSUME NEW s \in Sessions PROVE Agree(claude[s], infer[s])'
  <2>0. /\ Agree(claude[s], infer[s]) /\ claude[s] \in ClaudeState
        /\ infer[s] \in Machine /\ Coherent(infer[s])
    BY <1>1 DEF AgreeInv, ReceiverTyped
  <2>1. CASE AgentStep BY <2>0, <2>1, AgentStepLeaves DEF Agree
  <2>2. ASSUME NEW w \in Workers, NEW i \in 1 .. Len(wire), Process(w, i)
        PROVE  Agree(claude[s], infer[s])'
    <3>1. CASE wire[i].kind # "drift" /\ wire[i].id = s
      <4>1. /\ claude'[s] = ClaudeApply(claude[s], wire[i].kind)
            /\ infer'[s] = InferApply([infer[s] EXCEPT !.state = ensure(@)],
                                     wire[i].kind, wire[i].tool)
        BY <1>1, <2>2, <3>1 DEF Process, ReceiverTyped
      <4>. QED BY <2>0, <4>1, LineAgrees
    <3>2. CASE ~(wire[i].kind # "drift" /\ wire[i].id = s)
      <4>1. claude'[s] = claude[s] /\ infer'[s] = infer[s]
        BY <1>1, <2>2, <3>2 DEF Process, ReceiverTyped, receiver
      <4>. QED BY <2>0, <4>1 DEF Agree
    <3>. QED BY <3>1, <3>2
  <2>3. ASSUME NEW w \in Workers, NEW readable \in SUBSET Sessions, Tick(w, readable)
        PROVE  Agree(claude[s], infer[s])'
    <3>1. claude' = claude BY <2>3 DEF Tick
    <3>2. \/ infer'[s] = infer[s]
          \/ /\ infer[s].armed = Window
             /\ infer'[s] = Cleared(infer[s]) \/ infer'[s] = Fired(infer[s])
      BY <2>3 DEF Tick, pending_fires
    <3>3. Window # Off BY ReceiverConstants DEF Off
    <3>4. infer[s].armed = Window => Cleared(infer[s]).armed = Off /\ Fired(infer[s]).armed = Off
      BY <2>0 DEF Cleared, Fired, Machine
    <3>. QED BY <2>0, <3>1, <3>2, <3>3, <3>4, FiredType DEF Agree
  <2>4. ASSUME NEW w \in Workers, Send(w) PROVE Agree(claude[s], infer[s])'
    BY <2>0, <2>4 DEF Send, receiver, Agree
  <2>5. CASE Elapse
    <3>1. claude' = claude BY <2>5 DEF Elapse
    <3>2. infer'[s] = infer[s] \/ (infer[s].armed # Off /\ infer'[s].state = infer[s].state)
      BY <2>0, <2>5, ReceiverConstants DEF Elapse, Machine, Off
    <3>. QED BY <2>0, <3>1, <3>2 DEF Agree
  <2>. QED BY <2>1, <2>2, <2>3, <2>4, <2>5, StepKinds
<1>. QED BY <1>2, <1>3 DEF AgreeInv

LEMMA AgreeInit == Init => AgreeInv
BY InitTyped DEF Init, AgreeInv, Agree, Off

\* S15 and S16 write the same run: they differ only where S15 cannot know, in
\* whatever order the hooks of a session come.
THEOREM AdaptersAlwaysAgree == Spec => []AdaptersAgree
<1>1. AgreeInv => AdaptersAgree BY DEF AgreeInv, AdaptersAgree, Agree
<1>. QED BY <1>1, AgreeInit, AgreeStep, PTL DEF Spec

-----------------------------------------------------------------------------
(* The timer.                                                              *)

\* Reading a line leaves one line less.
LEMMA ProcessReads ==
  ASSUME TypeOK, NEW w \in Workers, NEW i \in 1 .. Len(wire), Process(w, i)
  PROVE  wire' # wire
<1>1. wire \in Seq(Frame) BY DEF TypeOK
<1>2. Len(wire) \in Nat BY <1>1
<1>3. \A k \in 1 .. i - 1 : wire[k] \in Frame BY <1>1
<1>4. \A k \in i + 1 .. Len(wire) : wire[k] \in Frame BY <1>1
<1>. DEFINE a == SubSeq(wire, 1, i - 1)
            b == SubSeq(wire, i + 1, Len(wire))
<1>5. a \in Seq(Frame) /\ Len(a) = IF 1 <= i - 1 THEN (i - 1) - 1 + 1 ELSE 0
  BY <1>2, <1>3, SubSeqProperties
<1>6. b \in Seq(Frame) /\ Len(b) = IF i + 1 <= Len(wire) THEN Len(wire) - (i + 1) + 1 ELSE 0
  BY <1>2, <1>4, SubSeqProperties
<1>7. wire' = a \o b BY DEF Process, Remaining
<1>. HIDE DEF a, b
<1>8. Len(a \o b) = Len(a) + Len(b) BY <1>5, <1>6, ConcatProperties
<1>9. i \in Int /\ 1 <= i /\ i <= Len(wire) BY <1>2
<1>10. Len(a) = i - 1 BY <1>5, <1>9
<1>11. Len(b) = Len(wire) - i BY <1>2, <1>6, <1>9
<1>12. Len(wire') = (i - 1) + (Len(wire) - i) BY <1>7, <1>8, <1>10, <1>11
<1>. QED BY <1>2, <1>9, <1>12

\* What one step of the timer or of the clock does to a machine.
LEMMA TimerStep ==
  ASSUME TypeOK, [Next]_vars, wire' = wire, NEW s \in Sessions
  PROVE  \/ infer'[s] = infer[s]
         \/ /\ infer[s].armed # Off /\ infer[s].state = "working"
            /\ infer'[s].state = infer[s].state /\ infer'[s].tool = infer[s].tool
            /\ infer'[s].armed # Off
         \/ infer[s].armed = Window /\ infer'[s] = Fired(infer[s])
         \/ infer[s].armed = Window /\ infer'[s] = Cleared(infer[s]) /\ Verdict(s) = "Resolved"
<1>0. infer[s] \in Machine /\ Coherent(infer[s]) BY DEF TypeOK, Coherent
<1>1. CASE AgentStep BY <1>1, AgentStepLeaves
<1>2. CASE \E w \in Workers, readable \in SUBSET Sessions : Tick(w, readable)
  BY <1>2 DEF Tick, pending_fires
<1>3. CASE \E w \in Workers : Send(w) BY <1>3 DEF Send, receiver
<1>4. CASE Elapse
  <2>1. CASE infer[s].armed \in 0 .. Window - 1
    <3>1. infer'[s] = [infer[s] EXCEPT !.armed = @ + 1] BY <1>4, <2>1 DEF Elapse
    <3>2. infer[s].armed # Off /\ infer[s].armed + 1 # Off BY <2>1, ReceiverConstants DEF Off
    <3>3. infer[s].state = "working" BY <1>0, <3>2 DEF Coherent
    <3>4. /\ infer'[s].armed # Off
          /\ infer'[s].state = infer[s].state /\ infer'[s].tool = infer[s].tool
      BY <1>0, <3>1, <3>2 DEF Machine
    <3>. QED BY <3>1, <3>2, <3>3, <3>4
  <2>2. CASE infer[s].armed \notin 0 .. Window - 1 BY <1>4, <2>2 DEF Elapse
  <2>. QED BY <2>1, <2>2
<1>. QED BY <1>1, <1>2, <1>3, <1>4, StepKinds, ProcessReads

\* Only a session that works is ever turned to waiting by the timer, and the
\* timer does nothing else to a state.
THEOREM TimerRaisesOnly == Spec => [][TimerRaises]_vars
<1>1. TypeOK /\ [Next]_vars => [TimerRaises]_vars
  <2>. SUFFICES ASSUME TypeOK, [Next]_vars, wire' = wire, NEW s \in Sessions,
                       infer'[s].state # infer[s].state
                PROVE  infer[s].state = "working" /\ infer'[s].state = "waiting"
    BY DEF TimerRaises
  <2>0. infer[s] \in Machine /\ Coherent(infer[s]) BY DEF TypeOK, Coherent
  <2>. QED BY <2>0, TimerStep, FiredType DEF Machine
<1>. QED BY <1>1, MachinesCohere, PTL DEF Spec

\* A PreToolUse of a session names its tool.
NamedFrame == {f \in Frame : f.id \in Sessions /\ f.kind = "PreToolUse" => f.tool \in Tools}

\* A transcript has no result of a tool that goes on.
TrueToLife ==
  \A s \in Sessions :
    transcript[s].results \subseteq answered[s] /\ answered[s] \subseteq asked[s]

VetoInv ==
  /\ TypeOK
  /\ wire \in Seq(NamedFrame)
  /\ \A s \in Sessions : infer[s].armed # Off => infer[s].tool \in Tools
  /\ TrueToLife

LEMMA VetoInit == Init => VetoInv
BY InitTyped DEF Init, VetoInv, TrueToLife, Off

LEMMA NamedHook ==
  ASSUME wire \in Seq(NamedFrame), NEW id, NEW kind, NEW tool, Hook(id, kind, tool),
         [id |-> id, kind |-> kind, tool |-> tool] \in NamedFrame
  PROVE  wire' \in Seq(NamedFrame)
BY AppendProperties DEF Hook

LEMMA AgentStepNames ==
  ASSUME IdsCarried, VetoInv, AgentStep
  PROVE  wire' \in Seq(NamedFrame) /\ TrueToLife'
<1>0. AgentsTyped /\ TrueToLife BY TypeParts DEF VetoInv
<1>1. ASSUME NEW s \in Sessions, NEW from, NEW to, NEW kind \in ClaudeKind \ {"PreToolUse"},
             Turns(s, from, to, kind)
      PROVE  wire' \in Seq(NamedFrame) /\ TrueToLife'
  <2>1. [id |-> s, kind |-> kind, tool |-> NoTool] \in NamedFrame BY DEF NamedFrame, Frame
  <2>. QED BY <1>0, <1>1, <2>1, NamedHook DEF Turns, VetoInv, TrueToLife
<1>2. ASSUME NEW s \in Sessions,
             \/ Start(s) \/ Prompt(s) \/ StopTurn(s) \/ Continue(s)
             \/ \E kind \in ClaudeKind : Note(s, kind)
      PROVE  wire' \in Seq(NamedFrame) /\ TrueToLife'
  BY <1>1, <1>2 DEF Start, Prompt, StopTurn, Continue, Note, ClaudeKind
<1>3. ASSUME NEW s \in Sessions, End(s)
      PROVE  wire' \in Seq(NamedFrame) /\ TrueToLife'
  <2>1. [id |-> s, kind |-> "SessionEnd", tool |-> NoTool] \in NamedFrame
    BY DEF NamedFrame, Frame, ClaudeKind
  <2>2. wire' \in Seq(NamedFrame) BY <1>3, <2>1, NamedHook DEF End, VetoInv
  <2>. QED BY <1>0, <1>3, <2>2 DEF End, AgentsTyped, TrueToLife
<1>4. ASSUME NEW s \in Sessions, NEW t \in Tools, AskTool(s, t)
      PROVE  wire' \in Seq(NamedFrame) /\ TrueToLife'
  <2>1. [id |-> s, kind |-> "PreToolUse", tool |-> t] \in NamedFrame
    BY DEF NamedFrame, Frame, ClaudeKind
  <2>2. Hook(s, "PreToolUse", t) BY <1>4 DEF AskTool
  <2>3. wire' \in Seq(NamedFrame) BY <2>1, <2>2, NamedHook DEF VetoInv
  <2>. QED BY <1>0, <1>4, <2>3 DEF AskTool, AgentsTyped, TrueToLife
<1>5. ASSUME NEW s \in Sessions, NEW t \in Tools, ToolEnds(s, t)
      PROVE  wire' \in Seq(NamedFrame) /\ TrueToLife'
  <2>1. [id |-> s, kind |-> "PostToolUse", tool |-> t] \in NamedFrame
    BY DEF NamedFrame, Frame, ClaudeKind
  <2>2. wire' \in Seq(NamedFrame) BY <1>5, <2>1, NamedHook DEF ToolEnds, VetoInv
  <2>. QED BY <1>0, <1>5, <2>2 DEF ToolEnds, Running, AgentsTyped, TrueToLife
<1>6. ASSUME NEW s \in Sessions, NEW t \in Tools, WriteUse(s, t) \/ WriteResult(s, t)
      PROVE  wire' \in Seq(NamedFrame) /\ TrueToLife'
  BY <1>0, <1>6 DEF WriteUse, WriteResult, AgentsTyped, Transcript, TrueToLife, VetoInv
<1>7. ASSUME NEW x \in Threads, NEW kind \in CodexKind, CodexHook(x, kind)
      PROVE  wire' \in Seq(NamedFrame) /\ TrueToLife'
  <2>1. [id |-> x, kind |-> kind, tool |-> NoTool] \in NamedFrame
    BY ReceiverConstants DEF NamedFrame, Frame
  <2>. QED BY <1>0, <1>7, <2>1, NamedHook DEF CodexHook, agents, VetoInv, TrueToLife
<1>8. CASE UNCHANGED vars BY <1>0, <1>8 DEF vars, agents, VetoInv, TrueToLife
<1>. QED BY <1>2, <1>3, <1>4, <1>5, <1>6, <1>7, <1>8 DEF AgentStep

LEMMA VetoStep ==
  ASSUME IdsCarried, VetoInv, [Next]_vars
  PROVE  VetoInv'
<1>0. TypeOK /\ ReceiverTyped BY TypeParts DEF VetoInv
<1>1. TypeOK' BY <1>0, TypeStep
<1>2. wire' \in Seq(NamedFrame) /\ TrueToLife'
  <2>1. CASE AgentStep BY <2>1, AgentStepNames
  <2>2. ASSUME NEW w \in Workers, NEW i \in 1 .. Len(wire), Process(w, i)
        PROVE  wire' \in Seq(NamedFrame) /\ TrueToLife'
    BY <2>2, RemainingType DEF Process, agents, VetoInv, TrueToLife
  <2>3. CASE \/ \E w \in Workers, readable \in SUBSET Sessions : Tick(w, readable)
             \/ \E w \in Workers : Send(w)
             \/ Elapse
    BY <2>3 DEF Tick, Send, Elapse, agents, VetoInv, TrueToLife
  <2>. QED BY <2>1, <2>2, <2>3, StepKinds
<1>3. ASSUME NEW s \in Sessions, infer'[s].armed # Off PROVE infer'[s].tool \in Tools
  <2>0. infer[s] \in Machine /\ Coherent(infer[s]) /\ (infer[s].armed # Off => infer[s].tool \in Tools)
    BY <1>0 DEF VetoInv, ReceiverTyped
  <2>1. CASE wire' = wire
    <3>1. Fired(infer[s]).armed = Off /\ Cleared(infer[s]).armed = Off
      BY <2>0 DEF Fired, Cleared, Machine
    <3>2. infer'[s] = infer[s] \/ (infer[s].armed # Off /\ infer'[s].tool = infer[s].tool)
      BY <1>0, <1>3, <2>1, <3>1, TimerStep
    <3>. QED BY <1>3, <2>0, <3>2
  <2>2. ASSUME NEW w \in Workers, NEW i \in 1 .. Len(wire), Process(w, i)
        PROVE  infer'[s].tool \in Tools
    <3>1. wire[i] \in NamedFrame BY DEF VetoInv
    <3>2. CASE wire[i].kind # "drift" /\ wire[i].id = s
      <4>. DEFINE n == [infer[s] EXCEPT !.state = ensure(@)]
      <4>1. infer'[s] = InferApply(n, wire[i].kind, wire[i].tool)
        BY <1>0, <2>2, <3>2 DEF Process, ReceiverTyped
      <4>2. n \in Machine /\ n.armed = infer[s].armed /\ n.tool = infer[s].tool
        BY <2>0, EnsuredType DEF Machine
      <4>. HIDE DEF n
      <4>3. wire[i].kind = "PreToolUse" => wire[i].tool \in Tools BY <3>1, <3>2 DEF NamedFrame
      <4>. QED BY <1>3, <2>0, <4>1, <4>2, <4>3 DEF InferApply, Cleared, Machine, Off
    <3>3. CASE ~(wire[i].kind # "drift" /\ wire[i].id = s)
      <4>1. infer'[s] = infer[s] BY <1>0, <2>2, <3>3 DEF Process, ReceiverTyped, receiver
      <4>. QED BY <1>3, <2>0, <4>1
    <3>. QED BY <3>2, <3>3
  <2>3. CASE AgentStep BY <1>3, <2>0, <2>3, AgentStepLeaves
  <2>4. CASE \/ \E w \in Workers, readable \in SUBSET Sessions : Tick(w, readable)
             \/ \E w \in Workers : Send(w)
             \/ Elapse
    BY <2>1, <2>4 DEF Tick, Send, Elapse
  <2>. QED BY <2>2, <2>3, <2>4, StepKinds
<1>. QED BY <1>1, <1>2, <1>3 DEF VetoInv

\* Where hooks carry the id of their tool, the transcript vetoes an inference
\* only of a tool that is over, however far it lags and however hooks reorder.
THEOREM VetoIsRight == IdsCarried => (Spec => [][TimerLetsOff]_vars)
<1>. SUFFICES ASSUME IdsCarried PROVE Spec => [][TimerLetsOff]_vars OBVIOUS
<1>1. VetoInv /\ [Next]_vars => VetoInv' BY VetoStep
<1>2. VetoInv /\ [Next]_vars => [TimerLetsOff]_vars
  <2>. SUFFICES ASSUME VetoInv, [Next]_vars, wire' = wire, NEW s \in Sessions,
                       infer[s].armed # Off, infer'[s].armed = Off, infer'[s].state = "working"
                PROVE  infer[s].tool \in answered[s]
    BY DEF TimerLetsOff
  <2>0. TypeOK /\ infer[s] \in Machine /\ Coherent(infer[s]) /\ infer[s].tool \in Tools
    BY TypeParts DEF VetoInv, ReceiverTyped
  <2>1. Verdict(s) = "Resolved" BY <2>0, TimerStep, FiredType DEF Machine
  <2>2. infer[s].tool # NoTool BY <2>0, ReceiverConstants
  <2>3. infer[s].tool \in transcript[s].results BY <2>1, <2>2 DEF Verdict
  <2>. QED BY <2>3 DEF VetoInv, TrueToLife
<1>. QED BY <1>1, <1>2, VetoInit, PTL DEF Spec

-----------------------------------------------------------------------------
(* What is sent after the lock.                                            *)

\* The machine of a session or thread says that it waits.
Waits(id) == IF id \in Sessions THEN infer[id].state = "waiting" ELSE codex[id] = "waiting"

IsUpsert(c, id) == c.op = "run" /\ c.id = id

\* Commands that end, for this session or thread, with what its machine says:
\* from some upsert of it on, every one says so.
EndsWith(q, id, waits) ==
  \E i \in 1 .. Len(q) :
    /\ IsUpsert(q[i], id)
    /\ \A k \in i .. Len(q) : IsUpsert(q[k], id) => (q[k].state = "waiting" <=> waits)

\* What is known of one session or thread: its newest upsert is what its machine
\* says, with the worker that has it or, once that is sent, in what is reported,
\* if no older one has been sent since.
NewestIsRight(id) ==
  \/ /\ holder[id] = {}
     /\ id \in overtaken \/ (reported[id] = "waiting" <=> Waits(id))
  \/ \E w \in Workers : holder[id] = {w} /\ EndsWith(sending[w], id, Waits(id))

SendInv == \A id \in Ids : NewestIsRight(id)

LEMMA SendInit == Init => SendInv
BY DEF Init, SendInv, NewestIsRight, Waits, Ids

\* A step that leaves what is known of a session or thread.
LEMMA KeepsNewest ==
  ASSUME NEW id \in Ids, NewestIsRight(id), holder'[id] = holder[id],
         id \in overtaken => id \in overtaken', reported'[id] = reported[id],
         Waits(id)' <=> Waits(id),
         \A w \in Workers : holder[id] = {w} => sending'[w] = sending[w]
  PROVE  NewestIsRight(id)'
<1>1. CASE holder[id] = {} /\ (id \in overtaken \/ (reported[id] = "waiting" <=> Waits(id)))
  BY <1>1 DEF NewestIsRight
<1>2. ASSUME NEW w \in Workers, holder[id] = {w}, EndsWith(sending[w], id, Waits(id))
      PROVE  NewestIsRight(id)'
  <2>1. EndsWith(sending'[w], id, Waits(id)') BY <1>2 DEF EndsWith
  <2>. QED BY <1>2, <2>1 DEF NewestIsRight
<1>. QED BY <1>1, <1>2 DEF NewestIsRight

\* A worker that has computed an upsert has the newest.
LEMMA TakesNewest ==
  ASSUME NEW id \in Ids, NEW w \in Workers, NEW q, sending'[w] = q,
         EndsWith(q, id, Waits(id)'), holder'[id] = {w}
  PROVE  NewestIsRight(id)'
BY DEF NewestIsRight

\* Commands that end with an upsert of a session have one.
LEMMA EndsUpserted ==
  ASSUME NEW q, NEW id
  PROVE  id \in Upserted(q) <=> \E i \in 1 .. Len(q) : IsUpsert(q[i], id)
BY DEF Upserted, IsUpsert

\* Some upsert, and none that says otherwise.
LEMMA AllSay ==
  ASSUME NEW q, NEW id, NEW waits, Len(q) \in Nat, id \in Upserted(q),
         \A k \in 1 .. Len(q) : IsUpsert(q[k], id) => (q[k].state = "waiting" <=> waits)
  PROVE  EndsWith(q, id, waits)
BY EndsUpserted DEF EndsWith

\* What S15 makes of a line of a session: one upsert, of a state that is not
\* waiting, or none.
LEMMA ClaudeSends ==
  ASSUME NEW s \in Sessions, NEW state \in ClaudeState, NEW kind,
         NEW cmds, cmds = ClaudeCommands(s, state, kind)
  PROVE  /\ Len(cmds) \in Nat
         /\ \A i \in 1 .. Len(cmds) : cmds[i].id = s /\ cmds[i].state # "waiting"
         /\ (\E i \in 1 .. Len(cmds) : cmds[i].op = "run") =>
              ClaudeApply(state, kind) # ensure(state)
<1>. PICK after : after = ClaudeApply(state, kind) OBVIOUS
<1>1. after # "waiting" BY ClaudeApplyType DEF ClaudeState
<1>2. \/ cmds = <<Upsert(s, after)>> /\ after # ensure(state)
      \/ cmds = <<Alive(s)>> \/ cmds = <<>>
  BY DEF ClaudeCommands, commands_for
<1>3. /\ Upsert(s, after).state = after /\ Upsert(s, after).id = s
      /\ Alive(s).id = s /\ Alive(s).state = "none" /\ Alive(s).op = "alive"
  BY DEF Upsert, Alive
<1>. QED BY <1>1, <1>2, <1>3

\* What S16 makes of it: one upsert, of its state, if that has changed, or none.
LEMMA InferSends ==
  ASSUME NEW s \in Sessions, NEW m \in Machine, NEW kind, NEW tool,
         NEW cmds, cmds = InferCommands(s, m, kind, tool),
         NEW after, after = InferApply(m, kind, tool)
  PROVE  /\ Len(cmds) \in {0, 1}
         /\ \A i \in 1 .. Len(cmds) :
              cmds[i].id = s /\ (cmds[i].op = "run" => cmds[i].state = after.state)
         /\ after.state # m.state => Len(cmds) = 1 /\ IsUpsert(cmds[1], s)
<1>. PICK st : st = after.state OBVIOUS
<1>1. \/ cmds = <<Upsert(s, st)>>
      \/ st = m.state /\ (cmds = <<Alive(s)>> \/ cmds = <<>>)
  BY DEF InferCommands, commands_for
<1>2. /\ Upsert(s, st).op = "run" /\ Upsert(s, st).id = s /\ Upsert(s, st).state = st
      /\ Alive(s).id = s /\ Alive(s).op = "alive"
  BY DEF Upsert, Alive
<1>. QED BY <1>1, <1>2 DEF IsUpsert

LEMMA CodexSends ==
  ASSUME NEW x \in Threads, NEW state \in CodexState, NEW kind,
         NEW cmds, cmds = CodexCommands(x, state, kind),
         NEW after, after = CodexApply(state, kind)
  PROVE  /\ Len(cmds) \in Nat
         /\ \A i \in 1 .. Len(cmds) :
              cmds[i].id = x /\ (cmds[i].op = "run" => cmds[i].state = after)
         /\ after # ensure(state) => Len(cmds) = 1 /\ IsUpsert(cmds[1], x)
<1>1. \/ cmds = <<Upsert(x, after)>>
      \/ after = ensure(state) /\ (cmds = <<Alive(x)>> \/ cmds = <<>>)
  BY DEF CodexCommands, commands_for
<1>2. /\ Upsert(x, after).op = "run" /\ Upsert(x, after).id = x /\ Upsert(x, after).state = after
      /\ Alive(x).id = x /\ Alive(x).op = "alive"
  BY DEF Upsert, Alive
<1>. QED BY <1>1, <1>2 DEF IsUpsert

\* The commands of S15 and then of S16 end with what S16 says, if there is an
\* upsert among them; and there is one if S16 has changed.
SaysLast(s, q, m, after) ==
  /\ s \in Upserted(q) => EndsWith(q, s, after.state = "waiting")
  /\ s \notin Upserted(q) => after.state = m.state
  /\ \A id \in Upserted(q) : id = s

\* An upsert of S15 that S16 does not follow up leaves a machine that does not wait.
LEMMA LineSays ==
  ASSUME NEW s \in Sessions, NEW c \in ClaudeState, NEW m \in Machine, Coherent(m),
         Agree(ensure(c), m), NEW kind, NEW tool \in Tools \cup {NoTool},
         NEW after, after = InferApply(m, kind, tool),
         NEW q, q = ClaudeCommands(s, c, kind) \o InferCommands(s, m, kind, tool)
  PROVE  SaysLast(s, q, m, after)
<1>. PICK cc : cc = ClaudeCommands(s, c, kind) OBVIOUS
<1>. PICK ic : ic = InferCommands(s, m, kind, tool) OBVIOUS
<1>1. /\ Len(cc) \in Nat /\ \A i \in 1 .. Len(cc) : cc[i].id = s /\ cc[i].state # "waiting"
      /\ (\E i \in 1 .. Len(cc) : cc[i].op = "run") => ClaudeApply(c, kind) # ensure(c)
  BY ClaudeSends
<1>2. /\ Len(ic) \in {0, 1}
      /\ \A i \in 1 .. Len(ic) : ic[i].id = s /\ (ic[i].op = "run" => ic[i].state = after.state)
      /\ after.state # m.state => Len(ic) = 1 /\ IsUpsert(ic[1], s)
  BY InferSends
<1>3. cc \in Seq(Command) /\ ic \in Seq(Command)
  BY ClaudeCommandsType, InferCommandsType
<1>4. /\ Len(q) = Len(cc) + Len(ic)
      /\ \A k \in 1 .. Len(cc) + Len(ic) :
           q[k] = IF k <= Len(cc) THEN cc[k] ELSE ic[k - Len(cc)]
  BY <1>3, ConcatProperties
<1>5. ClaudeApply(c, kind) # ensure(c) /\ after.state = m.state => after.state # "waiting"
  BY DEF ClaudeApply, InferApply, Cleared, Machine, Coherent, Agree, ensure, ClaudeState
<1>6. \A k \in 1 .. Len(q) : q[k].id = s
  <2>. SUFFICES ASSUME NEW k \in 1 .. Len(q) PROVE q[k].id = s OBVIOUS
  <2>1. CASE k <= Len(cc) BY <1>1, <1>2, <1>4, <2>1
  <2>2. CASE ~(k <= Len(cc))
    <3>1. k - Len(cc) \in 1 .. Len(ic) BY <1>1, <1>2, <1>4, <2>2
    <3>. QED BY <1>2, <1>4, <2>2, <3>1
  <2>. QED BY <2>1, <2>2
<1>7. \A id \in Upserted(q) : id = s BY <1>6 DEF Upserted
<1>8. CASE Len(ic) = 1 /\ IsUpsert(ic[1], s)
  <2>1. Len(q) = Len(cc) + 1 /\ Len(q) \in 1 .. Len(q) /\ q[Len(q)] = ic[1]
    BY <1>1, <1>4, <1>8
  <2>2. ic[1].state = after.state BY <1>2, <1>8 DEF IsUpsert
  <2>3. \A k \in Len(q) .. Len(q) : k = Len(q) BY <1>1, <2>1
  <2>4. EndsWith(q, s, after.state = "waiting")
    BY <1>8, <2>1, <2>2, <2>3 DEF EndsWith
  <2>5. s \in Upserted(q) BY <1>8, <2>1, EndsUpserted
  <2>. QED BY <1>7, <2>4, <2>5 DEF SaysLast
<1>9. CASE ~(Len(ic) = 1 /\ IsUpsert(ic[1], s))
  <2>1. after.state = m.state BY <1>2, <1>9
  <2>2. \A k \in 1 .. Len(ic) : ic[k].op # "run" BY <1>2, <1>9 DEF IsUpsert
  <2>3. ASSUME NEW k \in 1 .. Len(q), q[k].op = "run"
        PROVE  k \in 1 .. Len(cc) /\ q[k] = cc[k]
    <3>1. CASE k <= Len(cc) BY <1>1, <1>2, <1>4, <3>1
    <3>2. CASE ~(k <= Len(cc))
      <4>1. k - Len(cc) \in 1 .. Len(ic) BY <1>1, <1>2, <1>4, <3>2
      <4>. QED BY <1>4, <2>2, <2>3, <3>2, <4>1
    <3>. QED BY <3>1, <3>2
  <2>4. ASSUME s \in Upserted(q) PROVE EndsWith(q, s, after.state = "waiting")
    <3>1. PICK k \in 1 .. Len(q) : q[k].op = "run" BY <2>4 DEF Upserted
    <3>2. after.state # "waiting" BY <1>1, <1>5, <2>1, <2>3, <3>1
    <3>3. \A j \in 1 .. Len(q) : IsUpsert(q[j], s) => q[j].state # "waiting"
      BY <1>1, <2>3 DEF IsUpsert
    <3>4. Len(q) \in Nat BY <1>1, <1>2, <1>4
    <3>. QED BY <2>4, <3>2, <3>3, <3>4, AllSay
  <2>. QED BY <1>7, <2>1, <2>4 DEF SaysLast
<1>. QED BY <1>8, <1>9

\* A line is read when its worker has nothing to send, so no newest upsert.
LEMMA IdleHoldsNone ==
  ASSUME SendInv, NEW w \in Workers, sending[w] = <<>>, NEW id \in Ids
  PROVE  holder[id] # {w}
<1>1. Len(sending[w]) = 0 OBVIOUS
<1>. QED BY <1>1 DEF SendInv, NewestIsRight, EndsWith

LEMMA ProcessSent ==
  ASSUME AgreeInv, SendInv, NEW w \in Workers, NEW i \in 1 .. Len(wire), Process(w, i)
  PROVE  SendInv'
<1>0. ReceiverTyped /\ HistoryTyped /\ wire[i] \in Frame BY TypeParts DEF AgreeInv
<1>. PICK f \in Frame : f = wire[i] BY <1>0
<1>1. /\ sending[w] = <<>> /\ reported' = reported /\ overtaken' = overtaken
      /\ holder' = NowNewest(w, sending'[w])
      /\ \A v \in Workers : v # w => sending'[v] = sending[v]
  BY <1>0 DEF Process, ReceiverTyped
<1>2. \A id \in Ids : holder[id] # {w} BY <1>1, IdleHoldsNone
<1>3. ASSUME NEW id \in Ids, id \notin Upserted(sending'[w]), Waits(id)' <=> Waits(id)
      PROVE  NewestIsRight(id)'
  <2>1. holder'[id] = holder[id] BY <1>1, <1>3 DEF NowNewest
  <2>2. \A v \in Workers : holder[id] = {v} => sending'[v] = sending[v] BY <1>1, <1>2
  <2>. QED BY <1>1, <1>3, <2>1, <2>2, KeepsNewest DEF SendInv
<1>4. ASSUME NEW id \in Upserted(sending'[w]), id \in Ids,
             EndsWith(sending'[w], id, Waits(id)')
      PROVE  NewestIsRight(id)'
  <2>1. holder'[id] = {w} BY <1>1, <1>4 DEF NowNewest
  <2>. QED BY <1>4, <2>1, TakesNewest
<1>5. CASE f.kind = "drift"
  <2>1. sending' = sending /\ infer' = infer /\ codex' = codex BY <1>5 DEF Process, receiver
  <2>2. Upserted(sending'[w]) = {} BY <1>1, <2>1 DEF Upserted
  <2>. QED BY <1>3, <2>1, <2>2 DEF SendInv, Waits
<1>6. CASE f.kind # "drift" /\ f.id \in Sessions
  <2>a. PICK m : m = [infer[f.id] EXCEPT !.state = ensure(@)] OBVIOUS
  <2>b. PICK q : q = ClaudeCommands(f.id, claude[f.id], f.kind)
                       \o InferCommands(f.id, m, f.kind, f.tool) OBVIOUS
  <2>c. PICK after : after = InferApply(m, f.kind, f.tool) OBVIOUS
  <2>0. /\ infer[f.id] \in Machine /\ Coherent(infer[f.id]) /\ claude[f.id] \in ClaudeState
        /\ Agree(claude[f.id], infer[f.id]) /\ f.tool \in Tools \cup {NoTool}
    BY <1>0, <1>6 DEF ReceiverTyped, AgreeInv, Frame
  <2>1. /\ m \in Machine /\ Coherent(m)
        /\ infer[f.id].state = "waiting" <=> m.state = "waiting"
        /\ m.state = ensure(infer[f.id].state) /\ m.armed = infer[f.id].armed
    BY <2>a, <2>0, EnsuredType DEF Machine, ensure
  <2>2. Agree(ensure(claude[f.id]), m)
    BY <2>0, <2>1 DEF Agree, ensure
  <2>3. /\ sending' = [sending EXCEPT ![w] = q]
        /\ infer' = [infer EXCEPT ![f.id] = after] /\ codex' = codex
    BY <1>6, <2>a, <2>b, <2>c DEF Process
  <2>4. sending'[w] = q BY <1>0, <2>3 DEF ReceiverTyped
  <2>5. /\ f.id \in Upserted(q) => EndsWith(q, f.id, after.state = "waiting")
        /\ f.id \notin Upserted(q) => after.state = m.state
        /\ \A id \in Upserted(q) : id = f.id
    <3>1. SaysLast(f.id, q, m, after)
      BY <1>6, <2>b, <2>c, <2>0, <2>1, <2>2, LineSays, Zenon
    <3>. QED BY <3>1 DEF SaysLast
  <2>6. /\ Waits(f.id)' <=> after.state = "waiting"
        /\ Waits(f.id) <=> m.state = "waiting"
        /\ \A id \in Ids : id # f.id => (Waits(id)' <=> Waits(id))
    BY <1>0, <1>6, <2>1, <2>3 DEF ReceiverTyped, Waits
  <2>7. f.id \in Upserted(q) => EndsWith(q, f.id, Waits(f.id)')
    BY <2>5, <2>6 DEF EndsWith
  <2>8. ASSUME NEW id \in Ids PROVE NewestIsRight(id)'
    <3>1. CASE id \in Upserted(q)
      <4>1. id = f.id BY <2>5, <3>1
      <4>. QED BY <1>4, <2>4, <2>7, <3>1, <4>1
    <3>2. CASE id \notin Upserted(q)
      <4>1. Waits(id)' <=> Waits(id) BY <2>5, <2>6, <3>2
      <4>. QED BY <1>3, <2>4, <3>2, <4>1
    <3>. QED BY <3>1, <3>2
  <2>. QED BY <2>8 DEF SendInv
<1>7. CASE f.kind # "drift" /\ f.id \notin Sessions
  <2>a. PICK q : q = CodexCommands(f.id, codex[f.id], f.kind) OBVIOUS
  <2>b. PICK after : after = CodexApply(codex[f.id], f.kind) OBVIOUS
  <2>0. f.id \in Threads BY <1>0, <1>7 DEF Frame
  <2>1. codex[f.id] \in CodexState BY <1>0, <2>0 DEF ReceiverTyped
  <2>2. /\ Len(q) \in Nat
        /\ \A k \in 1 .. Len(q) : q[k].id = f.id /\ (q[k].op = "run" => q[k].state = after)
        /\ after # ensure(codex[f.id]) => Len(q) = 1 /\ IsUpsert(q[1], f.id)
    BY <2>a, <2>b, <2>0, <2>1, CodexSends
  <2>3. /\ sending' = [sending EXCEPT ![w] = q] /\ codex' = [codex EXCEPT ![f.id] = after]
        /\ infer' = infer
    BY <1>7, <2>a, <2>b DEF Process
  <2>4. sending'[w] = q BY <1>0, <2>3 DEF ReceiverTyped
  <2>5. /\ Waits(f.id)' <=> after = "waiting"
        /\ Waits(f.id) <=> codex[f.id] = "waiting"
        /\ \A id \in Ids : id # f.id => (Waits(id)' <=> Waits(id))
    BY <1>0, <1>7, <2>0, <2>3 DEF ReceiverTyped, Waits, Ids
  <2>6. \A id \in Upserted(q) : id = f.id BY <2>2 DEF Upserted
  <2>7. \A k \in 1 .. Len(q) : IsUpsert(q[k], f.id) => (q[k].state = "waiting" <=> Waits(f.id)')
    BY <2>2, <2>5 DEF IsUpsert
  <2>8. f.id \in Upserted(q) => EndsWith(q, f.id, Waits(f.id)') BY <2>2, <2>7, AllSay
  <2>9. f.id \notin Upserted(q) => (Waits(f.id)' <=> Waits(f.id))
    <3>1. f.id \notin Upserted(q) => after = ensure(codex[f.id])
      BY <2>2, EndsUpserted
    <3>. QED BY <2>5, <3>1 DEF ensure
  <2>10. ASSUME NEW id \in Ids PROVE NewestIsRight(id)'
    <3>1. CASE id \in Upserted(q)
      <4>1. id = f.id BY <2>6, <3>1
      <4>. QED BY <1>4, <2>4, <2>8, <3>1, <4>1
    <3>2. CASE id \notin Upserted(q)
      <4>1. Waits(id)' <=> Waits(id) BY <2>5, <2>9, <3>2
      <4>. QED BY <1>3, <2>4, <3>2, <4>1
    <3>. QED BY <3>1, <3>2
  <2>. QED BY <2>10 DEF SendInv
<1>. QED BY <1>5, <1>6, <1>7

\* A session that fires waits, and no other stops waiting.
LEMMA TickSent ==
  ASSUME TypeOK, SendInv, NEW w \in Workers, NEW readable \in SUBSET Sessions,
         Tick(w, readable)
  PROVE  SendInv'
<1>. PICK vetoed : vetoed = {s \in pending_fires \cap readable : Verdict(s) = "Resolved"} OBVIOUS
<1>. PICK fired : fired = pending_fires \ vetoed OBVIOUS
<1>0. ReceiverTyped /\ HistoryTyped BY TypeParts
<1>1. /\ sending[w] = <<>> /\ reported' = reported /\ codex' = codex /\ overtaken' = overtaken
      /\ holder' = NowNewest(w, sending'[w])
  BY DEF Tick
<1>2. \A id \in Ids : holder[id] # {w} BY <1>1, IdleHoldsNone
<1>3. PICK order \in Orders(fired) :
        sending' = [sending EXCEPT ![w] =
          [i \in 1 .. Cardinality(fired) |-> Upsert(order[i], "waiting")]]
  BY DEF Tick
<1>4. \A s \in Sessions :
        infer'[s] = IF s \in vetoed THEN Cleared(infer[s])
                    ELSE IF s \in fired THEN Fired(infer[s]) ELSE infer[s]
  BY DEF Tick
<1>5. fired \in SUBSET Sessions /\ \A s \in vetoed \cup fired : infer[s].armed = Window
  BY DEF pending_fires
<1>6. \A s \in Sessions :
        infer'[s].state = "waiting" <=> (infer[s].state = "waiting" \/ s \in fired)
  BY <1>0, <1>4, <1>5, FiredType DEF ReceiverTyped
<1>7. /\ \A id \in fired : Waits(id)'
      /\ \A id \in Ids : id \notin fired => (Waits(id)' <=> Waits(id))
  BY <1>1, <1>5, <1>6 DEF Waits
<1>. PICK q : q = [i \in 1 .. Cardinality(fired) |-> Upsert(order[i], "waiting")] OBVIOUS
<1>8. Cardinality(fired) \in Nat BY <1>5, FiredCount
<1>9. /\ Len(q) = Cardinality(fired)
      /\ \A i \in 1 .. Len(q) : /\ q[i].op = "run" /\ q[i].id = order[i] /\ order[i] \in fired
                                /\ q[i].state = "waiting"
  BY <1>3, <1>8 DEF Orders, Upsert
<1>10. sending'[w] = q /\ \A v \in Workers : v # w => sending'[v] = sending[v]
  BY <1>0, <1>3 DEF ReceiverTyped
<1>11. Upserted(q) = fired BY <1>3, <1>8, <1>9 DEF Upserted, Orders
<1>12. ASSUME NEW id \in Ids PROVE NewestIsRight(id)'
  <2>1. CASE id \in fired
    <3>1. holder'[id] = {w} BY <1>1, <1>10, <1>11, <2>1 DEF NowNewest
    <3>2. EndsWith(q, id, Waits(id)') BY <1>7, <1>8, <1>9, <1>11, <2>1, AllSay
    <3>. QED BY <1>10, <3>1, <3>2, TakesNewest
  <2>2. CASE id \notin fired
    <3>1. holder'[id] = holder[id] BY <1>1, <1>10, <1>11, <2>2 DEF NowNewest
    <3>2. \A v \in Workers : holder[id] = {v} => sending'[v] = sending[v] BY <1>2, <1>10
    <3>. QED BY <1>1, <1>7, <2>2, <3>1, <3>2, KeepsNewest DEF SendInv
  <2>. QED BY <2>1, <2>2
<1>. QED BY <1>12 DEF SendInv

\* The first command says it.
HeadSays(q, id, waits) == IsUpsert(q[1], id) /\ (q[1].state = "waiting" <=> waits)

\* What is left when the first command is sent ends as the whole did, if there
\* is an upsert left.
LEMMA TailEnds ==
  ASSUME NEW q, NEW r, Len(q) \in Nat \ {0}, Len(r) = Len(q) - 1,
         \A k \in 1 .. Len(r) : r[k] = q[k + 1],
         NEW id, NEW waits, EndsWith(q, id, waits)
  PROVE  /\ id \in Upserted(r) => EndsWith(r, id, waits)
         /\ id \notin Upserted(r) => HeadSays(q, id, waits)
<1>1. PICK i \in 1 .. Len(q) :
        /\ IsUpsert(q[i], id)
        /\ \A k \in i .. Len(q) : IsUpsert(q[k], id) => (q[k].state = "waiting" <=> waits)
  BY DEF EndsWith
<1>2. \A j \in 1 .. Len(r) : IsUpsert(r[j], id) => id \in Upserted(r) BY EndsUpserted
<1>3. CASE i # 1
  <2>1. i - 1 \in 1 .. Len(r) /\ r[i - 1] = q[i] BY <1>1, <1>3
  <2>2. ASSUME NEW k \in (i - 1) .. Len(r), IsUpsert(r[k], id)
        PROVE  r[k].state = "waiting" <=> waits
    <3>1. k \in 1 .. Len(r) /\ k + 1 \in i .. Len(q) /\ r[k] = q[k + 1] BY <1>1, <2>1
    <3>. QED BY <1>1, <2>2, <3>1
  <2>3. EndsWith(r, id, waits) BY <1>1, <2>1, <2>2 DEF EndsWith
  <2>. QED BY <1>1, <1>2, <2>1, <2>3
<1>4. CASE i = 1
  <2>1. ASSUME id \in Upserted(r) PROVE EndsWith(r, id, waits)
    <3>1. PICK j \in 1 .. Len(r) : IsUpsert(r[j], id) BY <2>1, EndsUpserted
    <3>2. ASSUME NEW k \in j .. Len(r), IsUpsert(r[k], id)
          PROVE  r[k].state = "waiting" <=> waits
      <4>1. k \in 1 .. Len(r) /\ k + 1 \in i .. Len(q) /\ r[k] = q[k + 1] BY <1>4, <3>1
      <4>. QED BY <1>1, <3>2, <4>1
    <3>. QED BY <3>1, <3>2 DEF EndsWith
  <2>2. 1 \in i .. Len(q) BY <1>4
  <2>. QED BY <1>1, <1>4, <2>1, <2>2 DEF HeadSays
<1>. QED BY <1>3, <1>4

\* The newest is sent, or an older one, before it or after it.
LEMMA SendSent ==
  ASSUME TypeOK, SendInv, NEW w \in Workers, Send(w)
  PROVE  SendInv'
<1>. PICK q : q = sending[w] OBVIOUS
<1>. PICK h : h = Head(q) OBVIOUS
<1>. PICK r : r = Tail(q) OBVIOUS
<1>0. ReceiverTyped /\ HistoryTyped BY TypeParts
<1>1. q \in Seq(Command) /\ q # <<>> BY <1>0 DEF Send, ReceiverTyped
<1>2. /\ h \in Command /\ h = q[1] /\ Len(q) \in Nat \ {0} /\ Len(r) = Len(q) - 1
      /\ \A k \in 1 .. Len(r) : r[k] = q[k + 1]
  BY <1>1, HeadTailProperties
<1>3. /\ sending'[w] = r /\ \A v \in Workers : v # w => sending'[v] = sending[v]
      /\ \A id \in Ids : Waits(id)' <=> Waits(id)
  BY <1>0 DEF Send, receiver, ReceiverTyped, Waits
<1>4. /\ holder \in [Ids -> SUBSET Workers] /\ reported \in [Ids -> InferState]
      /\ overtaken \in SUBSET Ids
  BY <1>0 DEF ReceiverTyped, HistoryTyped
<1>5. h.op = "run" =>
        /\ reported' = [reported EXCEPT ![h.id] = h.state]
        /\ holder' = [holder EXCEPT ![h.id] =
             IF holder[h.id] = {w} /\ h.id \notin Upserted(r) THEN {} ELSE @]
        /\ overtaken' = IF holder[h.id] = {} THEN overtaken \cup {h.id} ELSE overtaken \ {h.id}
  BY DEF Send
<1>6. h.op # "run" => reported' = reported /\ holder' = holder /\ overtaken' = overtaken
  BY DEF Send
<1>7. h.id \in Ids BY <1>2 DEF Command
<1>8. ASSUME NEW id \in Ids, ~IsUpsert(h, id) PROVE NewestIsRight(id)'
  <2>1. /\ reported'[id] = reported[id] /\ holder'[id] = holder[id]
        /\ id \in overtaken <=> id \in overtaken'
    BY <1>4, <1>5, <1>6, <1>7, <1>8 DEF IsUpsert
  <2>2. CASE holder[id] = {w}
    <3>1. EndsWith(q, id, Waits(id)) BY <2>2 DEF SendInv, NewestIsRight
    <3>a. ~HeadSays(q, id, Waits(id)) BY <1>2, <1>8 DEF HeadSays
    <3>2. EndsWith(r, id, Waits(id)) BY <1>2, <3>a, <3>1, TailEnds
    <3>3. EndsWith(r, id, Waits(id)') BY <1>3, <3>2 DEF EndsWith
    <3>. QED BY <1>3, <2>1, <2>2, <3>3, TakesNewest
  <2>3. CASE holder[id] # {w} BY <1>3, <2>1, <2>3, KeepsNewest DEF SendInv
  <2>. QED BY <2>2, <2>3
<1>9. ASSUME NEW id \in Ids, IsUpsert(h, id) PROVE NewestIsRight(id)'
  <2>0. h.op = "run" /\ h.id = id BY <1>9 DEF IsUpsert
  <2>1. /\ reported'[id] = h.state
        /\ holder'[id] = IF holder[id] = {w} /\ id \notin Upserted(r) THEN {} ELSE holder[id]
        /\ holder[id] = {} => id \in overtaken'
    BY <1>4, <1>5, <2>0
  <2>2. CASE holder[id] = {} BY <2>1, <2>2 DEF NewestIsRight
  <2>3. CASE holder[id] = {w}
    <3>1. EndsWith(q, id, Waits(id)) BY <2>3 DEF SendInv, NewestIsRight
    <3>2. CASE id \notin Upserted(r)
      <4>1. HeadSays(q, id, Waits(id)) BY <1>2, <3>1, <3>2, TailEnds
      <4>. QED BY <1>2, <1>3, <2>1, <2>3, <3>2, <4>1 DEF NewestIsRight, HeadSays
    <3>3. CASE id \in Upserted(r)
      <4>1. EndsWith(r, id, Waits(id)) BY <1>2, <3>1, <3>3, TailEnds
      <4>2. EndsWith(r, id, Waits(id)') BY <1>3, <4>1 DEF EndsWith
      <4>. QED BY <1>3, <2>1, <2>3, <3>3, <4>2, TakesNewest
    <3>. QED BY <3>2, <3>3
  <2>4. ASSUME NEW v \in Workers, v # w, holder[id] = {v} PROVE NewestIsRight(id)'
    <3>1. EndsWith(sending[v], id, Waits(id)) BY <2>4 DEF SendInv, NewestIsRight
    <3>2. EndsWith(sending[v], id, Waits(id)') BY <1>3, <3>1 DEF EndsWith
    <3>3. holder'[id] = {v} /\ sending'[v] = sending[v] BY <1>3, <2>1, <2>4
    <3>. QED BY <3>2, <3>3, TakesNewest
  <2>5. holder[id] = {} \/ \E v \in Workers : holder[id] = {v} BY DEF SendInv, NewestIsRight
  <2>. QED BY <2>2, <2>3, <2>4, <2>5
<1>. QED BY <1>8, <1>9 DEF SendInv

\* Nothing is computed or sent.
LEMMA QuietSent ==
  ASSUME SendInv, UNCHANGED <<codex, sending, reported, holder, overtaken>>,
         \A s \in Sessions : infer'[s].state = infer[s].state
  PROVE  SendInv'
<1>1. \A id : Waits(id)' <=> Waits(id) BY DEF Waits
<1>. QED BY <1>1, KeepsNewest DEF SendInv

\* However many workers the runtime has and in whatever order they send: a run is
\* reported as waiting exactly if its machine waits, unless the last upsert of it
\* had been overtaken.
THEOREM NeverStaleUnlessOvertaken == Spec => []NoStaleWaiting
<1>1. AgreeInv /\ SendInv /\ [Next]_vars => SendInv'
  <2>. SUFFICES ASSUME AgreeInv, SendInv, [Next]_vars PROVE SendInv' OBVIOUS
  <2>0. TypeOK /\ ReceiverTyped BY TypeParts DEF AgreeInv
  <2>1. CASE AgentStep BY <2>1, AgentStepLeaves, QuietSent
  <2>2. CASE Elapse
    <3>1. \A s \in Sessions : infer'[s].state = infer[s].state
      BY <2>0, <2>2 DEF Elapse, ReceiverTyped, Machine
    <3>. QED BY <2>2, <3>1, QuietSent DEF Elapse, history
  <2>. QED BY <2>0, <2>1, <2>2, StepKinds, ProcessSent, TickSent, SendSent
<1>2. SendInv => NoStaleWaiting
  <2>. SUFFICES ASSUME SendInv, \A w \in Workers : sending[w] = <<>> PROVE NoStaleWaiting
    BY DEF NoStaleWaiting
  <2>1. ASSUME NEW id \in Ids, id \notin overtaken
        PROVE  reported[id] = "waiting" <=> Waits(id)
    <3>1. \A w \in Workers : holder[id] # {w} BY IdleHoldsNone
    <3>. QED BY <2>1, <3>1 DEF SendInv, NewestIsRight
  <2>. QED BY <2>1, ReceiverConstants DEF NoStaleWaiting, Waits, Ids
<1>. QED BY <1>1, <1>2, SendInit, AgreeInit, AgreeStep, PTL DEF Spec

\* With ids on the hooks the timer raises a waiting only on a session at work
\* and lets a tool off only when that tool has its result.
THEOREM TimerSound == IdsCarried => (Spec => TimerIsSound)
<1>. SUFFICES ASSUME IdsCarried PROVE Spec => TimerIsSound OBVIOUS
<1>1. Spec => [][TimerRaises]_vars BY TimerRaisesOnly
<1>2. Spec => [][TimerLetsOff]_vars BY VetoIsRight
<1>3. [TimerRaises]_vars /\ [TimerLetsOff]_vars => [TimerRaises /\ TimerLetsOff]_vars
  OBVIOUS
<1>. QED BY <1>1, <1>2, <1>3, PTL DEF TimerIsSound

-----------------------------------------------------------------------------
(* The settings: what an entry of the manifest says of its backup.         *)

Original(t) == backup[t] = pre[t] \/ pre[t] = NoFile

\* What an entry that is in the manifest, or will be, says of the backup.
EntryHolds(t, entry) ==
  ~astray[t] =>
    /\ entry = "fresh" => pre[t] = NoFile
    /\ entry = "kept" /\ backup[t] # NoFile => Original(t) /\ (~cut => backup[t] = pre[t])

\* The backup of an entry goes with it.
BackedUp(t, entry) == ~cut /\ entry = "kept" => backup[t] # NoFile

\* The manifest, whatever command runs.
ManifestHolds ==
  \A t \in Agents :
    /\ EntryHolds(t, manifest[t])
    /\ cmd.name # "uninit" => BackedUp(t, manifest[t])

\* An init's own copy of the manifest; it has not got to Codex yet at first.
InitHolds ==
  cmd.name = "init" =>
    /\ cmd.at \in {"read", "backup", "write", "save"}
    /\ \A t \in Agents : EntryHolds(t, cmd.log[t]) /\ BackedUp(t, cmd.log[t])
    /\ cmd.at # "save" => cmd.log[cmd.tool] = manifest[cmd.tool]
    /\ cmd.at # "save" /\ cmd.tool = "claude" => cmd.log = manifest

\* Once a file has been read, and once it has its backup.
BackupHolds ==
  /\ At("init", "backup") /\ ~astray[cmd.tool] =>
       /\ cmd.log[cmd.tool] = "none" => pre[cmd.tool] = file[cmd.tool]
       /\ Original(cmd.tool) \/ (backup[cmd.tool] = NoFile /\ pre[cmd.tool] = file[cmd.tool])
  /\ At("init", "write") /\ ~astray[cmd.tool] =>
       /\ cmd.log[cmd.tool] = "none" => pre[cmd.tool] = file[cmd.tool]
       /\ Original(cmd.tool)
  /\ At("init", "write") /\ file[cmd.tool] # NoFile => backup[cmd.tool] # NoFile

\* An uninit at work.
UninitHolds ==
  /\ cmd.name # "uninit" => cmd.left = {}
  /\ cmd.name = "uninit" =>
       /\ cmd.at \in {"entry", "unback"}
       /\ cmd.log = manifest
       /\ \A t \in cmd.left : cmd.log[t] # "none" /\ BackedUp(t, cmd.log[t])
       /\ cmd.at = "unback" =>
            /\ cmd.tool \in cmd.left /\ cmd.log[cmd.tool] = "kept"
            /\ file[cmd.tool] = backup[cmd.tool] /\ backup[cmd.tool] # NoFile

\* What an uninit is to restore has none of Fleet's hooks.
PreClean == \A t \in Agents : HooksIn(pre[t]) = {}

IInv ==
  PreClean /\ InstallTypeOK /\ ManifestHolds /\ InitHolds /\ BackupHolds /\ UninitHolds /\ OriginalAtHand

-----------------------------------------------------------------------------
LEMMA InitInv == InstallInit => IInv
<1>. SUFFICES ASSUME InstallInit PROVE IInv
     OBVIOUS
<1>. USE InstallerConstants DEF InstallInit, Idle, NoEntries, Agents
<1>1. /\ [own |-> 0, hooks |-> {}] \in Content
      /\ \A t \in Agents : HooksIn(file[t]) = {}
  BY DEF Content, HooksIn
<1>2. InstallTypeOK BY <1>1 DEF InstallTypeOK, Entry
<1>3. ManifestHolds /\ OriginalAtHand BY <1>1 DEF ManifestHolds, OriginalAtHand, EntryHolds, BackedUp
<1>4. InitHolds /\ BackupHolds /\ UninitHolds /\ PreClean
  BY <1>1 DEF InitHolds, BackupHolds, UninitHolds, PreClean, At
<1>5. QED BY <1>2, <1>3, <1>4 DEF IInv

LEMMA DoInitKeeps ==
  ASSUME IInv, do_init
  PROVE  IInv'
<1>. USE InstallerConstants DEF IInv, do_init, Idle, Agents, At, disk, past
<1>1. InstallTypeOK' BY DEF InstallTypeOK
<1>2. ManifestHolds' BY DEF ManifestHolds, EntryHolds, BackedUp, Original
<1>3. InitHolds' BY DEF InitHolds, EntryHolds, BackedUp, Original, ManifestHolds
<1>4. BackupHolds' BY DEF BackupHolds
<1>5. UninitHolds' BY DEF UninitHolds
<1>6. OriginalAtHand' BY DEF OriginalAtHand
<1>7. PreClean' BY DEF PreClean
<1>8. QED BY <1>1, <1>2, <1>3, <1>4, <1>5, <1>6, <1>7

LEMMA ReadKeeps ==
  ASSUME IInv, Read
  PROVE  IInv'
<1>. USE InstallerConstants DEF IInv, Read, Idle, NoEntries, Agents, At, AfterTool, disk
<1>1. InstallTypeOK'
  <2>. DEFINE t == cmd.tool
  <2>1. t \in Agents /\ cmd.log \in [Agents -> Entry] BY DEF InstallTypeOK
  <2>2. cmd' \in {AfterTool(cmd), [cmd EXCEPT !.at = "backup"]} BY DEF Read
  <2>3. cmd' \in [name : {"none", "init", "uninit"}, tool : Agents, log : [Agents -> Entry],
                  at : {"start", "read", "backup", "write", "save", "entry", "unback"},
                  modified : BOOLEAN, left : SUBSET Agents]
    BY <2>2 DEF InstallTypeOK, Entry
  <2>4. pre' \in [Agents -> Content \cup {NoFile}] BY <2>1 DEF InstallTypeOK
  <2>5. Remains(t) \in BOOLEAN BY DEF Remains
  <2>6. astray' \in [Agents -> BOOLEAN] BY <2>1, <2>5 DEF InstallTypeOK
  <2>7. QED BY <2>3, <2>4, <2>6 DEF InstallTypeOK
<1>2. ManifestHolds' BY DEF ManifestHolds, EntryHolds, BackedUp, Original, InitHolds, Begins
<1>3. InitHolds' BY DEF InitHolds, EntryHolds, BackedUp, Original, Begins
<1>4. BackupHolds' BY ZenonT(60) DEF BackupHolds, InstallTypeOK, EntryHolds, Original, OriginalAtHand, InitHolds, Begins, Remains, Entry
<1>5. UninitHolds' BY DEF UninitHolds
<1>6. OriginalAtHand' BY DEF OriginalAtHand, InstallTypeOK, Begins, Remains
<1>7. PreClean' BY DEF PreClean, Begins
<1>8. QED BY <1>1, <1>2, <1>3, <1>4, <1>5, <1>6, <1>7

LEMMA BackupKeeps ==
  ASSUME IInv, Backup
  PROVE  IInv'
<1>. USE InstallerConstants DEF IInv, Backup, At, past
<1>1. InstallTypeOK' BY DEF InstallTypeOK, maybe_backup
<1>2. ManifestHolds' BY DEF ManifestHolds, EntryHolds, BackedUp, Original, maybe_backup, BackupHolds
<1>3. InitHolds' BY DEF InitHolds, EntryHolds, BackedUp, Original, maybe_backup, BackupHolds
<1>4. BackupHolds' BY DEF BackupHolds, InstallTypeOK, Original, maybe_backup
<1>5. UninitHolds' BY DEF UninitHolds
<1>6. OriginalAtHand' BY DEF OriginalAtHand, maybe_backup
<1>7. PreClean' BY DEF PreClean
<1>8. QED BY <1>1, <1>2, <1>3, <1>4, <1>5, <1>6, <1>7

LEMMA WriteKeeps ==
  ASSUME IInv, Write
  PROVE  IInv'
<1>. USE InstallerConstants DEF IInv, Write, Agents, At, AfterTool, past
<1>1. InstallTypeOK' BY ZenonT(60) DEF InstallTypeOK, Content, Entry, OwnIn, Injected, inject_claude_hooks, inject_codex_config,
            HooksIn, Recorded
<1>2. ManifestHolds' BY DEF ManifestHolds, EntryHolds, BackedUp, Original
<1>3. InitHolds' BY DEF InitHolds, EntryHolds, BackedUp, Original, Recorded, BackupHolds
<1>4. BackupHolds' BY DEF BackupHolds
<1>5. UninitHolds' BY DEF UninitHolds
<1>6. OriginalAtHand' BY DEF OriginalAtHand, Original, BackupHolds
<1>7. PreClean' BY DEF PreClean
<1>8. QED BY <1>1, <1>2, <1>3, <1>4, <1>5, <1>6, <1>7

LEMMA SaveKeeps ==
  ASSUME IInv, Save
  PROVE  IInv'
<1>. USE InstallerConstants DEF IInv, Save, Idle, NoEntries, Agents, At, past
<1>1. InstallTypeOK' BY DEF InstallTypeOK, Entry
<1>2. ManifestHolds' BY DEF ManifestHolds, EntryHolds, BackedUp, Original, InitHolds
<1>3. InitHolds' BY DEF InitHolds
<1>4. BackupHolds' BY DEF BackupHolds
<1>5. UninitHolds' BY DEF UninitHolds
<1>6. OriginalAtHand' BY DEF OriginalAtHand
<1>7. PreClean' BY DEF PreClean
<1>8. QED BY <1>1, <1>2, <1>3, <1>4, <1>5, <1>6, <1>7

LEMMA DoUninitKeeps ==
  ASSUME IInv, do_uninit
  PROVE  IInv'
<1>. USE InstallerConstants DEF IInv, do_uninit, Idle, Agents, At, disk, past
<1>1. InstallTypeOK' BY DEF InstallTypeOK
<1>2. ManifestHolds' BY DEF ManifestHolds, EntryHolds, Original
<1>3. InitHolds' BY DEF InitHolds
<1>4. BackupHolds' BY DEF BackupHolds
<1>5. UninitHolds' BY DEF UninitHolds, BackedUp, ManifestHolds
<1>6. OriginalAtHand' BY DEF OriginalAtHand
<1>7. PreClean' BY DEF PreClean
<1>8. QED BY <1>1, <1>2, <1>3, <1>4, <1>5, <1>6, <1>7

LEMMA RestoreKeeps ==
  ASSUME IInv, NEW t \in Agents, Restore(t)
  PROVE  IInv'
<1>. USE InstallerConstants DEF IInv, Restore, past
<1>1. InstallTypeOK' BY DEF InstallTypeOK
<1>2. ManifestHolds' BY DEF ManifestHolds, EntryHolds, Original, UninitHolds
<1>3. InitHolds' BY DEF InitHolds, UninitHolds
<1>4. BackupHolds' BY DEF BackupHolds, EntryHolds, Original, ManifestHolds, UninitHolds
<1>5. UninitHolds' BY DEF UninitHolds, InstallTypeOK, BackedUp
<1>6. OriginalAtHand' BY DEF OriginalAtHand, EntryHolds, Original, ManifestHolds, UninitHolds
<1>7. PreClean' BY DEF PreClean
<1>8. QED BY <1>1, <1>2, <1>3, <1>4, <1>5, <1>6, <1>7

LEMMA RemoveBackupKeeps ==
  ASSUME IInv, RemoveBackup
  PROVE  IInv'
<1>. USE InstallerConstants DEF IInv, RemoveBackup, At, Undone, past
<1>1. InstallTypeOK' BY DEF InstallTypeOK
<1>2. ManifestHolds' BY DEF ManifestHolds, EntryHolds, Original
<1>3. InitHolds' BY DEF InitHolds
<1>4. BackupHolds' BY DEF BackupHolds
<1>5. UninitHolds' BY DEF UninitHolds, BackedUp
<1>6. OriginalAtHand'
  BY DEF OriginalAtHand, InstallTypeOK, EntryHolds, Original, HooksIn, ManifestHolds, UninitHolds, PreClean
<1>7. PreClean' BY DEF PreClean
<1>8. QED BY <1>1, <1>2, <1>3, <1>4, <1>5, <1>6, <1>7

LEMMA RemoveKeeps ==
  ASSUME IInv, NEW t \in Agents, Remove(t)
  PROVE  IInv'
<1>. USE InstallerConstants DEF IInv, Remove, At, Undone, past
<1>1. InstallTypeOK' BY DEF InstallTypeOK
<1>2. ManifestHolds' BY DEF ManifestHolds, EntryHolds, Original
<1>3. InitHolds' BY DEF InitHolds
<1>4. BackupHolds' BY DEF BackupHolds
<1>5. UninitHolds' BY DEF UninitHolds, BackedUp
<1>6. OriginalAtHand' BY DEF OriginalAtHand, HooksIn
<1>7. PreClean' BY DEF PreClean
<1>8. QED BY <1>1, <1>2, <1>3, <1>4, <1>5, <1>6, <1>7

LEMMA RemoveManifestKeeps ==
  ASSUME IInv, RemoveManifest
  PROVE  IInv'
<1>. USE InstallerConstants DEF IInv, RemoveManifest, Idle, NoEntries, Agents, At, past
<1>1. InstallTypeOK' BY DEF InstallTypeOK, Entry
<1>2. ManifestHolds' BY DEF ManifestHolds, EntryHolds, BackedUp
<1>3. InitHolds' BY DEF InitHolds
<1>4. BackupHolds' BY DEF BackupHolds
<1>5. UninitHolds' BY DEF UninitHolds
<1>6. OriginalAtHand' BY DEF OriginalAtHand
<1>7. PreClean' BY DEF PreClean
<1>8. QED BY <1>1, <1>2, <1>3, <1>4, <1>5, <1>6, <1>7

LEMMA StopKeeps ==
  ASSUME IInv, Stop
  PROVE  IInv'
<1>. USE InstallerConstants DEF IInv, Stop, Idle, NoEntries, Agents, At, disk
<1>1. InstallTypeOK' BY DEF InstallTypeOK, Entry
<1>2. ManifestHolds' BY DEF ManifestHolds, EntryHolds, BackedUp, Original
<1>3. InitHolds' BY DEF InitHolds
<1>4. BackupHolds' BY DEF BackupHolds
<1>5. UninitHolds' BY DEF UninitHolds
<1>6. OriginalAtHand' BY DEF OriginalAtHand
<1>7. PreClean' BY DEF PreClean
<1>8. QED BY <1>1, <1>2, <1>3, <1>4, <1>5, <1>6, <1>7

LEMMA UserWritesKeeps ==
  ASSUME IInv, NEW t \in Agents, NEW hooks \in SUBSET Events, hooks \subseteq HooksIn(file[t]),
         UserWrites(t, hooks)
  PROVE  IInv'
<1>. USE InstallerConstants DEF IInv, UserWrites, At, past
<1>1. InstallTypeOK' BY DEF InstallTypeOK, Content
<1>2. ManifestHolds' BY DEF ManifestHolds, EntryHolds, BackedUp, Original
<1>3. InitHolds' BY DEF InitHolds
<1>4. BackupHolds' BY DEF BackupHolds
<1>5. UninitHolds' BY DEF UninitHolds
<1>6. OriginalAtHand'
  <2>1. file'[t] \in Content BY DEF Content, InstallTypeOK
  <2>2. HooksIn(file'[t]) = hooks BY <2>1 DEF HooksIn, InstallTypeOK
  <2>3. QED BY <2>2 DEF OriginalAtHand
<1>7. PreClean' BY DEF PreClean
<1>8. QED BY <1>1, <1>2, <1>3, <1>4, <1>5, <1>6, <1>7

LEMMA UserRemovesKeeps ==
  ASSUME IInv, NEW t \in Agents, UserRemoves(t)
  PROVE  IInv'
<1>. USE InstallerConstants DEF IInv, UserRemoves, At, past
<1>1. InstallTypeOK' BY DEF InstallTypeOK
<1>2. ManifestHolds' BY DEF ManifestHolds, EntryHolds, BackedUp, Original
<1>3. InitHolds' BY DEF InitHolds
<1>4. BackupHolds' BY DEF BackupHolds
<1>5. UninitHolds' BY DEF UninitHolds
<1>6. OriginalAtHand' BY DEF OriginalAtHand, HooksIn
<1>7. PreClean' BY DEF PreClean
<1>8. QED BY <1>1, <1>2, <1>3, <1>4, <1>5, <1>6, <1>7

LEMMA NextInv == IInv /\ [InstallNext]_installVars => IInv'
<1>. SUFFICES ASSUME IInv, [InstallNext]_installVars PROVE IInv'
     OBVIOUS
<1>1. CASE UNCHANGED installVars
  BY <1>1 DEF installVars, disk, past, IInv, InstallTypeOK, ManifestHolds, InitHolds, BackupHolds, UninitHolds,
     OriginalAtHand, EntryHolds, BackedUp, Original, At, PreClean
<1>2. CASE InstallNext
  BY <1>2, DoInitKeeps, ReadKeeps, BackupKeeps, WriteKeeps, SaveKeeps, DoUninitKeeps, RestoreKeeps,
     RemoveBackupKeeps, RemoveKeeps, RemoveManifestKeeps, StopKeeps, UserWritesKeeps, UserRemovesKeeps
     DEF InstallNext
<1>3. QED BY <1>1, <1>2

THEOREM Invariance == InstallSpec => []IInv
BY InitInv, NextInv, PTL DEF InstallSpec

\* Every variable of the installer keeps its type (init.rs 70-140).
THEOREM InstallTypeCorrect == InstallSpec => []InstallTypeOK
BY Invariance, PTL DEF IInv

\* For any hooks and any number of changes, the settings from before Fleet are
\* beside a file with Fleet's hooks, wherever the commands are cut short.
THEOREM OriginalKept == InstallSpec => []OriginalAtHand
BY Invariance, PTL DEF IInv

\* The entries an uninit has still to undo are fewer only when one is undone.
LEMMA UndoneIsPre ==
  ASSUME IInv, [InstallNext]_installVars, NEW t \in Agents,
         t \in cmd.left, cmd'.name = "uninit", t \notin cmd'.left, ~astray[t], ~cut
  PROVE  file'[t] = pre[t]
<1>. USE DEF IInv, At, Undone
<1>1. CASE RemoveBackup
  <2>1. cmd.tool = t BY <1>1 DEF RemoveBackup
  <2>2. QED BY <1>1, <2>1 DEF RemoveBackup, UninitHolds, ManifestHolds, EntryHolds
<1>2. ASSUME NEW u \in Agents, Remove(u) PROVE file'[t] = pre[t]
  <2>1. u = t BY <1>2 DEF Remove
  <2>2. cmd.log[t] = "fresh" /\ cmd.log = manifest
    BY <1>2, <2>1 DEF Remove, UninitHolds, BackedUp, InstallTypeOK, Entry
  <2>3. QED BY <1>2, <2>1, <2>2 DEF Remove, ManifestHolds, EntryHolds, InstallTypeOK
<1>3. cmd.name = "uninit" BY DEF UninitHolds
<1>4. ~(do_init \/ do_uninit \/ Read \/ Backup \/ Write \/ Save)
  BY <1>3 DEF do_init, do_uninit, Read, Backup, Write, Save
<1>5. ~\E u \in Agents : UserRemoves(u) \/ (\E hooks \in SUBSET Events : UserWrites(u, hooks))
  BY <1>3 DEF UserRemoves, UserWrites
<1>6. ~RemoveManifest /\ ~Stop BY DEF RemoveManifest, Stop, Idle
<1>7. ~\E u \in Agents : Restore(u) BY DEF Restore, InstallTypeOK
<1>8. UNCHANGED installVars => FALSE BY DEF installVars
<1>9. QED BY <1>1, <1>2, <1>4, <1>5, <1>6, <1>7, <1>8 DEF InstallNext

\* For any hooks and any number of changes, an uninit leaves each file it undoes
\* as it was before Fleet, unless an init met remains or an uninit was cut.
THEOREM UninitReverses == InstallSpec => UninitRestores
<1>1. IInv /\ [InstallNext]_installVars =>
        [\A t \in Agents :
           t \in cmd.left /\ cmd'.name = "uninit" /\ t \notin cmd'.left /\ ~astray[t] /\ ~cut
             => file'[t] = pre[t]]_installVars
  BY UndoneIsPre
<1>2. QED BY <1>1, Invariance, PTL DEF InstallSpec, UninitRestores

-----------------------------------------------------------------------------
(* The link: the views a Hub passes through, the cores a reporter does.    *)

\* A set of numbers that is not empty has a least one.
LEMMA LeastNat ==
  ASSUME NEW T \in SUBSET Nat, T # {}
  PROVE  \E x \in T : \A y \in T : x <= y
<1>. DEFINE Less == {ss \in Nat \X Nat : ss[1] < ss[2]}
<1>1. IsWellFoundedOn(Less, Nat) BY NatLessThanWellFounded DEF OpToRel
<1>. HIDE DEF Less
<1>2. PICK x \in T : \A y \in T : ~ (<<y, x>> \in Less) BY <1>1, WFMin
<1>3. ASSUME NEW y \in T PROVE x <= y
  <2>1. ~ (<<y, x>> \in Less) BY <1>2
  <2>2. x \in Nat /\ y \in Nat OBVIOUS
  <2>3. ~ (y < x) BY <2>1, <2>2 DEF Less
  <2>. QED BY <2>2, <2>3
<1>. QED BY <1>3

\* A queue is its head and then its tail.
LEMMA HeadFirst ==
  ASSUME NEW S, NEW w \in Seq(S), w # <<>>
  PROVE  w = <<Head(w)>> \o Tail(w)
<1>1. Len(w) \in Nat \ {0} /\ w[1] = Head(w) BY EmptySeq
<1>2. SubSeq(w, 1, Len(w)) = <<w[1]>> \o SubSeq(w, 1 + 1, Len(w))
  BY <1>1, SubSeqRecursiveFirst
<1>3. SubSeq(w, 1, Len(w)) = w BY SubSeqFull
<1>4. Tail(w) = SubSeq(w, 2, Len(w)) BY TailIsSubSeq
<1>. QED BY <1>1, <1>2, <1>3, <1>4

\* g lists the views the Hub passes through as it reads the first n of msgs.
Reading(g, n, v, msgs) ==
  g = [k \in 0..n |-> IF k = 0 THEN v ELSE Reads(g[k - 1], msgs[k])]

\* There is such a list, for every number of msgs.
LEMMA ReadingExists ==
  ASSUME NEW v, NEW msgs, NEW n \in Nat
  PROVE  \E g : Reading(g, n, v, msgs)
<1>. DEFINE Lacks == {k \in Nat : ~ \E g : Reading(g, k, v, msgs)}
<1>. SUFFICES ASSUME Lacks # {} PROVE FALSE OBVIOUS
<1>1. PICK l \in Lacks : \A k \in Lacks : l <= k
  <2>. HIDE DEF Lacks
  <2>. SUFFICES Lacks \in SUBSET Nat BY LeastNat
  <2>. QED BY DEF Lacks
<1>2. CASE l = 0
  <2>1. Reading([k \in 0..0 |-> v], 0, v, msgs) BY DEF Reading
  <2>. QED BY <1>2, <2>1
<1>3. CASE l # 0
  <2>1. l - 1 \in Nat /\ l - 1 \notin Lacks BY <1>1, <1>3
  <2>2. PICK g : Reading(g, l - 1, v, msgs) BY <2>1
  <2>. DEFINE h == [k \in 0..l |-> IF k = l THEN Reads(g[l - 1], msgs[l]) ELSE g[k]]
  <2>3. g = [k \in 0..(l - 1) |-> IF k = 0 THEN v ELSE Reads(g[k - 1], msgs[k])]
    BY <2>2 DEF Reading
  <2>4. \A k \in 0..l : h[k] = IF k = 0 THEN v ELSE Reads(h[k - 1], msgs[k])
    <3>. TAKE k \in 0..l
    <3>1. CASE k = 0 BY <1>3, <2>1, <2>3, <3>1
    <3>2. CASE k # 0 /\ k # l
      <4>1. k \in 0..(l - 1) /\ k - 1 \in 0..l /\ k - 1 # l BY <2>1, <3>2
      <4>2. h[k] = g[k] /\ h[k - 1] = g[k - 1] BY <3>2, <4>1
      <4>3. g[k] = Reads(g[k - 1], msgs[k]) BY <2>3, <3>2, <4>1
      <4>. QED BY <3>2, <4>2, <4>3
    <3>3. CASE k = l
      <4>1. l - 1 \in 0..l /\ l - 1 # l BY <2>1
      <4>. QED BY <1>3, <3>3, <4>1
    <3>. QED BY <3>1, <3>2, <3>3
  <2>5. h = [k \in 0..l |-> IF k = 0 THEN v ELSE Reads(h[k - 1], msgs[k])]
    BY <2>4
  <2>. HIDE DEF h
  <2>6. Reading(h, l, v, msgs) BY <2>5 DEF Reading
  <2>. QED BY <2>6
<1>. QED BY <1>2, <1>3

\* ... and only one.
LEMMA ReadingUnique ==
  ASSUME NEW v, NEW msgs, NEW n \in Nat, NEW g, NEW h,
         Reading(g, n, v, msgs), Reading(h, n, v, msgs)
  PROVE  g[n] = h[n]
<1>. DEFINE Differ == {k \in 0..n : g[k] # h[k]}
<1>. SUFFICES ASSUME Differ # {} PROVE FALSE OBVIOUS
<1>1. PICK l \in Differ : \A k \in Differ : l <= k
  <2>. HIDE DEF Differ
  <2>. SUFFICES Differ \in SUBSET Nat BY LeastNat
  <2>. QED BY DEF Differ
<1>2. /\ g[l] = IF l = 0 THEN v ELSE Reads(g[l - 1], msgs[l])
      /\ h[l] = IF l = 0 THEN v ELSE Reads(h[l - 1], msgs[l])
  BY <1>1 DEF Reading
<1>3. l # 0 BY <1>2
<1>4. l - 1 \in 0..n /\ l - 1 \notin Differ BY <1>1, <1>3
<1>5. g[l - 1] = h[l - 1] BY <1>4
<1>. QED BY <1>1, <1>2, <1>3, <1>5

\* ReadAll is where the list ends.
LEMMA ReadEnds ==
  ASSUME NEW v, NEW msgs, Len(msgs) \in Nat, NEW g, Reading(g, Len(msgs), v, msgs)
  PROVE  ReadAll(v, msgs) = g[Len(msgs)]
<1>. DEFINE n == Len(msgs)
            a == CHOOSE a : Reading(a, n, v, msgs)
<1>1. Reading(a, n, v, msgs) OBVIOUS
<1>2. ReadAll(v, msgs) = a[n] BY DEF ReadAll, Reading
<1>. HIDE DEF a
<1>. QED BY <1>1, <1>2, ReadingUnique

\* Reading nothing changes nothing.
LEMMA ReadNone ==
  ASSUME NEW v
  PROVE  ReadAll(v, <<>>) = v
<1>1. Reading([k \in 0..0 |-> v], Len(<<>>), v, <<>>) BY DEF Reading
<1>. QED BY <1>1, ReadEnds

\* Reading one sequence and then another is reading them as one.
LEMMA ReadConcat ==
  ASSUME NEW S, NEW v, NEW s \in Seq(S), NEW t \in Seq(S)
  PROVE  ReadAll(v, s \o t) = ReadAll(ReadAll(v, s), t)
<1>. DEFINE st == s \o t
            i  == Len(s)
            j  == Len(t)
<1>1. /\ i \in Nat /\ j \in Nat /\ Len(st) = i + j
      /\ \A k \in 1..i : st[k] = s[k]
      /\ \A k \in 1..j : st[i + k] = t[k]
  OBVIOUS
<1>. HIDE DEF st, i, j
<1>2. PICK g : Reading(g, i + j, v, st)
  <2>1. i + j \in Nat BY <1>1
  <2>. QED BY <2>1, ReadingExists
<1>3. g = [k \in 0..(i + j) |-> IF k = 0 THEN v ELSE Reads(g[k - 1], st[k])]
  BY <1>2 DEF Reading
<1>. DEFINE gs == [k \in 0..i |-> g[k]]
            gt == [k \in 0..j |-> g[i + k]]
<1>4. Reading(gs, i, v, s)
  <2>1. \A k \in 0..i : gs[k] = IF k = 0 THEN v ELSE Reads(gs[k - 1], s[k])
    <3>. TAKE k \in 0..i
    <3>1. CASE k = 0 BY <1>1, <1>3, <3>1
    <3>2. CASE k # 0
      <4>1. k \in 1..i /\ k \in 0..(i + j) /\ k - 1 \in 0..i BY <1>1, <3>2
      <4>. QED BY <1>1, <1>3, <3>2, <4>1
    <3>. QED BY <3>1, <3>2
  <2>2. gs = [k \in 0..i |-> IF k = 0 THEN v ELSE Reads(gs[k - 1], s[k])]
    BY <2>1
  <2>. HIDE DEF gs
  <2>. QED BY <2>2 DEF Reading
<1>5. Reading(gt, j, g[i], t)
  <2>1. \A k \in 0..j : gt[k] = IF k = 0 THEN g[i] ELSE Reads(gt[k - 1], t[k])
    <3>. TAKE k \in 0..j
    <3>1. CASE k = 0 BY <1>1, <3>1
    <3>2. CASE k # 0
      <4>1. k \in 1..j /\ i + k \in 0..(i + j) /\ k - 1 \in 0..j /\ i + k # 0 BY <1>1, <3>2
      <4>2. gt[k] = g[i + k] /\ gt[k - 1] = g[i + (k - 1)] BY <4>1
      <4>3. g[i + k] = Reads(g[(i + k) - 1], st[i + k]) BY <1>3, <4>1
      <4>4. (i + k) - 1 = i + (k - 1) /\ st[i + k] = t[k] BY <1>1, <4>1
      <4>. QED BY <3>2, <4>2, <4>3, <4>4
    <3>. QED BY <3>1, <3>2
  <2>2. gt = [k \in 0..j |-> IF k = 0 THEN g[i] ELSE Reads(gt[k - 1], t[k])]
    BY <2>1
  <2>. HIDE DEF gt
  <2>. QED BY <2>2 DEF Reading
<1>6. ReadAll(v, s) = g[i]
  <2>1. gs[i] = g[i] BY <1>1
  <2>. HIDE DEF gs
  <2>. QED BY <1>1, <1>4, <2>1, ReadEnds DEF i
<1>7. ReadAll(g[i], t) = g[i + j]
  <2>1. gt[j] = g[i + j] BY <1>1
  <2>. HIDE DEF gt
  <2>. QED BY <1>1, <1>5, <2>1, ReadEnds DEF j
<1>8. ReadAll(v, st) = g[i + j] BY <1>1, <1>2, ReadEnds
<1>. QED BY <1>6, <1>7, <1>8 DEF st

\* Reading one frame is one step.
LEMMA ReadOne ==
  ASSUME NEW v, NEW msg
  PROVE  ReadAll(v, <<msg>>) = Reads(v, msg)
<1>. DEFINE g == [k \in 0..1 |-> IF k = 0 THEN v ELSE Reads(v, msg)]
<1>1. Len(<<msg>>) = 1 /\ <<msg>>[1] = msg OBVIOUS
<1>2. \A k \in 0..1 : g[k] = IF k = 0 THEN v ELSE Reads(g[k - 1], <<msg>>[k])
  OBVIOUS
<1>3. Reading(g, 1, v, <<msg>>)
  <2>1. g = [k \in 0..1 |-> IF k = 0 THEN v ELSE Reads(g[k - 1], <<msg>>[k])]
    BY <1>2
  <2>. HIDE DEF g
  <2>. QED BY <2>1 DEF Reading
<1>4. g[1] = Reads(v, msg) OBVIOUS
<1>. HIDE DEF g
<1>. QED BY <1>1, <1>3, <1>4, ReadEnds

\* Reading the first frame and then the others is reading them all.
LEMMA ReadHead ==
  ASSUME NEW S, NEW v, NEW q \in Seq(S), q # <<>>
  PROVE  ReadAll(v, q) = ReadAll(Reads(v, Head(q)), Tail(q))
<1>. DEFINE one == <<Head(q)>>
            rest == Tail(q)
<1>1. q = one \o rest BY HeadFirst
<1>2. Head(q) \in S /\ rest \in Seq(S) OBVIOUS
<1>3. one \in Seq(S) BY <1>2
<1>4. ReadAll(v, one) = Reads(v, Head(q)) BY ReadOne
<1>. HIDE DEF one, rest
<1>5. ReadAll(v, one \o rest) = ReadAll(ReadAll(v, one), rest)
  BY <1>2, <1>3, ReadConcat
<1>. QED BY <1>1, <1>4, <1>5 DEF rest

\* g lists the cores a reporter passes through as it applies the first n of cmds.
Pumping(g, n, c, cmds) ==
  g = [k \in 0..n |-> IF k = 0 THEN c ELSE apply(g[k - 1], cmds[k])]

\* There is such a list, for every number of cmds.
LEMMA PumpingExists ==
  ASSUME NEW c, NEW cmds, NEW n \in Nat
  PROVE  \E g : Pumping(g, n, c, cmds)
<1>. DEFINE Lacks == {k \in Nat : ~ \E g : Pumping(g, k, c, cmds)}
<1>. SUFFICES ASSUME Lacks # {} PROVE FALSE OBVIOUS
<1>1. PICK l \in Lacks : \A k \in Lacks : l <= k
  <2>. HIDE DEF Lacks
  <2>. SUFFICES Lacks \in SUBSET Nat BY LeastNat
  <2>. QED BY DEF Lacks
<1>2. CASE l = 0
  <2>1. Pumping([k \in 0..0 |-> c], 0, c, cmds) BY DEF Pumping
  <2>. QED BY <1>2, <2>1
<1>3. CASE l # 0
  <2>1. l - 1 \in Nat /\ l - 1 \notin Lacks BY <1>1, <1>3
  <2>2. PICK g : Pumping(g, l - 1, c, cmds) BY <2>1
  <2>. DEFINE h == [k \in 0..l |-> IF k = l THEN apply(g[l - 1], cmds[l]) ELSE g[k]]
  <2>3. g = [k \in 0..(l - 1) |-> IF k = 0 THEN c ELSE apply(g[k - 1], cmds[k])]
    BY <2>2 DEF Pumping
  <2>4. \A k \in 0..l : h[k] = IF k = 0 THEN c ELSE apply(h[k - 1], cmds[k])
    <3>. TAKE k \in 0..l
    <3>1. CASE k = 0 BY <1>3, <2>1, <2>3, <3>1
    <3>2. CASE k # 0 /\ k # l
      <4>1. k \in 0..(l - 1) /\ k - 1 \in 0..l /\ k - 1 # l BY <2>1, <3>2
      <4>2. h[k] = g[k] /\ h[k - 1] = g[k - 1] BY <3>2, <4>1
      <4>3. g[k] = apply(g[k - 1], cmds[k]) BY <2>3, <3>2, <4>1
      <4>. QED BY <3>2, <4>2, <4>3
    <3>3. CASE k = l
      <4>1. l - 1 \in 0..l /\ l - 1 # l BY <2>1
      <4>. QED BY <1>3, <3>3, <4>1
    <3>. QED BY <3>1, <3>2, <3>3
  <2>5. h = [k \in 0..l |-> IF k = 0 THEN c ELSE apply(h[k - 1], cmds[k])]
    BY <2>4
  <2>. HIDE DEF h
  <2>6. Pumping(h, l, c, cmds) BY <2>5 DEF Pumping
  <2>. QED BY <2>6
<1>. QED BY <1>2, <1>3

\* ... and only one.
LEMMA PumpingUnique ==
  ASSUME NEW c, NEW cmds, NEW n \in Nat, NEW g, NEW h,
         Pumping(g, n, c, cmds), Pumping(h, n, c, cmds)
  PROVE  g[n] = h[n]
<1>. DEFINE Differ == {k \in 0..n : g[k] # h[k]}
<1>. SUFFICES ASSUME Differ # {} PROVE FALSE OBVIOUS
<1>1. PICK l \in Differ : \A k \in Differ : l <= k
  <2>. HIDE DEF Differ
  <2>. SUFFICES Differ \in SUBSET Nat BY LeastNat
  <2>. QED BY DEF Differ
<1>2. /\ g[l] = IF l = 0 THEN c ELSE apply(g[l - 1], cmds[l])
      /\ h[l] = IF l = 0 THEN c ELSE apply(h[l - 1], cmds[l])
  BY <1>1 DEF Pumping
<1>3. l # 0 BY <1>2
<1>4. l - 1 \in 0..n /\ l - 1 \notin Differ BY <1>1, <1>3
<1>5. g[l - 1] = h[l - 1] BY <1>4
<1>. QED BY <1>1, <1>2, <1>3, <1>5

\* apply_all is where the list ends.
LEMMA Pumped ==
  ASSUME NEW c, NEW cmds, Len(cmds) \in Nat, NEW g, Pumping(g, Len(cmds), c, cmds)
  PROVE  apply_all(c, cmds) = g[Len(cmds)]
<1>. DEFINE n == Len(cmds)
            a == CHOOSE a : Pumping(a, n, c, cmds)
<1>1. Pumping(a, n, c, cmds) OBVIOUS
<1>2. apply_all(c, cmds) = a[n] BY DEF apply_all, Pumping
<1>. HIDE DEF a
<1>. QED BY <1>1, <1>2, PumpingUnique

\* What is true at first and stays true from frame to frame is true in the end.
LEMMA ReadsKeep ==
  ASSUME NEW S, NEW msgs \in Seq(S), NEW v, NEW V, v \in V[0],
         \A k \in 1..Len(msgs) : \A w \in V[k - 1] : Reads(w, msgs[k]) \in V[k]
  PROVE  ReadAll(v, msgs) \in V[Len(msgs)]
<1>. DEFINE n == Len(msgs)
<1>0. n \in Nat OBVIOUS
<1>1. PICK g : Reading(g, n, v, msgs) BY <1>0, ReadingExists
<1>. DEFINE Lost == {k \in 0..n : g[k] \notin V[k]}
<1>2. Lost = {}
  <2>. SUFFICES ASSUME Lost # {} PROVE FALSE OBVIOUS
  <2>1. PICK l \in Lost : \A k \in Lost : l <= k
    <3>. HIDE DEF Lost
    <3>. SUFFICES Lost \in SUBSET Nat BY LeastNat
    <3>. QED BY DEF Lost
  <2>2. g[l] = IF l = 0 THEN v ELSE Reads(g[l - 1], msgs[l]) BY <1>1, <2>1 DEF Reading
  <2>3. l # 0 BY <2>1, <2>2
  <2>4. l - 1 \in 0..n /\ l - 1 \notin Lost BY <1>0, <2>1, <2>3
  <2>5. g[l - 1] \in V[l - 1] BY <2>4
  <2>6. l \in 1..n BY <1>0, <2>1, <2>3
  <2>. QED BY <2>1, <2>2, <2>3, <2>5, <2>6
<1>3. ReadAll(v, msgs) = g[n] BY <1>0, <1>1, ReadEnds
<1>. HIDE DEF n
<1>. QED BY <1>0, <1>2, <1>3 DEF n

\* ... and from command to command.
LEMMA PumpKeeps ==
  ASSUME NEW S, NEW cmds \in Seq(S), NEW c, NEW V, c \in V[0],
         \A k \in 1..Len(cmds) : \A w \in V[k - 1] : apply(w, cmds[k]) \in V[k]
  PROVE  apply_all(c, cmds) \in V[Len(cmds)]
<1>. DEFINE n == Len(cmds)
<1>0. n \in Nat OBVIOUS
<1>1. PICK g : Pumping(g, n, c, cmds) BY <1>0, PumpingExists
<1>. DEFINE Lost == {k \in 0..n : g[k] \notin V[k]}
<1>2. Lost = {}
  <2>. SUFFICES ASSUME Lost # {} PROVE FALSE OBVIOUS
  <2>1. PICK l \in Lost : \A k \in Lost : l <= k
    <3>. HIDE DEF Lost
    <3>. SUFFICES Lost \in SUBSET Nat BY LeastNat
    <3>. QED BY DEF Lost
  <2>2. g[l] = IF l = 0 THEN c ELSE apply(g[l - 1], cmds[l]) BY <1>1, <2>1 DEF Pumping
  <2>3. l # 0 BY <2>1, <2>2
  <2>4. l - 1 \in 0..n /\ l - 1 \notin Lost BY <1>0, <2>1, <2>3
  <2>5. g[l - 1] \in V[l - 1] BY <2>4
  <2>6. l \in 1..n BY <1>0, <2>1, <2>3
  <2>. QED BY <2>1, <2>2, <2>3, <2>5, <2>6
<1>3. apply_all(c, cmds) = g[n] BY <1>0, <1>1, Pumped
<1>. HIDE DEF n
<1>. QED BY <1>0, <1>2, <1>3 DEF n

-----------------------------------------------------------------------------
(* The Hub's view.                                                         *)

View == [shown : Runs \cup {NoSession}, marks : Marks]

Fresh(mark, at) == mark = NoMark \/ After(at, mark)

LEMMA MessageType ==
  ASSUME NEW msg \in ClientMessage
  PROVE  \/ msg.type = "session.upsert" /\ msg.runs \in Runs
         \/ /\ msg.type = "run.upsert" /\ msg.id \in NativeIds
            /\ msg.state \in States /\ msg.stamp \in Stamp
BY DEF ClientMessage

\* A run's delta counts if the Hub knows the session and the delta is fresh.
LEMMA ReadsRun ==
  ASSUME NEW w \in View, NEW msg \in ClientMessage, msg.type = "run.upsert"
  PROVE  Reads(w, msg) =
           IF w.shown # NoSession /\ Fresh(w.marks[msg.id], msg.stamp)
           THEN [shown |-> [w.shown EXCEPT ![msg.id] = msg.state],
                 marks |-> [w.marks EXCEPT ![msg.id] = msg.stamp]]
           ELSE w
<1>1. msg.id \in NativeIds /\ msg.stamp \in Stamp BY MessageType
<1>2. w.marks[msg.id] \in Stamp \cup {NoMark} BY <1>1 DEF View, Marks
<1>3. applies(classify(w.marks, msg.id, msg.stamp)) <=> Fresh(w.marks[msg.id], msg.stamp)
  BY <1>1, <1>2 DEF applies, classify, Fresh, After, Stamp
<1>4. Fresh(w.marks[msg.id], msg.stamp) =>
        admit(w.marks, msg.id, msg.stamp) = [w.marks EXCEPT ![msg.id] = msg.stamp]
  BY <1>3 DEF admit, commit, Fresh
<1>5. msg.type # "session.upsert" OBVIOUS
<1>. QED BY <1>3, <1>4, <1>5 DEF Reads

LEMMA ReadsSession ==
  ASSUME NEW w \in View, NEW msg \in ClientMessage, msg.type = "session.upsert"
  PROVE  Reads(w, msg) = [shown |-> msg.runs, marks |-> w.marks]
BY DEF Reads, View

LEMMA ReadsType ==
  ASSUME NEW w \in View, NEW msg \in ClientMessage
  PROVE  Reads(w, msg) \in View
<1>1. CASE msg.type = "session.upsert"
  BY <1>1, ReadsSession, MessageType DEF View
<1>2. CASE msg.type = "run.upsert"
  <2>1. msg.id \in NativeIds /\ msg.state \in States /\ msg.stamp \in Stamp BY <1>2, MessageType
  <2>2. w.shown \in Runs \cup {NoSession} /\ w.marks \in Marks BY DEF View
  <2>3. w.shown \in Runs => [w.shown EXCEPT ![msg.id] = msg.state] \in Runs BY <2>1 DEF Runs
  <2>4. [w.marks EXCEPT ![msg.id] = msg.stamp] \in Marks BY <2>1, <2>2 DEF Marks
  <2>. QED BY <1>2, <2>2, <2>3, <2>4, ReadsRun DEF View
<1>. QED BY <1>1, <1>2, MessageType

LEMMA ReadType ==
  ASSUME NEW w \in View, NEW msgs \in Seq(ClientMessage)
  PROVE  ReadAll(w, msgs) \in View
<1>. DEFINE V == [k \in 0..Len(msgs) |-> View]
<1>1. w \in V[0] OBVIOUS
<1>2. \A k \in 1..Len(msgs) : \A x \in V[k - 1] : Reads(x, msgs[k]) \in V[k]
  <2>. TAKE k \in 1..Len(msgs)
  <2>1. V[k - 1] = View /\ V[k] = View /\ msgs[k] \in ClientMessage OBVIOUS
  <2>. HIDE DEF V
  <2>. QED BY <2>1, ReadsType
<1>3. V[Len(msgs)] = View OBVIOUS
<1>. HIDE DEF V
<1>4. ReadAll(w, msgs) \in V[Len(msgs)] BY <1>1, <1>2, ReadsKeep
<1>. QED BY <1>3, <1>4

\* Frames that carry no stamps but those of G leave no marks but those of G.
MarkedBy(G, table) == \A n \in NativeIds : table[n] \in G[n] \cup {NoMark}
StampedBy(G, msgs) ==
  \A i \in DOMAIN msgs : msgs[i].type = "run.upsert" => msgs[i].stamp \in G[msgs[i].id]

LEMMA ReadsMarks ==
  ASSUME NEW G, NEW w \in View, NEW msg \in ClientMessage, MarkedBy(G, w.marks),
         msg.type = "run.upsert" => msg.stamp \in G[msg.id]
  PROVE  MarkedBy(G, Reads(w, msg).marks)
<1>1. CASE msg.type = "session.upsert" BY <1>1, ReadsSession
<1>2. CASE msg.type = "run.upsert"
  <2>1. w.marks \in [NativeIds -> Stamp \cup {NoMark}] BY DEF View, Marks
  <2>2. \/ Reads(w, msg) = w
        \/ Reads(w, msg).marks = [w.marks EXCEPT ![msg.id] = msg.stamp]
    BY <1>2, ReadsRun
  <2>3. \A n \in NativeIds :
          [w.marks EXCEPT ![msg.id] = msg.stamp][n] = IF n = msg.id THEN msg.stamp ELSE w.marks[n]
    BY <2>1
  <2>. QED BY <1>2, <2>2, <2>3 DEF MarkedBy
<1>. QED BY <1>1, <1>2, MessageType

LEMMA ReadMarks ==
  ASSUME NEW G, NEW w \in View, NEW msgs \in Seq(ClientMessage),
         MarkedBy(G, w.marks), StampedBy(G, msgs)
  PROVE  MarkedBy(G, ReadAll(w, msgs).marks)
<1>. DEFINE Kept == {x \in View : MarkedBy(G, x.marks)}
            V == [k \in 0..Len(msgs) |-> Kept]
<1>1. w \in V[0] OBVIOUS
<1>2. \A k \in 1..Len(msgs) : \A x \in V[k - 1] : Reads(x, msgs[k]) \in V[k]
  <2>. TAKE k \in 1..Len(msgs)
  <2>1. V[k - 1] = Kept /\ V[k] = Kept /\ msgs[k] \in ClientMessage OBVIOUS
  <2>2. msgs[k].type = "run.upsert" => msgs[k].stamp \in G[msgs[k].id] BY DEF StampedBy
  <2>. HIDE DEF V
  <2>. QED BY <2>1, <2>2, ReadsType, ReadsMarks
<1>3. V[Len(msgs)] = Kept OBVIOUS
<1>. HIDE DEF V
<1>4. ReadAll(w, msgs) \in V[Len(msgs)] BY <1>1, <1>2, ReadsKeep
<1>. QED BY <1>3, <1>4

-----------------------------------------------------------------------------
(* The queue from the core to the connection.                              *)

Reports(msg, n) == msg.type = "run.upsert" /\ msg.id = n

HasSession(q) == \E i \in DOMAIN q : q[i].type = "session.upsert"

\* The last delta of a run in the queue is what the core knows of the run, and
\* the session as it was registered goes before any of its runs.
QueueInv(c, q) ==
  /\ \A i \in DOMAIN q : q[i].type = "run.upsert" =>
       /\ q[i].stamp.epoch = 0 /\ q[i].stamp.seq <= c.last_seq[q[i].id]
       /\ \/ q[i].stamp.seq = c.last_seq[q[i].id] /\ q[i].state = c.known_runs[q[i].id]
          \/ \E j \in DOMAIN q :
               j > i /\ Reports(q[j], q[i].id) /\ q[j].stamp.seq > q[i].stamp.seq
  /\ \A i \in DOMAIN q : q[i].type = "session.upsert" =>
       /\ i = 1 /\ q[i].runs = NoRuns
       /\ \A n \in NativeIds : c.known_runs[n] # NoRun => \E j \in DOMAIN q : Reports(q[j], n)

\* r is q without its first d messages.
Rest(r, q, d) ==
  /\ d \in Nat /\ d <= Len(q) /\ Len(r) = Len(q) - d
  /\ \A i \in 1..Len(r) : r[i] = q[i + d]

LEMMA NewestIsRest ==
  ASSUME NEW S, NEW q \in Seq(S)
  PROVE  /\ newest(q) \in Seq(S) /\ Len(newest(q)) <= Capacity
         /\ \E d \in Nat : Rest(newest(q), q, d)
         /\ Len(q) <= Capacity => newest(q) = q
<1>0. Capacity \in Nat \ {0} /\ Len(q) \in Nat BY CoreConstants
<1>1. CASE Len(q) <= Capacity
  <2>1. newest(q) = q BY <1>1 DEF newest
  <2>2. Rest(q, q, 0) BY DEF Rest
  <2>. QED BY <1>0, <1>1, <2>1, <2>2
<1>2. CASE Len(q) > Capacity
  <2>. DEFINE d == Len(q) - Capacity
              r == SubSeq(q, d + 1, Len(q))
  <2>1. newest(q) = r BY <1>0, <1>2 DEF newest
  <2>2. d \in Nat /\ d + 1 \in 1..Len(q) BY <1>0, <1>2
  <2>3. r \in Seq(S) /\ Len(r) = Capacity /\ \A i \in 1..Len(r) : r[i] = q[i + d]
    BY <1>0, <1>2, <2>2
  <2>4. Rest(r, q, d) BY <1>0, <1>2, <2>2, <2>3 DEF Rest
  <2>5. Len(r) <= Capacity /\ ~(Len(q) <= Capacity) BY <1>0, <1>2, <2>3
  <2>. HIDE DEF d, r
  <2>. QED BY <2>1, <2>2, <2>3, <2>4, <2>5
<1>. QED BY <1>0, <1>1, <1>2

LEMMA TailIsRest ==
  ASSUME NEW S, NEW q \in Seq(S), q # <<>>
  PROVE  Tail(q) \in Seq(S) /\ Rest(Tail(q), q, 1)
BY DEF Rest

LEMMA QueueRest ==
  ASSUME NEW c, NEW q \in Seq(ClientMessage), NEW r \in Seq(ClientMessage), NEW d,
         Rest(r, q, d), QueueInv(c, q)
  PROVE  /\ QueueInv(c, r)
         /\ HasSession(r) => d = 0 /\ HasSession(q)
         /\ r # <<>> /\ d > 0 => ~HasSession(r)
<1>0. /\ d \in Nat /\ Len(q) \in Nat /\ Len(r) \in Nat /\ Len(r) + d = Len(q)
      /\ DOMAIN q = 1..Len(q) /\ DOMAIN r = 1..Len(r)
  BY DEF Rest
<1>1. \A i \in DOMAIN r : i + d \in DOMAIN q /\ r[i] = q[i + d] BY <1>0 DEF Rest
<1>2. \A j \in DOMAIN q : j > d => j - d \in DOMAIN r /\ r[j - d] = q[j]
  <2>. SUFFICES ASSUME NEW j \in DOMAIN q, j > d PROVE j - d \in DOMAIN r /\ r[j - d] = q[j]
    OBVIOUS
  <2>1. j - d \in DOMAIN r /\ (j - d) + d = j BY <1>0
  <2>. QED BY <1>1, <2>1
<1>3. ASSUME NEW i \in DOMAIN r, r[i].type = "run.upsert"
      PROVE  /\ r[i].stamp.epoch = 0 /\ r[i].stamp.seq <= c.last_seq[r[i].id]
             /\ \/ r[i].stamp.seq = c.last_seq[r[i].id] /\ r[i].state = c.known_runs[r[i].id]
                \/ \E j \in DOMAIN r :
                     j > i /\ Reports(r[j], r[i].id) /\ r[j].stamp.seq > r[i].stamp.seq
  <2>1. i + d \in DOMAIN q /\ r[i] = q[i + d] /\ i \in Nat BY <1>0, <1>1
  <2>2. CASE \E j \in DOMAIN q :
               j > i + d /\ Reports(q[j], q[i + d].id) /\ q[j].stamp.seq > q[i + d].stamp.seq
    <3>1. PICK j \in DOMAIN q :
               j > i + d /\ Reports(q[j], q[i + d].id) /\ q[j].stamp.seq > q[i + d].stamp.seq
      BY <2>2
    <3>2. j > d /\ j - d > i BY <1>0, <2>1, <3>1
    <3>3. j - d \in DOMAIN r /\ r[j - d] = q[j] BY <1>2, <3>2
    <3>. QED BY <1>3, <2>1, <3>1, <3>2, <3>3 DEF QueueInv
  <2>3. CASE ~ \E j \in DOMAIN q :
               j > i + d /\ Reports(q[j], q[i + d].id) /\ q[j].stamp.seq > q[i + d].stamp.seq
    BY <1>3, <2>1, <2>3 DEF QueueInv
  <2>. QED BY <2>2, <2>3
<1>4. ASSUME NEW i \in DOMAIN r, r[i].type = "session.upsert"
      PROVE  /\ d = 0 /\ i = 1 /\ r[i].runs = NoRuns
             /\ \A n \in NativeIds : c.known_runs[n] # NoRun => \E j \in DOMAIN r : Reports(r[j], n)
  <2>1. i + d \in DOMAIN q /\ r[i] = q[i + d] /\ i \in Nat \ {0} BY <1>0, <1>1
  <2>2. i + d = 1 /\ q[i + d].runs = NoRuns BY <1>4, <2>1 DEF QueueInv
  <2>3. d = 0 /\ i = 1 BY <1>0, <2>1, <2>2
  <2>4. \A n \in NativeIds : c.known_runs[n] # NoRun => \E j \in DOMAIN q : Reports(q[j], n)
    BY <1>4, <2>1 DEF QueueInv
  <2>5. \A j \in DOMAIN q : j \in DOMAIN r /\ r[j] = q[j] BY <1>0, <1>1, <2>3
  <2>. QED BY <2>1, <2>2, <2>3, <2>4, <2>5
<1>5. QueueInv(c, r) BY <1>3, <1>4 DEF QueueInv
<1>6. HasSession(r) => d = 0
  <2>. SUFFICES ASSUME NEW i \in DOMAIN r, r[i].type = "session.upsert" PROVE d = 0 BY DEF HasSession
  <2>. QED BY <1>4
<1>7. HasSession(r) => HasSession(q) BY <1>1 DEF HasSession
<1>. QED BY <1>0, <1>5, <1>6, <1>7

\* Deltas of what the core now knows, with the seqs it gave last.
Renews(c, e, r) ==
  /\ \A j \in DOMAIN r :
       /\ r[j].type = "run.upsert" /\ r[j].stamp.epoch = 0
       /\ r[j].stamp.seq = e.last_seq[r[j].id] /\ r[j].stamp.seq > c.last_seq[r[j].id]
       /\ r[j].state = e.known_runs[r[j].id]
  /\ \A n \in NativeIds :
       \/ \E j \in DOMAIN r : Reports(r[j], n)
       \/ e.known_runs[n] = c.known_runs[n] /\ e.last_seq[n] = c.last_seq[n]

LEMMA QueueRenewed ==
  ASSUME NEW c \in Core, NEW e \in Core, NEW q \in Seq(ClientMessage), NEW r \in Seq(ClientMessage),
         QueueInv(c, q), Renews(c, e, r)
  PROVE  QueueInv(e, q \o r) /\ (HasSession(q \o r) => HasSession(q))
<1>. DEFINE w == q \o r
<1>0. /\ Len(q) \in Nat /\ Len(r) \in Nat /\ Len(w) = Len(q) + Len(r) /\ w \in Seq(ClientMessage)
      /\ DOMAIN q = 1..Len(q) /\ DOMAIN r = 1..Len(r) /\ DOMAIN w = 1..Len(w)
  OBVIOUS
<1>1. \A i \in DOMAIN q : i \in DOMAIN w /\ w[i] = q[i] BY <1>0
<1>2. \A j \in DOMAIN r : Len(q) + j \in DOMAIN w /\ w[Len(q) + j] = r[j] BY <1>0
<1>. HIDE DEF w
<1>3. \A i \in DOMAIN w : i \in DOMAIN q \/ (i - Len(q) \in DOMAIN r /\ w[i] = r[i - Len(q)])
  <2>. SUFFICES ASSUME NEW i \in DOMAIN w, i \notin DOMAIN q
                PROVE  i - Len(q) \in DOMAIN r /\ w[i] = r[i - Len(q)]
    OBVIOUS
  <2>1. i - Len(q) \in DOMAIN r /\ Len(q) + (i - Len(q)) = i BY <1>0
  <2>. QED BY <1>2, <2>1
<1>4. \A n \in NativeIds : /\ c.last_seq[n] \in Nat /\ e.last_seq[n] \in Nat BY DEF Core
<1>5. ASSUME NEW i \in DOMAIN w, w[i].type = "run.upsert"
      PROVE  /\ w[i].stamp.epoch = 0 /\ w[i].stamp.seq <= e.last_seq[w[i].id]
             /\ \/ w[i].stamp.seq = e.last_seq[w[i].id] /\ w[i].state = e.known_runs[w[i].id]
                \/ \E j \in DOMAIN w :
                     j > i /\ Reports(w[j], w[i].id) /\ w[j].stamp.seq > w[i].stamp.seq
  <2>0. w[i] \in ClientMessage BY <1>0
  <2>1. w[i].id \in NativeIds /\ w[i].stamp.seq \in Nat BY <1>5, <2>0, MessageType DEF Stamp
  <2>2. CASE i \notin DOMAIN q
    <3>1. i - Len(q) \in DOMAIN r /\ w[i] = r[i - Len(q)] BY <1>3, <2>2
    <3>. QED BY <1>4, <2>1, <3>1 DEF Renews
  <2>3. CASE i \in DOMAIN q
    <3>1. w[i] = q[i] /\ i \in 1..Len(q) BY <1>0, <1>1, <2>3
    <3>2. /\ q[i].stamp.epoch = 0 /\ q[i].stamp.seq <= c.last_seq[q[i].id]
          /\ \/ q[i].stamp.seq = c.last_seq[q[i].id] /\ q[i].state = c.known_runs[q[i].id]
             \/ \E j \in DOMAIN q :
                  j > i /\ Reports(q[j], q[i].id) /\ q[j].stamp.seq > q[i].stamp.seq
      BY <1>5, <2>3, <3>1 DEF QueueInv
    <3>3. CASE \E j \in DOMAIN r : Reports(r[j], q[i].id)
      <4>1. PICK j \in DOMAIN r : Reports(r[j], q[i].id) BY <3>3
      <4>2. Len(q) + j \in DOMAIN w /\ w[Len(q) + j] = r[j] /\ Len(q) + j > i BY <1>0, <1>2, <3>1
      <4>3. r[j].stamp.seq = e.last_seq[q[i].id] /\ r[j].stamp.seq > c.last_seq[q[i].id]
        BY <4>1 DEF Renews, Reports
      <4>4. r[j].stamp.seq > q[i].stamp.seq /\ q[i].stamp.seq <= e.last_seq[q[i].id]
        BY <1>4, <2>1, <3>1, <3>2, <4>3
      <4>. QED BY <3>1, <3>2, <4>1, <4>2, <4>4
    <3>4. CASE ~ \E j \in DOMAIN r : Reports(r[j], q[i].id)
      <4>1. /\ e.known_runs[q[i].id] = c.known_runs[q[i].id]
            /\ e.last_seq[q[i].id] = c.last_seq[q[i].id]
        BY <2>1, <3>1, <3>4 DEF Renews
      <4>. QED BY <1>1, <3>1, <3>2, <4>1
    <3>. QED BY <3>3, <3>4
  <2>. QED BY <2>2, <2>3
<1>6. ASSUME NEW i \in DOMAIN w, w[i].type = "session.upsert"
      PROVE  /\ i \in DOMAIN q /\ q[i].type = "session.upsert"
             /\ i = 1 /\ w[i].runs = NoRuns
             /\ \A n \in NativeIds : e.known_runs[n] # NoRun => \E j \in DOMAIN w : Reports(w[j], n)
  <2>1. i \in DOMAIN q BY <1>3, <1>6 DEF Renews
  <2>2. w[i] = q[i] BY <1>1, <2>1
  <2>3. ASSUME NEW n \in NativeIds, e.known_runs[n] # NoRun PROVE \E j \in DOMAIN w : Reports(w[j], n)
    <3>1. CASE \E j \in DOMAIN r : Reports(r[j], n) BY <1>2, <3>1
    <3>2. CASE ~ \E j \in DOMAIN r : Reports(r[j], n)
      <4>1. c.known_runs[n] # NoRun BY <2>3, <3>2 DEF Renews
      <4>2. \E j \in DOMAIN q : Reports(q[j], n) BY <1>6, <2>1, <2>2, <4>1 DEF QueueInv
      <4>. QED BY <1>1, <4>2
    <3>. QED BY <3>1, <3>2
  <2>. QED BY <1>6, <2>1, <2>2, <2>3 DEF QueueInv
<1>7. QueueInv(e, w) BY <1>5, <1>6 DEF QueueInv
<1>8. HasSession(w) => HasSession(q)
  <2>. SUFFICES ASSUME NEW i \in DOMAIN w, w[i].type = "session.upsert" PROVE HasSession(q)
    BY DEF HasSession
  <2>. QED BY <1>6 DEF HasSession
<1>. QED BY <1>7, <1>8 DEF w

-----------------------------------------------------------------------------
(* A view that reads the queue comes to show what the core knows.          *)

\* What the view does not show of a run is still to be read, and is fresh.
Coming(c, w, q, k) ==
  /\ w.shown # NoSession
  /\ \A n \in NativeIds :
       \/ w.shown[n] = c.known_runs[n]
       \/ \E j \in DOMAIN q : j > k /\ Reports(q[j], n) /\ Fresh(w.marks[n], q[j].stamp)

LEMMA ComingStep ==
  ASSUME NEW c, NEW q \in Seq(ClientMessage), QueueInv(c, q), ~HasSession(q),
         NEW k \in 1..Len(q), NEW w \in View, Coming(c, w, q, k - 1)
  PROVE  Coming(c, Reads(w, q[k]), q, k)
<1>. DEFINE msg == q[k]
            x == Reads(w, msg)
<1>0. DOMAIN q = 1..Len(q) /\ k \in DOMAIN q /\ msg \in ClientMessage OBVIOUS
<1>1. /\ msg.type = "run.upsert" /\ msg.id \in NativeIds
      /\ msg.state \in States /\ msg.stamp \in Stamp
  BY <1>0, MessageType DEF HasSession
<1>2. \A j \in DOMAIN q : j > k - 1 => j = k \/ j > k BY <1>0
<1>3. w.shown \in Runs /\ w.marks \in Marks BY DEF View, Coming
<1>4. CASE Fresh(w.marks[msg.id], msg.stamp)
  <2>1. /\ x.shown = [w.shown EXCEPT ![msg.id] = msg.state]
        /\ x.marks = [w.marks EXCEPT ![msg.id] = msg.stamp]
    BY <1>0, <1>1, <1>4, ReadsRun DEF Coming
  <2>. HIDE DEF x
  <2>2. x.shown # NoSession
    <3>1. x.shown \in Runs BY <1>1, <1>3, <2>1 DEF Runs
    <3>. QED BY <3>1, LinkConstants
  <2>3. ASSUME NEW n \in NativeIds
        PROVE  \/ x.shown[n] = c.known_runs[n]
               \/ \E j \in DOMAIN q : j > k /\ Reports(q[j], n) /\ Fresh(x.marks[n], q[j].stamp)
    <3>1. CASE n = msg.id
      <4>1. x.shown[n] = msg.state /\ x.marks[n] = msg.stamp
        BY <1>3, <2>1, <3>1 DEF Runs, Marks
      <4>2. CASE msg.state = c.known_runs[msg.id] BY <3>1, <4>1, <4>2
      <4>3. CASE msg.state # c.known_runs[msg.id]
        <5>1. PICK j \in DOMAIN q :
                j > k /\ Reports(q[j], msg.id) /\ q[j].stamp.seq > msg.stamp.seq
          BY <1>0, <1>1, <4>3 DEF QueueInv
        <5>2. q[j].stamp.epoch = 0 /\ msg.stamp.epoch = 0
          BY <1>0, <1>1, <5>1 DEF QueueInv, Reports
        <5>3. Fresh(msg.stamp, q[j].stamp) BY <5>1, <5>2 DEF Fresh, After
        <5>. QED BY <3>1, <4>1, <5>1, <5>3
      <4>. QED BY <4>2, <4>3
    <3>2. CASE n # msg.id
      <4>1. x.shown[n] = w.shown[n] /\ x.marks[n] = w.marks[n]
        BY <1>1, <1>3, <2>1, <3>2 DEF Runs, Marks
      <4>2. ~Reports(q[k], n) BY <3>2 DEF Reports
      <4>. QED BY <1>2, <4>1, <4>2 DEF Coming
    <3>. QED BY <3>1, <3>2
  <2>4. Coming(c, x, q, k) BY <2>2, <2>3 DEF Coming
  <2>. QED BY <2>4 DEF x
<1>5. CASE ~Fresh(w.marks[msg.id], msg.stamp)
  <2>1. x = w BY <1>0, <1>1, <1>5, ReadsRun
  <2>. HIDE DEF x
  <2>2. \A n \in NativeIds : ~(Reports(q[k], n) /\ Fresh(w.marks[n], q[k].stamp))
    BY <1>5 DEF Reports
  <2>3. \A j \in DOMAIN q : j > k - 1 /\ j # k => j > k BY <1>2
  <2>4. Coming(c, w, q, k) BY <2>2, <2>3 DEF Coming
  <2>. QED BY <2>1, <2>4 DEF x
<1>. QED BY <1>4, <1>5

LEMMA Arrived ==
  ASSUME NEW c \in Core, NEW q \in Seq(ClientMessage), QueueInv(c, q), ~HasSession(q),
         NEW w \in View, Coming(c, w, q, 0)
  PROVE  ReadAll(w, q).shown = c.known_runs
<1>. DEFINE at(k) == {x \in View : Coming(c, x, q, k)}
            V == [k \in 0..Len(q) |-> at(k)]
<1>0. Len(q) \in Nat OBVIOUS
<1>1. w \in V[0] BY <1>0
<1>2. \A k \in 1..Len(q) : \A x \in V[k - 1] : Reads(x, q[k]) \in V[k]
  <2>. TAKE k \in 1..Len(q)
  <2>1. V[k - 1] = at(k - 1) /\ V[k] = at(k) /\ q[k] \in ClientMessage BY <1>0
  <2>. HIDE DEF V
  <2>. QED BY <2>1, ReadsType, ComingStep
<1>3. V[Len(q)] = at(Len(q)) BY <1>0
<1>. HIDE DEF V
<1>4. ReadAll(w, q) \in V[Len(q)] BY <1>1, <1>2, ReadsKeep
<1>5. ReadAll(w, q) \in View /\ Coming(c, ReadAll(w, q), q, Len(q)) BY <1>3, <1>4
<1>. DEFINE x == ReadAll(w, q)
<1>. HIDE DEF x
<1>6. \A n \in NativeIds : x.shown[n] = c.known_runs[n]
  <2>1. \A j \in DOMAIN q : ~(j > Len(q)) OBVIOUS
  <2>2. Coming(c, x, q, Len(q)) BY <1>5 DEF x
  <2>. QED BY <2>1, <2>2 DEF Coming
<1>7. x.shown \in Runs /\ c.known_runs \in Runs BY <1>5 DEF Coming, View, Core, x
<1>8. x.shown = c.known_runs BY <1>6, <1>7 DEF Runs
<1>. QED BY <1>8 DEF x

\* A view of the whole session shows it still after the queue, which may begin
\* with the session as it was registered when the Hub has no marks of it.
LEMMA Restored ==
  ASSUME NEW c \in Core, NEW q \in Seq(ClientMessage), QueueInv(c, q),
         NEW w \in View, w.shown = c.known_runs, HasSession(q) => w.marks = NoMarks
  PROVE  ReadAll(w, q).shown = c.known_runs
<1>0. c.known_runs \in Runs /\ w.shown # NoSession BY LinkConstants DEF Core
<1>1. CASE ~HasSession(q)
  <2>1. Coming(c, w, q, 0) BY <1>0 DEF Coming
  <2>. QED BY <1>1, <2>1, Arrived
<1>2. CASE HasSession(q)
  <2>. DEFINE r == Tail(q)
              x == Reads(w, Head(q))
  <2>1. PICK i \in DOMAIN q : q[i].type = "session.upsert" BY <1>2 DEF HasSession
  <2>2. /\ i = 1 /\ q[1].type = "session.upsert" /\ q[1].runs = NoRuns
        /\ \A n \in NativeIds : c.known_runs[n] # NoRun => \E j \in DOMAIN q : Reports(q[j], n)
    BY <2>1 DEF QueueInv
  <2>3. q # <<>> /\ Head(q) = q[1] /\ q[1] \in ClientMessage BY <2>1, <2>2
  <2>4. r \in Seq(ClientMessage) /\ Rest(r, q, 1) BY <2>3, TailIsRest
  <2>. HIDE DEF r
  <2>5. QueueInv(c, r) /\ ~HasSession(r)
    <3>1. QueueInv(c, r) /\ (HasSession(r) => 1 = 0) BY <2>4, QueueRest
    <3>. QED BY <3>1
  <2>6. x.shown = NoRuns /\ x.marks = NoMarks /\ x \in View
    BY <1>2, <2>2, <2>3, ReadsSession, ReadsType DEF View
  <2>7. Coming(c, x, r, 0)
    <3>1. NoRuns \in Runs BY DEF NoRuns, Runs
    <3>2. ASSUME NEW n \in NativeIds, x.shown[n] # c.known_runs[n]
          PROVE  \E j \in DOMAIN r : j > 0 /\ Reports(r[j], n) /\ Fresh(x.marks[n], r[j].stamp)
      <4>1. c.known_runs[n] # NoRun BY <2>6, <3>2 DEF NoRuns
      <4>2. PICK j \in DOMAIN q : Reports(q[j], n) BY <2>2, <4>1
      <4>3. j \in Nat /\ j > 1 BY <2>2, <4>2 DEF Reports
      <4>4. j - 1 \in DOMAIN r /\ j - 1 > 0 /\ r[j - 1] = q[j]
        BY <2>4, <4>2, <4>3 DEF Rest
      <4>5. Fresh(x.marks[n], r[j - 1].stamp) BY <2>6 DEF Fresh, NoMarks
      <4>. QED BY <4>2, <4>4, <4>5
    <3>. QED BY <2>6, <3>1, <3>2, LinkConstants DEF Coming
  <2>8. ReadAll(x, r).shown = c.known_runs BY <2>4, <2>5, <2>6, <2>7, Arrived
  <2>. QED BY <2>3, <2>8, ReadHead DEF r
<1>. QED BY <1>1, <1>2

\* After a heartbeat the view shows what the core knows, whatever it showed.
LEMMA HeartbeatRestores ==
  ASSUME NEW c \in Core, NEW q \in Seq(ClientMessage), QueueInv(c, q),
         NEW w \in View, NEW msgs \in Seq(ClientMessage),
         HasSession(q) => ReadAll(w, msgs).marks = NoMarks
  PROVE  ReadAll(w, Append(msgs, heartbeat_message(c)) \o q).shown = c.known_runs
<1>. DEFINE beat == heartbeat_message(c)
            x == ReadAll(w, msgs)
            y == Reads(x, beat)
<1>1. beat \in ClientMessage /\ beat.type = "session.upsert" /\ beat.runs = c.known_runs
  BY DEF heartbeat_message, SessionUpsert, ClientMessage, Core
<1>. HIDE DEF beat
<1>2. /\ Append(msgs, beat) = msgs \o <<beat>> /\ <<beat>> \in Seq(ClientMessage)
      /\ Append(msgs, beat) \in Seq(ClientMessage)
  BY <1>1
<1>3. x \in View BY ReadType
<1>. HIDE DEF x
<1>4. y.shown = c.known_runs /\ y.marks = x.marks /\ y \in View
  <2>1. y = [shown |-> beat.runs, marks |-> x.marks] BY <1>1, <1>3, ReadsSession
  <2>2. y \in View BY <1>1, <1>3, ReadsType
  <2>. QED BY <1>1, <2>1, <2>2
<1>. HIDE DEF y
<1>5. ReadAll(w, Append(msgs, beat)) = y
  <2>. DEFINE one == <<beat>>
  <2>1. one \in Seq(ClientMessage) /\ Append(msgs, beat) = msgs \o one BY <1>2
  <2>2. ReadAll(ReadAll(w, msgs), one) = y BY ReadOne DEF x, y
  <2>. HIDE DEF one
  <2>3. ReadAll(w, msgs \o one) = ReadAll(ReadAll(w, msgs), one) BY <2>1, ReadConcat
  <2>. QED BY <2>1, <2>2, <2>3
<1>6. ReadAll(w, Append(msgs, beat) \o q) = ReadAll(y, q)
  <2>. DEFINE sent == Append(msgs, beat)
  <2>1. sent \in Seq(ClientMessage) BY <1>2
  <2>. HIDE DEF sent
  <2>2. ReadAll(w, sent \o q) = ReadAll(ReadAll(w, sent), q) BY <2>1, ReadConcat
  <2>. QED BY <1>5, <2>2 DEF sent
<1>7. ReadAll(y, q).shown = c.known_runs BY <1>4, Restored DEF x
<1>. QED BY <1>6, <1>7 DEF beat

-----------------------------------------------------------------------------
(* The core.                                                               *)

\* A sign of life is at most Lag later than the tracker has it.
InTime(l) == \A n \in NativeIds : l[n] # NoTracker => l[n].sign <= l[n].last_seen + Lag

CoreOK(c) ==
  /\ c \in Core /\ Len(c.buffer) <= Capacity
  /\ ~c.registered => /\ c.buffer = <<>> /\ c.known_runs = NoRuns
                      /\ \A n \in NativeIds : c.liveness[n] = NoTracker
  /\ QueueInv(c, c.buffer)
  /\ InTime(c.liveness)

\* The core only goes on: no seq is given twice, and nothing is registered anew.
Onward(c, e) ==
  /\ e.now = c.now
  /\ \A n \in NativeIds : c.last_seq[n] <= e.last_seq[n]
  /\ c.registered => e.registered /\ (HasSession(e.buffer) => HasSession(c.buffer))

NextStamp(c, n) == [epoch |-> 0, seq |-> c.last_seq[n] + 1]

LEMMA LagType == Lag \in Nat BY LinkConstants DEF Lag

LEMMA CoreFields ==
  ASSUME NEW c \in Core
  PROVE  /\ c = [registered |-> c.registered, known_runs |-> c.known_runs, buffer |-> c.buffer,
                 last_seq |-> c.last_seq, liveness |-> c.liveness, now |-> c.now]
         /\ c.registered \in BOOLEAN /\ c.known_runs \in Runs /\ c.buffer \in Seq(ClientMessage)
         /\ c.last_seq \in [NativeIds -> Nat] /\ c.now \in Nat
         /\ c.liveness \in [NativeIds -> Tracker \cup {NoTracker}]
BY DEF Core

LEMMA CoreNoRuns == NoRuns \in Runs BY DEF NoRuns, Runs

LEMMA PushRest ==
  ASSUME NEW q \in Seq(ClientMessage), NEW msg \in ClientMessage
  PROVE  /\ push(q, msg) \in Seq(ClientMessage) /\ Len(push(q, msg)) <= Capacity
         /\ \E d \in Nat : Rest(push(q, msg), q \o <<msg>>, d)
         /\ q = <<>> => push(q, msg) = <<msg>>
<1>1. Append(q, msg) = q \o <<msg>> /\ Append(q, msg) \in Seq(ClientMessage) OBVIOUS
<1>2. q = <<>> => Append(q, msg) = <<msg>> /\ Len(Append(q, msg)) = 1 OBVIOUS
<1>3. Capacity >= 1 /\ Capacity \in Nat BY CoreConstants
<1>4. push(q, msg) = newest(Append(q, msg)) BY DEF push
<1>5. Len(Append(q, msg)) <= Capacity => newest(Append(q, msg)) = Append(q, msg)
  BY <1>1, NewestIsRest
<1>6. q = <<>> => Len(Append(q, msg)) <= Capacity BY <1>2, <1>3
<1>7. /\ newest(Append(q, msg)) \in Seq(ClientMessage) /\ Len(newest(Append(q, msg))) <= Capacity
      /\ \E d \in Nat : Rest(newest(Append(q, msg)), Append(q, msg), d)
  BY <1>1, NewestIsRest
<1>. QED BY <1>1, <1>2, <1>4, <1>5, <1>6, <1>7, Zenon

\* What a report, the death of a run among them, does to the core.
LEMMA ReportOK ==
  ASSUME NEW c, CoreOK(c), c.registered, NEW n \in NativeIds, NEW state \in States,
         NEW l \in [NativeIds -> Tracker \cup {NoTracker}], InTime(l),
         NEW e, e = Report([c EXCEPT !.liveness = l], n, state)
  PROVE  /\ CoreOK(e) /\ Onward(c, e) /\ e.registered
         /\ e.known_runs = [c.known_runs EXCEPT ![n] = state]
         /\ c.buffer = <<>> => e.buffer = <<RunUpsert(n, state, NextStamp(c, n))>>
<1>. DEFINE msg == RunUpsert(n, state, NextStamp(c, n))
<1>0. c \in Core /\ QueueInv(c, c.buffer) BY DEF CoreOK
<1>1. /\ c.registered \in BOOLEAN /\ c.known_runs \in Runs /\ c.buffer \in Seq(ClientMessage)
      /\ c.last_seq \in [NativeIds -> Nat] /\ c.now \in Nat
  BY <1>0, CoreFields
<1>2. msg \in ClientMessage /\ msg.type = "run.upsert" /\ msg.id = n /\ msg.state = state
      /\ msg.stamp.epoch = 0 /\ msg.stamp.seq = c.last_seq[n] + 1
  BY <1>1 DEF RunUpsert, NextStamp, ClientMessage, Stamp
<1>. DEFINE b == [c EXCEPT !.liveness = l]
<1>20. /\ b \in Core /\ b.registered = c.registered /\ b.known_runs = c.known_runs
      /\ b.buffer = c.buffer /\ b.last_seq = c.last_seq /\ b.liveness = l /\ b.now = c.now
  BY <1>0 DEF Core
<1>21. stamp(b, n) = NextStamp(c, n) BY <1>20 DEF stamp, NextStamp
<1>. HIDE DEF b
<1>3. /\ e.known_runs = [c.known_runs EXCEPT ![n] = state] /\ e.buffer = push(c.buffer, msg)
      /\ e.last_seq = [c.last_seq EXCEPT ![n] = @ + 1] /\ e.liveness = l /\ e.now = c.now
      /\ e.registered = c.registered
      /\ (e.known_runs \in Runs /\ e.buffer \in Seq(ClientMessage) /\ e.last_seq \in [NativeIds -> Nat]
           => e \in Core)
  <2>. DEFINE k == [b.known_runs EXCEPT ![n] = state]
              s == [b.last_seq EXCEPT ![n] = @ + 1]
              p == push(b.buffer, RunUpsert(n, state, stamp(b, n)))
  <2>1. e = [b EXCEPT !.known_runs = k, !.last_seq = s, !.buffer = p]
    BY DEF Report, b
  <2>2. p = push(c.buffer, msg) BY <1>20, <1>21
  <2>3. k = [c.known_runs EXCEPT ![n] = state] /\ s = [c.last_seq EXCEPT ![n] = @ + 1] BY <1>20
  <2>. HIDE DEF k, s, p, msg
  <2>4. /\ e.known_runs = k /\ e.last_seq = s /\ e.buffer = p /\ e.liveness = b.liveness
        /\ e.now = b.now /\ e.registered = b.registered
        /\ (k \in Runs /\ p \in Seq(ClientMessage) /\ s \in [NativeIds -> Nat] => e \in Core)
    BY <1>20, <2>1 DEF Core
  <2>. QED BY <1>20, <2>2, <2>3, <2>4
<1>. HIDE DEF msg
<1>4. /\ push(c.buffer, msg) \in Seq(ClientMessage) /\ Len(push(c.buffer, msg)) <= Capacity
      /\ c.buffer = <<>> => push(c.buffer, msg) = <<msg>>
  BY <1>1, <1>2, PushRest
<1>5. PICK d \in Nat : Rest(push(c.buffer, msg), c.buffer \o <<msg>>, d) BY <1>1, <1>2, PushRest
<1>6. e \in Core
  <2>1. [c.known_runs EXCEPT ![n] = state] \in Runs BY <1>1 DEF Runs
  <2>2. [c.last_seq EXCEPT ![n] = @ + 1] \in [NativeIds -> Nat] BY <1>1
  <2>. QED BY <1>3, <1>4, <2>1, <2>2
<1>8. /\ e.known_runs[n] = state /\ e.last_seq[n] = c.last_seq[n] + 1 /\ c.last_seq[n] \in Nat
      /\ \A m \in NativeIds \ {n} :
           e.known_runs[m] = c.known_runs[m] /\ e.last_seq[m] = c.last_seq[m]
      /\ \A m \in NativeIds : c.last_seq[m] \in Nat
  <2>. DEFINE k == c.known_runs
              s == c.last_seq
  <2>1. k \in [NativeIds -> States \cup {NoRun}] /\ s \in [NativeIds -> Nat] BY <1>1 DEF Runs
  <2>2. e.known_runs = [k EXCEPT ![n] = state] /\ e.last_seq = [s EXCEPT ![n] = @ + 1] BY <1>3
  <2>. HIDE DEF k, s
  <2>3. /\ e.known_runs[n] = state /\ e.last_seq[n] = s[n] + 1
        /\ \A m \in NativeIds \ {n} : e.known_runs[m] = k[m] /\ e.last_seq[m] = s[m]
        /\ \A m \in NativeIds : s[m] \in Nat
    BY <2>1, <2>2, ZenonT(60)
  <2>. QED BY <2>3 DEF k, s
<1>. DEFINE r == <<msg>>
<1>9. r \in Seq(ClientMessage) /\ DOMAIN r = {1} /\ r[1] = msg BY <1>2
<1>. HIDE DEF r
<1>10. Renews(c, e, r)
  <2>1. \A j \in DOMAIN r : r[j] = msg BY <1>9
  <2>2. Reports(r[1], n) BY <1>2, <1>9 DEF Reports
  <2>3. c.last_seq[n] + 1 > c.last_seq[n] BY <1>8
  <2>. QED BY <1>2, <1>8, <1>9, <2>1, <2>2, <2>3 DEF Renews
<1>11. QueueInv(e, c.buffer \o r) /\ (HasSession(c.buffer \o r) => HasSession(c.buffer))
  BY <1>0, <1>1, <1>6, <1>9, <1>10, QueueRenewed
<1>12. /\ c.buffer \o r \in Seq(ClientMessage) /\ Rest(e.buffer, c.buffer \o r, d)
       /\ e.buffer \in Seq(ClientMessage)
  <2>1. Rest(e.buffer, c.buffer \o <<msg>>, d) BY <1>3, <1>5
  <2>2. e.buffer \in Seq(ClientMessage) BY <1>3, <1>4
  <2>3. c.buffer \o r \in Seq(ClientMessage) BY <1>1, <1>9
  <2>. QED BY <2>1, <2>2, <2>3 DEF r
<1>13. QueueInv(e, e.buffer) /\ (HasSession(e.buffer) => HasSession(c.buffer))
  BY <1>11, <1>12, QueueRest
<1>14. CoreOK(e) BY <1>3, <1>4, <1>6, <1>13 DEF CoreOK
<1>15. Onward(c, e)
  <2>1. ASSUME NEW m \in NativeIds PROVE c.last_seq[m] <= e.last_seq[m]
    <3>1. CASE m = n BY <1>8, <3>1
    <3>2. CASE m # n BY <1>8, <3>2
    <3>. QED BY <3>1, <3>2
  <2>. QED BY <1>3, <1>13, <2>1 DEF Onward
<1>. QED BY <1>3, <1>4, <1>14, <1>15 DEF msg

LEMMA CommandType ==
  ASSUME NEW sent \in ReporterCommand
  PROVE  /\ sent.at \in Nat
         /\ \/ sent.op \in {"session", "stop"}
            \/ sent.op \in {"alive", "exit"} /\ sent.id \in NativeIds
            \/ sent.op = "run" /\ sent.id \in NativeIds /\ sent.state \in States
BY DEF ReporterCommand

LEMMA TrackerType ==
  ASSUME NEW c \in Core, NEW n \in NativeIds
  PROVE  /\ c.liveness[n] \in Tracker \cup {NoTracker} /\ observed(c, n) \in Tracker
         /\ InTime(c.liveness) => observed(c, n).sign <= observed(c, n).last_seen + Lag
<1>1. c.liveness[n] \in Tracker \cup {NoTracker} BY DEF Core
<1>2. c.liveness[n] # NoTracker => observed(c, n) = c.liveness[n] BY DEF observed
<1>3. c.liveness[n] = NoTracker =>
        observed(c, n) = [last_seen |-> 0, confirmed_exit |-> FALSE, sign |-> 0]
  BY DEF observed
<1>4. c.liveness[n] = NoTracker => observed(c, n) \in Tracker
  <2>1. [last_seen |-> 0, confirmed_exit |-> FALSE, sign |-> 0] \in Tracker BY DEF Tracker
  <2>. QED BY <1>3, <2>1
<1>5. c.liveness[n] = NoTracker => observed(c, n).sign <= observed(c, n).last_seen + Lag
  BY <1>3, LagType
<1>. QED BY <1>1, <1>2, <1>4, <1>5 DEF InTime

\* A tracker put into the table in time leaves the table in time.
LEMMA PutInTime ==
  ASSUME NEW l \in [NativeIds -> Tracker \cup {NoTracker}], InTime(l), NEW n \in NativeIds,
         NEW t \in Tracker, t.sign <= t.last_seen + Lag
  PROVE  /\ [l EXCEPT ![n] = t] \in [NativeIds -> Tracker \cup {NoTracker}]
         /\ InTime([l EXCEPT ![n] = t])
BY DEF InTime

LEMMA AliveInTime ==
  ASSUME NEW t \in Tracker, NEW now \in Nat, NEW at \in Nat, at <= now + Lag
  PROVE  /\ alive(t, now, at) \in Tracker
         /\ alive(t, now, at).sign <= alive(t, now, at).last_seen + Lag
<1>1. alive(t, now, at) = [t EXCEPT !.last_seen = now, !.sign = at] BY DEF alive
<1>2. /\ alive(t, now, at) \in Tracker
      /\ alive(t, now, at).sign = at /\ alive(t, now, at).last_seen = now
  BY <1>1 DEF Tracker
<1>. QED BY <1>2

LEMMA ExitInTime ==
  ASSUME NEW t \in Tracker, t.sign <= t.last_seen + Lag
  PROVE  /\ [t EXCEPT !.confirmed_exit = TRUE] \in Tracker
         /\ [t EXCEPT !.confirmed_exit = TRUE].sign
              <= [t EXCEPT !.confirmed_exit = TRUE].last_seen + Lag
BY DEF Tracker

\* What a command tells an empty queue: nothing, the session, or one run.
Told(c, e) ==
  \/ c.registered /\ e.buffer = <<>> /\ e.known_runs = c.known_runs
  \/ ~c.registered /\ e.buffer = <<SessionUpsert(NoRuns)>> /\ e.known_runs = NoRuns
  \/ /\ c.registered
     /\ \E n \in NativeIds : \E state \in States :
          /\ e.buffer = <<RunUpsert(n, state, NextStamp(c, n))>>
          /\ e.known_runs = [c.known_runs EXCEPT ![n] = state]

LEMMA SessionOK ==
  ASSUME NEW c, CoreOK(c), ~c.registered, NEW e,
         e = [c EXCEPT !.registered = TRUE, !.buffer = push(@, SessionUpsert(NoRuns))]
  PROVE  /\ CoreOK(e) /\ Onward(c, e) /\ e.registered
         /\ e.buffer = <<SessionUpsert(NoRuns)>> /\ e.known_runs = NoRuns
<1>. DEFINE msg == SessionUpsert(NoRuns)
            q == <<msg>>
<1>0. c \in Core /\ c.buffer = <<>> /\ c.known_runs = NoRuns BY DEF CoreOK
<1>1. msg \in ClientMessage /\ msg.type = "session.upsert" /\ msg.runs = NoRuns
  BY CoreNoRuns DEF SessionUpsert, ClientMessage
<1>2. push(c.buffer, msg) = q /\ Len(q) <= Capacity /\ q \in Seq(ClientMessage)
  <2>1. <<>> \in Seq(ClientMessage) OBVIOUS
  <2>2. push(<<>>, msg) = q /\ Len(push(<<>>, msg)) <= Capacity BY <1>1, <2>1, PushRest
  <2>3. q \in Seq(ClientMessage) BY <1>1
  <2>. QED BY <1>0, <2>2, <2>3
<1>3. DOMAIN q = {1} /\ q[1] = msg OBVIOUS
<1>. HIDE DEF q, msg
<1>4. e = [c EXCEPT !.registered = TRUE, !.buffer = q] BY <1>2 DEF msg
<1>5. /\ e \in Core /\ e.registered /\ e.buffer = q /\ e.known_runs = c.known_runs
      /\ e.last_seq = c.last_seq /\ e.liveness = c.liveness /\ e.now = c.now
  BY <1>0, <1>2, <1>4 DEF Core
<1>6. QueueInv(e, q) BY <1>0, <1>1, <1>3, <1>5 DEF QueueInv, NoRuns
<1>7. CoreOK(e) BY <1>2, <1>5, <1>6 DEF CoreOK
<1>8. \A n \in NativeIds : c.last_seq[n] \in Nat BY <1>0 DEF Core
<1>. QED BY <1>0, <1>5, <1>7, <1>8 DEF Onward, q, msg

LEMMA ApplyOK ==
  ASSUME NEW c, CoreOK(c), NEW sent \in ReporterCommand,
         sent.op = "session" <=> ~c.registered, sent.at <= c.now + Lag
  PROVE  LET e == apply(c, sent)
         IN  CoreOK(e) /\ Onward(c, e) /\ e.registered /\ (c.buffer = <<>> => Told(c, e))
<1>. DEFINE e == apply(c, sent)
            n == sent.id
<1>0. c \in Core /\ InTime(c.liveness) BY DEF CoreOK
<1>1. /\ c.now \in Nat /\ c.registered \in BOOLEAN
      /\ c.liveness \in [NativeIds -> Tracker \cup {NoTracker}]
  BY <1>0, CoreFields
<1>2. CASE sent.op = "session"
  <2>1. e = [c EXCEPT !.registered = TRUE, !.buffer = push(@, SessionUpsert(NoRuns))]
    BY <1>2 DEF apply
  <2>. HIDE DEF e
  <2>. QED BY <1>2, <2>1, SessionOK DEF Told, e
<1>3. CASE sent.op = "stop"
  <2>1. e = c BY <1>3 DEF apply
  <2>2. \A m \in NativeIds : c.last_seq[m] \in Nat BY <1>0 DEF Core
  <2>3. Onward(c, c) BY <2>2 DEF Onward
  <2>. QED BY <1>3, <2>1, <2>3 DEF Told
<1>4. CASE sent.op = "alive"
  <2>1. n \in NativeIds /\ sent.at \in Nat BY <1>4, CommandType
  <2>. DEFINE t == alive(c.liveness[n], c.now, sent.at)
              l == IF c.liveness[n] = NoTracker THEN c.liveness ELSE [c.liveness EXCEPT ![n] = t]
  <2>2. l \in [NativeIds -> Tracker \cup {NoTracker}] /\ InTime(l)
    <3>1. CASE c.liveness[n] = NoTracker BY <1>0, <1>1, <3>1
    <3>2. CASE c.liveness[n] # NoTracker
      <4>1. c.liveness[n] \in Tracker BY <1>1, <2>1, <3>2
      <4>2. t \in Tracker /\ t.sign <= t.last_seen + Lag BY <1>1, <2>1, <4>1, AliveInTime
      <4>. HIDE DEF t
      <4>. QED BY <1>0, <1>1, <2>1, <3>2, <4>2, PutInTime
    <3>. QED BY <3>1, <3>2
  <2>3. e = [c EXCEPT !.liveness = l]
    <3>1. c = [c EXCEPT !.liveness = c.liveness] BY <1>0 DEF Core
    <3>. QED BY <1>4, <3>1 DEF apply
  <2>. HIDE DEF l, e
  <2>4. /\ e \in Core /\ e.registered = c.registered /\ e.buffer = c.buffer
        /\ e.known_runs = c.known_runs /\ e.last_seq = c.last_seq /\ e.liveness = l
        /\ e.now = c.now
    BY <1>0, <2>2, <2>3 DEF Core
  <2>5. QueueInv(e, e.buffer) BY <2>4 DEF CoreOK, QueueInv
  <2>6. c.registered BY <1>4
  <2>7. CoreOK(e) BY <2>2, <2>4, <2>5, <2>6 DEF CoreOK
  <2>8. \A m \in NativeIds : c.last_seq[m] \in Nat BY <1>0 DEF Core
  <2>9. Onward(c, e) BY <2>4, <2>8 DEF Onward
  <2>. QED BY <2>4, <2>6, <2>7, <2>9 DEF Told, e
<1>5. CASE sent.op \in {"run", "exit"}
  <2>1. n \in NativeIds /\ sent.at \in Nat /\ c.registered BY <1>5, CommandType
  <2>2. PICK l \in [NativeIds -> Tracker \cup {NoTracker}] : \E state \in States :
          InTime(l) /\ e = Report([c EXCEPT !.liveness = l], n, state)
    <3>1. CASE sent.op = "run"
      <4>. DEFINE t == IF sent.state = "dead"
                       THEN [observed(c, n) EXCEPT !.confirmed_exit = TRUE]
                       ELSE alive(observed(c, n), c.now, sent.at)
                  l == [c.liveness EXCEPT ![n] = t]
      <4>1. observed(c, n) \in Tracker /\ observed(c, n).sign <= observed(c, n).last_seen + Lag
        BY <1>0, <2>1, TrackerType
      <4>2. t \in Tracker /\ t.sign <= t.last_seen + Lag
        <5>1. CASE sent.state = "dead" BY <4>1, <5>1, ExitInTime
        <5>2. CASE sent.state # "dead" BY <1>1, <2>1, <4>1, <5>2, AliveInTime
        <5>. QED BY <5>1, <5>2
      <4>3. e = Report([c EXCEPT !.liveness = l], n, sent.state) BY <3>1 DEF apply
      <4>. HIDE DEF t, e
      <4>4. l \in [NativeIds -> Tracker \cup {NoTracker}] /\ InTime(l)
        BY <1>0, <1>1, <2>1, <4>2, PutInTime
      <4>5. sent.state \in States BY <3>1, CommandType
      <4>. HIDE DEF l
      <4>. QED BY <4>3, <4>4, <4>5
    <3>2. CASE sent.op = "exit"
      <4>. DEFINE t == [c.liveness[n] EXCEPT !.confirmed_exit = TRUE]
                  l == IF c.liveness[n] = NoTracker THEN c.liveness ELSE [c.liveness EXCEPT ![n] = t]
      <4>1. l \in [NativeIds -> Tracker \cup {NoTracker}] /\ InTime(l)
        <5>1. CASE c.liveness[n] = NoTracker BY <1>0, <1>1, <5>1
        <5>2. CASE c.liveness[n] # NoTracker
          <6>1. c.liveness[n] \in Tracker /\ c.liveness[n].sign <= c.liveness[n].last_seen + Lag
            BY <1>0, <1>1, <2>1, <5>2 DEF InTime
          <6>2. t \in Tracker /\ t.sign <= t.last_seen + Lag BY <6>1, ExitInTime
          <6>. HIDE DEF t
          <6>. QED BY <1>0, <1>1, <2>1, <5>2, <6>2, PutInTime
        <5>. QED BY <5>1, <5>2
      <4>2. [c EXCEPT !.liveness = l] =
              IF c.liveness[n] = NoTracker THEN c
              ELSE [c EXCEPT !.liveness[n].confirmed_exit = TRUE]
        <5>1. c = [c EXCEPT !.liveness = c.liveness] BY <1>0 DEF Core
        <5>. QED BY <5>1
      <4>3. e = Report([c EXCEPT !.liveness = l], n, "dead") BY <3>2, <4>2 DEF apply
      <4>4. "dead" \in States BY CoreConstants
      <4>. HIDE DEF l, e
      <4>. QED BY <4>1, <4>3, <4>4
    <3>. QED BY <1>5, <3>1, <3>2
  <2>3. PICK state \in States : e = Report([c EXCEPT !.liveness = l], n, state) BY <2>2
  <2>4. InTime(l) BY <2>2
  <2>. HIDE DEF e
  <2>5. /\ CoreOK(e) /\ Onward(c, e) /\ e.registered
        /\ e.known_runs = [c.known_runs EXCEPT ![n] = state]
        /\ c.buffer = <<>> => e.buffer = <<RunUpsert(n, state, NextStamp(c, n))>>
    BY <2>1, <2>3, <2>4, ReportOK
  <2>. QED BY <2>1, <2>5 DEF Told, e
<1>. QED BY <1>2, <1>3, <1>4, <1>5, CommandType

LEMMA PumpOK ==
  ASSUME NEW c, CoreOK(c), NEW cmds \in Seq(ReporterCommand),
         \A i \in DOMAIN cmds : cmds[i].op = "session" => i = 1 /\ ~c.registered,
         ~c.registered => cmds # <<>> /\ cmds[1].op = "session",
         \A i \in DOMAIN cmds : cmds[i].at <= c.now + Lag
  PROVE  LET e == apply_all(c, cmds) IN CoreOK(e) /\ Onward(c, e) /\ e.registered
<1>. DEFINE After1 == {e \in Core : CoreOK(e) /\ Onward(c, e) /\ e.registered}
            V == [k \in 0..Len(cmds) |-> IF k = 0 THEN {c} ELSE After1]
<1>0. Len(cmds) \in Nat /\ DOMAIN cmds = 1..Len(cmds) OBVIOUS
<1>1. c \in V[0] BY <1>0
<1>2. c \in Core /\ \A n \in NativeIds : c.last_seq[n] \in Nat BY DEF CoreOK, Core
<1>3. Onward(c, c) BY <1>2 DEF Onward
<1>4. ASSUME NEW k \in 1..Len(cmds), NEW e \in V[k - 1]
      PROVE  apply(e, cmds[k]) \in V[k]
  <2>. DEFINE f == apply(e, cmds[k])
  <2>1. k \in DOMAIN cmds /\ cmds[k] \in ReporterCommand /\ k - 1 \in 0..Len(cmds) BY <1>0
  <2>2. V[k] = After1 /\ V[k - 1] = IF k = 1 THEN {c} ELSE After1 BY <1>0, <2>1
  <2>. HIDE DEF V
  <2>3. CoreOK(e) /\ Onward(c, e) /\ ((k # 1 /\ e.registered) \/ (k = 1 /\ e = c))
    BY <1>3, <1>4, <2>2
  <2>4. cmds[k].op = "session" <=> ~e.registered BY <1>0, <2>1, <2>3 DEF Onward
  <2>5. cmds[k].at <= e.now + Lag BY <2>1, <2>3 DEF Onward
  <2>6. CoreOK(f) /\ Onward(e, f) /\ f.registered BY <2>1, <2>3, <2>4, <2>5, ApplyOK
  <2>. HIDE DEF f
  <2>7. e \in Core /\ f \in Core BY <2>3, <2>6 DEF CoreOK
  <2>8. Onward(c, f)
    <3>1. \A n \in NativeIds : c.last_seq[n] <= f.last_seq[n]
      <4>. TAKE n \in NativeIds
      <4>1. c.last_seq[n] \in Nat /\ e.last_seq[n] \in Nat /\ f.last_seq[n] \in Nat
        BY <1>2, <2>7 DEF Core
      <4>2. c.last_seq[n] <= e.last_seq[n] /\ e.last_seq[n] <= f.last_seq[n]
        BY <2>3, <2>6 DEF Onward
      <4>. QED BY <4>1, <4>2
    <3>. QED BY <2>3, <2>6, <3>1 DEF Onward
  <2>9. f \in After1 BY <2>6, <2>7, <2>8
  <2>. QED BY <2>2, <2>9 DEF f
<1>5. V[Len(cmds)] \subseteq {e \in Core : CoreOK(e) /\ Onward(c, e) /\ e.registered}
  <2>1. V[Len(cmds)] = IF Len(cmds) = 0 THEN {c} ELSE After1 BY <1>0
  <2>2. Len(cmds) = 0 => c.registered BY <1>0
  <2>. QED BY <1>2, <1>3, <2>1, <2>2
<1>. HIDE DEF V
<1>6. apply_all(c, cmds) \in V[Len(cmds)] BY <1>1, <1>4, PumpKeeps
<1>. QED BY <1>5, <1>6

LEMMA BumpType ==
  ASSUME NEW f \in [NativeIds -> Nat], NEW D
  PROVE  [n \in NativeIds |-> IF n \in D THEN f[n] + 1 ELSE f[n]] \in [NativeIds -> Nat]
<1>1. \A n \in NativeIds : f[n] \in Nat /\ f[n] + 1 \in Nat OBVIOUS
<1>. QED BY <1>1

LEMMA ListType ==
  ASSUME NEW S, NEW n \in Nat, NEW r \in [1..n -> S]
  PROVE  r \in Seq(S) /\ DOMAIN r = 1..n
OBVIOUS

LEMMA DeathType ==
  ASSUME NEW c \in Core, NEW n \in NativeIds
  PROVE  LET m == RunUpsert(n, "dead", stamp(c, n))
         IN  /\ m \in ClientMessage /\ m.type = "run.upsert" /\ m.id = n
             /\ m.state = "dead" /\ m.stamp.epoch = 0 /\ m.stamp.seq = c.last_seq[n] + 1
<1>. DEFINE next == c.last_seq[n] + 1
            st == stamp(c, n)
<1>1. next \in Nat BY DEF Core
<1>2. st = [epoch |-> 0, seq |-> next] BY DEF stamp
<1>. HIDE DEF next, st
<1>3. st \in Stamp /\ st.epoch = 0 /\ st.seq = next BY <1>1, <1>2 DEF Stamp
<1>4. "dead" \in States BY CoreConstants
<1>5. RunUpsert(n, "dead", st) \in ClientMessage BY <1>3, <1>4 DEF RunUpsert, ClientMessage
<1>. QED BY <1>3, <1>5 DEF RunUpsert, next, st

\* The deaths of the timed out, whatever their order.
LEMMA ReapOK ==
  ASSUME NEW c, CoreOK(c), NEW e, e \in reap_timeouts(c)
  PROVE  CoreOK(e) /\ Onward(c, e) /\ (e.registered <=> c.registered)
<1>. DEFINE dead == {n \in NativeIds : timed_out(c.liveness[n], c.now)}
            places == 1 .. Cardinality(dead)
<1>0. /\ c \in Core /\ QueueInv(c, c.buffer) /\ InTime(c.liveness)
      /\ c.registered \in BOOLEAN /\ c.known_runs \in Runs /\ c.buffer \in Seq(ClientMessage)
      /\ c.last_seq \in [NativeIds -> Nat] /\ c.now \in Nat
      /\ c.liveness \in [NativeIds -> Tracker \cup {NoTracker}]
  BY CoreFields DEF CoreOK
<1>1. Cardinality(dead) \in Nat
  <2>1. dead \subseteq NativeIds OBVIOUS
  <2>2. IsFiniteSet(dead) BY <2>1, CoreConstants, FS_Subset
  <2>. QED BY <2>2, FS_CardinalityType
<1>2. PICK order \in [places -> dead] :
        /\ \A n \in dead : \E i \in places : order[i] = n
        /\ e = [c EXCEPT !.known_runs = [n \in NativeIds |-> IF n \in dead THEN "dead" ELSE @[n]],
                         !.last_seq   = [n \in NativeIds |-> IF n \in dead THEN @[n] + 1 ELSE @[n]],
                         !.liveness   = [n \in NativeIds |-> IF n \in dead THEN NoTracker ELSE @[n]],
                         !.buffer     = newest(@ \o
                            [i \in places |-> RunUpsert(order[i], "dead", stamp(c, order[i]))])]
  BY DEF reap_timeouts
<1>. DEFINE r == [i \in places |-> RunUpsert(order[i], "dead", stamp(c, order[i]))]
            k == [n \in NativeIds |-> IF n \in dead THEN "dead" ELSE c.known_runs[n]]
            s == [n \in NativeIds |-> IF n \in dead THEN c.last_seq[n] + 1 ELSE c.last_seq[n]]
            l == [n \in NativeIds |-> IF n \in dead THEN NoTracker ELSE c.liveness[n]]
            p == newest(c.buffer \o r)
<1>3. e = [c EXCEPT !.known_runs = k, !.last_seq = s, !.liveness = l, !.buffer = p] BY <1>2
<1>4. /\ k \in Runs /\ s \in [NativeIds -> Nat] /\ l \in [NativeIds -> Tracker \cup {NoTracker}]
      /\ InTime(l)
  <2>1. k \in Runs BY <1>0, CoreConstants DEF Runs
  <2>2. s \in [NativeIds -> Nat] BY <1>0, BumpType
  <2>3. l \in [NativeIds -> Tracker \cup {NoTracker}] BY <1>0
  <2>4. InTime(l)
    <3>1. \A n \in NativeIds : l[n] # NoTracker => l[n] = c.liveness[n] OBVIOUS
    <3>. HIDE DEF l
    <3>. QED BY <1>0, <3>1 DEF InTime
  <2>. QED BY <2>1, <2>2, <2>3, <2>4
<1>5. \A i \in places : /\ order[i] \in dead /\ order[i] \in NativeIds
                        /\ r[i] = RunUpsert(order[i], "dead", stamp(c, order[i]))
  BY <1>2
<1>6. \A i \in places :
        /\ r[i] \in ClientMessage /\ r[i].type = "run.upsert" /\ r[i].id = order[i]
        /\ r[i].state = "dead" /\ r[i].stamp.epoch = 0 /\ r[i].stamp.seq = c.last_seq[order[i]] + 1
  <2>. TAKE i \in places
  <2>1. order[i] \in NativeIds /\ r[i] = RunUpsert(order[i], "dead", stamp(c, order[i])) BY <1>5
  <2>. DEFINE n == order[i]
              m == RunUpsert(n, "dead", stamp(c, n))
  <2>2. n \in NativeIds /\ c \in Core BY <1>0, <2>1
  <2>. HIDE DEF r, dead, places, n
  <2>3. /\ m \in ClientMessage /\ m.type = "run.upsert" /\ m.id = n
        /\ m.state = "dead" /\ m.stamp.epoch = 0 /\ m.stamp.seq = c.last_seq[n] + 1
    BY <2>2, DeathType
  <2>. HIDE DEF m
  <2>4. r[i] = m BY <2>1 DEF n, m
  <2>. QED BY <2>3, <2>4 DEF n
<1>7. r \in Seq(ClientMessage) /\ DOMAIN r = places
  <2>1. r \in [places -> ClientMessage] BY <1>6
  <2>. DEFINE n == Cardinality(dead)
  <2>. HIDE DEF r, n
  <2>2. n \in Nat /\ r \in [1..n -> ClientMessage] BY <1>1, <2>1 DEF n
  <2>3. r \in Seq(ClientMessage) /\ DOMAIN r = 1..n BY <2>2, ListType
  <2>. QED BY <2>3 DEF n
<1>8. \A n \in NativeIds :
        /\ n \in dead => k[n] = "dead" /\ s[n] = c.last_seq[n] + 1
        /\ n \notin dead => k[n] = c.known_runs[n] /\ s[n] = c.last_seq[n]
        /\ c.last_seq[n] \in Nat
  BY <1>0
<1>9. \A n \in dead : \E i \in places : order[i] = n BY <1>2
<1>10. \A n \in dead : n \in NativeIds OBVIOUS
<1>11. ~c.registered => dead = {}
  <2>1. ~c.registered => \A n \in NativeIds : c.liveness[n] = NoTracker BY DEF CoreOK
  <2>. QED BY <2>1 DEF timed_out
<1>. HIDE DEF dead, places, r, k, s, l
<1>12. /\ p \in Seq(ClientMessage) /\ Len(p) <= Capacity
       /\ \E d \in Nat : Rest(p, c.buffer \o r, d)
       /\ c.buffer \o r \in Seq(ClientMessage)
       /\ Len(c.buffer \o r) <= Capacity => p = c.buffer \o r
  <2>1. c.buffer \o r \in Seq(ClientMessage) BY <1>0, <1>7
  <2>. QED BY <2>1, NewestIsRest
<1>. HIDE DEF p
<1>13. /\ e \in Core /\ e.known_runs = k /\ e.last_seq = s /\ e.liveness = l /\ e.buffer = p
       /\ e.now = c.now /\ e.registered = c.registered
  BY <1>0, <1>3, <1>4, <1>12 DEF Core
<1>14. Renews(c, e, r)
  <2>1. \A i \in places : /\ r[i].stamp.seq = e.last_seq[r[i].id]
                          /\ r[i].stamp.seq > c.last_seq[r[i].id]
                          /\ r[i].state = e.known_runs[r[i].id]
    BY <1>5, <1>6, <1>8, <1>13
  <2>2. \A n \in NativeIds :
          \/ \E i \in places : Reports(r[i], n)
          \/ e.known_runs[n] = c.known_runs[n] /\ e.last_seq[n] = c.last_seq[n]
    <3>. TAKE n \in NativeIds
    <3>1. CASE n \in dead BY <1>6, <1>9, <3>1 DEF Reports
    <3>2. CASE n \notin dead BY <1>8, <1>13, <3>2
    <3>. QED BY <3>1, <3>2
  <2>. QED BY <1>6, <1>7, <2>1, <2>2 DEF Renews
<1>15. /\ QueueInv(e, c.buffer \o r)
       /\ HasSession(c.buffer \o r) => HasSession(c.buffer)
  BY <1>0, <1>7, <1>13, <1>14, QueueRenewed
<1>16. QueueInv(e, p) /\ (HasSession(p) => HasSession(c.buffer))
  BY <1>12, <1>15, QueueRest
<1>17. ~c.registered => /\ p = <<>> /\ k = NoRuns
                        /\ \A n \in NativeIds : l[n] = NoTracker
  <2>. SUFFICES ASSUME ~c.registered
                PROVE  p = <<>> /\ k = NoRuns /\ \A n \in NativeIds : l[n] = NoTracker
    OBVIOUS
  <2>1. dead = {} /\ c.buffer = <<>> /\ c.known_runs = NoRuns
        /\ \A n \in NativeIds : c.liveness[n] = NoTracker
    BY <1>11 DEF CoreOK
  <2>2. places = {} BY <2>1, FS_EmptySet DEF places
  <2>3. r = <<>> BY <1>7, <2>2
  <2>4. c.buffer \o r = <<>> /\ Len(c.buffer \o r) <= Capacity BY <2>1, <2>3, CoreConstants
  <2>5. \A n \in NativeIds : k[n] = NoRun BY <2>1 DEF k, NoRuns
  <2>6. k = NoRuns BY <1>4, <2>5 DEF NoRuns, Runs
  <2>. QED BY <1>12, <2>1, <2>4, <2>6 DEF l
<1>18. CoreOK(e) BY <1>4, <1>12, <1>13, <1>16, <1>17 DEF CoreOK
<1>19. Onward(c, e)
  <2>1. ASSUME NEW n \in NativeIds PROVE c.last_seq[n] <= e.last_seq[n] BY <1>8, <1>13
  <2>. QED BY <1>13, <1>16, <2>1 DEF Onward
<1>. QED BY <1>13, <1>18, <1>19

LEMMA AdvanceOK ==
  ASSUME NEW c, CoreOK(c), NEW t \in Nat
  PROVE  LET e == advance_to(c, t)
         IN  /\ CoreOK(e) /\ e.now = IF t >= c.now THEN t ELSE c.now
             /\ e.registered = c.registered /\ e.buffer = c.buffer
             /\ e.known_runs = c.known_runs /\ e.last_seq = c.last_seq /\ e.liveness = c.liveness
<1>. DEFINE e == advance_to(c, t)
            m == IF t >= c.now THEN t ELSE c.now
<1>1. c \in Core /\ c.now \in Nat BY DEF CoreOK, Core
<1>2. e = [c EXCEPT !.now = m] /\ m \in Nat BY <1>1 DEF advance_to
<1>. HIDE DEF e, m
<1>3. /\ e \in Core /\ e.now = m /\ e.registered = c.registered /\ e.buffer = c.buffer
      /\ e.known_runs = c.known_runs /\ e.last_seq = c.last_seq /\ e.liveness = c.liveness
  BY <1>1, <1>2 DEF Core
<1>4. QueueInv(e, e.buffer) BY <1>3 DEF CoreOK, QueueInv
<1>5. CoreOK(e) BY <1>3, <1>4 DEF CoreOK
<1>. QED BY <1>3, <1>5 DEF e, m

-----------------------------------------------------------------------------
(* The inductive invariant.                                                *)

\* The deltas on their way from the core to the connection.
Queue == IF pc = "flush" THEN batch ELSE core.buffer

\* Where the driver is in its loop, and the session is registered first and once.
DriverInv ==
  /\ pc = "flush" <=> batch # <<>>
  /\ pc \in {"flush", "serve", "done"} => core.buffer = <<>>
  /\ stopping => commands = <<>>
  /\ \A i \in DOMAIN commands : commands[i].op = "session" => i = 1 /\ ~core.registered
  /\ ~core.registered => commands # <<>> /\ commands[1].op = "session"

\* The queue adds up to what the core knows.
SentInv ==
  /\ ~core.registered => /\ Queue = <<>> /\ core.known_runs = NoRuns
                         /\ \A n \in NativeIds : core.liveness[n] = NoTracker
  /\ QueueInv(core, Queue)
  /\ InTime(core.liveness)

\* The stamps the Hub may have seen: none while the session is still to be sent,
\* and then those the core has given.
Unheard(c, q) == ~c.registered \/ HasSession(q)
Given(c, q) ==
  [n \in NativeIds |-> IF Unheard(c, q) THEN {}
                       ELSE {at \in Stamp : at.epoch = 0 /\ at.seq <= c.last_seq[n]}]

\* The marks and frames of this process carry no other stamps.
HubInv ==
  ~relaunched => /\ MarkedBy(Given(core, Queue), marks)
                 /\ StampedBy(Given(core, Queue), frames)
                 /\ StampedBy(Given(core, Queue), late)

\* The core's clock, and what waits for it, is not ahead of time nor far behind.
ClockInv ==
  /\ core.now <= clock /\ clock <= core.now + Lag
  /\ \A i \in DOMAIN commands : commands[i].at <= clock

LinkIInv == LinkTypeOK /\ DriverInv /\ SentInv /\ HubInv /\ ClockInv /\ NothingIsLost

\* What was given is still given when the core goes on.
LEMMA GivenGrows ==
  ASSUME NEW c \in Core, NEW e \in Core, NEW q, NEW r,
         \A n \in NativeIds : c.last_seq[n] <= e.last_seq[n],
         Unheard(e, r) => Unheard(c, q)
  PROVE  \A n \in NativeIds : Given(c, q)[n] \subseteq Given(e, r)[n]
<1>. SUFFICES ASSUME NEW n \in NativeIds, NEW at \in Given(c, q)[n] PROVE at \in Given(e, r)[n]
  OBVIOUS
<1>1. /\ ~Unheard(c, q) /\ at \in Stamp /\ at.epoch = 0 /\ at.seq <= c.last_seq[n] BY DEF Given
<1>2. c.last_seq[n] \in Nat /\ e.last_seq[n] \in Nat /\ at.seq \in Nat BY <1>1 DEF Core, Stamp
<1>3. at.seq <= e.last_seq[n] BY <1>1, <1>2
<1>. QED BY <1>1, <1>3 DEF Given

LEMMA StampsKept ==
  ASSUME NEW G, NEW H, \A n \in NativeIds : G[n] \subseteq H[n]
  PROVE  /\ \A table : MarkedBy(G, table) => MarkedBy(H, table)
         /\ \A msgs \in Seq(ClientMessage) : StampedBy(G, msgs) => StampedBy(H, msgs)
<1>1. \A msgs \in Seq(ClientMessage) : \A i \in DOMAIN msgs :
        msgs[i].type = "run.upsert" => msgs[i].id \in NativeIds
  <2>. SUFFICES ASSUME NEW msgs \in Seq(ClientMessage), NEW i \in DOMAIN msgs,
                       msgs[i].type = "run.upsert"
                PROVE  msgs[i].id \in NativeIds
    OBVIOUS
  <2>1. msgs[i] \in ClientMessage OBVIOUS
  <2>. QED BY <2>1, MessageType
<1>. QED BY <1>1 DEF MarkedBy, StampedBy

LEMMA HubViewType ==
  ASSUME LinkTypeOK
  PROVE  HubView \in View /\ HubView.shown = shown /\ HubView.marks = marks
BY DEF LinkTypeOK, HubView, View

\* Outside a flush the core is well-formed as it stands.
LEMMA CoreReady ==
  ASSUME LinkIInv, pc # "flush"
  PROVE  CoreOK(core) /\ Queue = core.buffer
BY DEF LinkIInv, LinkTypeOK, SentInv, Queue, CoreOK

\* The Hub's marks are none while the session is still to be sent.
LEMMA NoMarksYet ==
  ASSUME LinkIInv, ~relaunched, NEW q, HasSession(q) => Unheard(core, Queue)
  PROVE  HasSession(q) => ReadAll(HubView, frames).marks = NoMarks
<1>. SUFFICES ASSUME HasSession(q) PROVE ReadAll(HubView, frames).marks = NoMarks OBVIOUS
<1>. DEFINE G == Given(core, Queue)
            x == ReadAll(HubView, frames)
<1>1. LinkTypeOK /\ MarkedBy(G, marks) /\ StampedBy(G, frames) BY DEF LinkIInv, HubInv
<1>2. HubView \in View /\ HubView.marks = marks /\ frames \in Seq(ClientMessage)
  BY <1>1, HubViewType DEF LinkTypeOK
<1>3. \A n \in NativeIds : G[n] = {} BY DEF Given
<1>. HIDE DEF G
<1>4. MarkedBy(G, x.marks) /\ x \in View BY <1>1, <1>2, ReadMarks, ReadType
<1>. HIDE DEF x
<1>5. x.marks \in [NativeIds -> Stamp \cup {NoMark}] /\ \A n \in NativeIds : x.marks[n] = NoMark
  BY <1>3, <1>4 DEF View, Marks, MarkedBy
<1>6. x.marks = [n \in NativeIds |-> NoMark] BY <1>5
<1>. QED BY <1>6 DEF NoMarks, x

\* The core's queue goes to the connection as it is.
LEMMA Drains ==
  ASSUME NEW c, CoreOK(c), FlushFrom(c)
  PROVE  /\ core' \in Core /\ core'.buffer = <<>> /\ Len(core'.buffer) <= Capacity
         /\ core'.registered = c.registered /\ core'.known_runs = c.known_runs
         /\ core'.last_seq = c.last_seq /\ core'.liveness = c.liveness /\ core'.now = c.now
         /\ batch' = c.buffer /\ batch' \in Seq(ClientMessage) /\ Queue' = c.buffer
         /\ pc' \in {"flush", "serve", "done"} /\ (pc' = "flush" <=> batch' # <<>>)
         /\ SentInv'
<1>1. c \in Core /\ c.buffer \in Seq(ClientMessage) BY CoreFields DEF CoreOK
<1>2. core' = [c EXCEPT !.buffer = <<>>] /\ batch' = c.buffer
      /\ pc' = IF c.buffer # <<>> THEN "flush" ELSE IF stopping THEN "done" ELSE "serve"
  BY DEF FlushFrom
<1>3. <<>> \in Seq(ClientMessage) OBVIOUS
<1>4. /\ core' \in Core /\ core'.buffer = <<>>
      /\ core'.registered = c.registered /\ core'.known_runs = c.known_runs
      /\ core'.last_seq = c.last_seq /\ core'.liveness = c.liveness /\ core'.now = c.now
  BY <1>1, <1>2, <1>3 DEF Core
<1>5. Queue' = c.buffer BY <1>2, <1>4 DEF Queue
<1>6. QueueInv(c, c.buffer) /\ InTime(c.liveness) BY DEF CoreOK
<1>7. QueueInv(core', Queue') BY <1>4, <1>5, <1>6 DEF QueueInv
<1>8. ~c.registered => /\ c.buffer = <<>> /\ c.known_runs = NoRuns
                       /\ \A n \in NativeIds : c.liveness[n] = NoTracker
  BY DEF CoreOK
<1>9. SentInv' BY <1>4, <1>5, <1>6, <1>7, <1>8 DEF SentInv
<1>10. Len(core'.buffer) <= Capacity BY <1>4, CoreConstants
<1>. QED BY <1>1, <1>2, <1>4, <1>5, <1>9, <1>10

-----------------------------------------------------------------------------
(* Every step keeps the invariant.                                         *)

LEMMA NewCoreType ==
  /\ NewCore \in Core /\ NewCore.buffer = <<>> /\ ~NewCore.registered
  /\ NewCore.known_runs = NoRuns /\ NewCore.now = 0
  /\ \A n \in NativeIds : NewCore.liveness[n] = NoTracker
<1>1. NoRuns \in Runs BY CoreNoRuns
<1>2. [n \in NativeIds |-> 0] \in [NativeIds -> Nat] OBVIOUS
<1>3. [n \in NativeIds |-> NoTracker] \in [NativeIds -> Tracker \cup {NoTracker}] OBVIOUS
<1>. QED BY <1>1, <1>2, <1>3 DEF NewCore, Core

LEMMA NothingStamped ==
  ASSUME NEW G
  PROVE  MarkedBy(G, NoMarks) /\ StampedBy(G, <<>>)
BY DEF MarkedBy, StampedBy, NoMarks

LEMMA EmptyType ==
  /\ <<>> \in Seq(ClientMessage) /\ <<>> \in Seq(ReporterCommand)
  /\ Len(<<>>) <= SocketRoom /\ Len(<<>>) <= Capacity
BY LinkConstants, CoreConstants

LEMMA NoMarksType == NoMarks \in Marks BY DEF NoMarks, Marks

LEMMA FirstCommand ==
  LET cmds == <<[op |-> "session", at |-> 0]>>
  IN  /\ cmds \in Seq(ReporterCommand) /\ DOMAIN cmds = {1} /\ cmds # <<>>
      /\ cmds[1].op = "session" /\ cmds[1].at = 0
<1>1. [op |-> "session", at |-> 0] \in ReporterCommand BY DEF ReporterCommand
<1>. QED BY <1>1

\* A new process has told nobody anything.
LEMMA FreshProcess ==
  ASSUME core = NewCore, commands = <<[op |-> "session", at |-> 0]>>, pc = "connect",
         batch = <<>>, stopping = FALSE, clock = 0
  PROVE  /\ DriverInv /\ SentInv /\ ClockInv /\ NothingIsLost
         /\ core \in Core /\ Len(core.buffer) <= Capacity /\ commands \in Seq(ReporterCommand)
<1>1. Queue = <<>> BY NewCoreType DEF Queue
<1>2. QueueInv(core, <<>>) BY DEF QueueInv
<1>3. SentInv BY <1>1, <1>2, NewCoreType DEF SentInv, InTime
<1>4. DriverInv BY NewCoreType, FirstCommand DEF DriverInv
<1>5. ClockInv BY NewCoreType, FirstCommand, LagType DEF ClockInv
<1>6. NothingIsLost BY DEF NothingIsLost, OnLiveLink
<1>. QED BY <1>3, <1>4, <1>5, <1>6, NewCoreType, FirstCommand, CoreConstants

LEMMA NewProcess ==
  ASSUME core' = NewCore, commands' = <<[op |-> "session", at |-> 0]>>, pc' = "connect",
         batch' = <<>>, stopping' = FALSE, clock' = 0
  PROVE  /\ DriverInv' /\ SentInv' /\ ClockInv' /\ NothingIsLost'
         /\ core' \in Core /\ Len(core'.buffer) <= Capacity /\ commands' \in Seq(ReporterCommand)
<1>1. Queue' = <<>> BY NewCoreType DEF Queue
<1>2. QueueInv(core', <<>>) BY DEF QueueInv
<1>3. SentInv' BY <1>1, <1>2, NewCoreType DEF SentInv, InTime
<1>4. DriverInv' BY NewCoreType, FirstCommand DEF DriverInv
<1>5. ClockInv' BY NewCoreType, FirstCommand, LagType DEF ClockInv
<1>6. NothingIsLost' BY DEF NothingIsLost, OnLiveLink
<1>. QED BY <1>3, <1>4, <1>5, <1>6, NewCoreType, FirstCommand, CoreConstants

LEMMA LinkInitInv == LinkInit => LinkIInv
<1>. SUFFICES ASSUME LinkInit PROVE LinkIInv OBVIOUS
<1>1. /\ DriverInv /\ SentInv /\ ClockInv /\ NothingIsLost
      /\ core \in Core /\ Len(core.buffer) <= Capacity /\ commands \in Seq(ReporterCommand)
  BY FreshProcess DEF LinkInit
<1>2. LinkTypeOK
  <2>1. clock \in 0 .. MaxTime /\ moves \in 0 .. MaxMoves BY LinkConstants DEF LinkInit
  <2>2. shown \in Runs \cup {NoSession} /\ marks \in Marks BY NoMarksType DEF LinkInit
  <2>. QED BY <1>1, <2>1, <2>2, EmptyType DEF LinkInit, LinkTypeOK
<1>3. HubInv BY NothingStamped DEF LinkInit, HubInv
<1>. QED BY <1>1, <1>2, <1>3 DEF LinkIInv

LEMMA CrashInv ==
  ASSUME LinkIInv, Crash
  PROVE  LinkIInv'
<1>1. /\ core' = NewCore /\ commands' = <<[op |-> "session", at |-> 0]>> /\ pc' = "connect"
      /\ batch' = <<>> /\ stopping' = FALSE /\ clock' = 0 /\ link' = "broken" /\ frames' = <<>>
      /\ late' \in {<<>>, frames} /\ relaunched' = TRUE
      /\ shown' = shown /\ marks' = marks /\ disturbed' = disturbed
      /\ moves < MaxMoves /\ moves' = moves + 1
  BY DEF Crash, Move
<1>2. /\ DriverInv' /\ SentInv' /\ ClockInv' /\ NothingIsLost'
      /\ core' \in Core /\ Len(core'.buffer) <= Capacity /\ commands' \in Seq(ReporterCommand)
  BY <1>1, NewProcess
<1>3. LinkTypeOK'
  <2>1. late' \in Seq(ClientMessage) BY <1>1, EmptyType DEF LinkIInv, LinkTypeOK
  <2>2. moves' \in 0 .. MaxMoves /\ clock' \in 0 .. MaxTime
    BY <1>1, LinkConstants DEF LinkIInv, LinkTypeOK
  <2>. QED BY <1>1, <1>2, <2>1, <2>2, EmptyType DEF LinkIInv, LinkTypeOK
<1>4. HubInv' BY <1>1 DEF HubInv
<1>. QED BY <1>2, <1>3, <1>4 DEF LinkIInv

LEMMA SentKept ==
  ASSUME LinkIInv, core' = core, Queue' = Queue
  PROVE  SentInv' /\ Given(core, Queue)' = Given(core, Queue)
BY DEF LinkIInv, SentInv, Given, Unheard

LEMMA ConnectSucceedsInv ==
  ASSUME LinkIInv, ConnectSucceeds
  PROVE  LinkIInv'
<1>1. /\ pc = "connect" /\ pc' = "register" /\ link' = "up" /\ frames' = <<>>
      /\ UNCHANGED <<core, commands, batch, stopping, late, shown, marks, disturbed, relaunched,
                     clock, moves>>
  BY DEF ConnectSucceeds, hub, env
<1>2. Queue' = Queue BY <1>1 DEF Queue
<1>3. LinkTypeOK' BY <1>1, LinkConstants DEF LinkIInv, LinkTypeOK
<1>4. DriverInv' BY <1>1 DEF LinkIInv, DriverInv
<1>5. HubInv' BY <1>1, <1>2, SentKept, NothingStamped DEF LinkIInv, HubInv
<1>6. ClockInv' BY <1>1 DEF LinkIInv, ClockInv
<1>7. NothingIsLost' BY <1>1 DEF NothingIsLost, OnLiveLink
<1>. QED BY <1>1, <1>2, <1>3, <1>4, <1>5, <1>6, <1>7, SentKept DEF LinkIInv

LEMMA RegisterFailsInv ==
  ASSUME LinkIInv, RegisterFails
  PROVE  LinkIInv'
<1>1. /\ pc = "register" /\ pc' = "connect"
      /\ UNCHANGED <<core, commands, batch, stopping, link, frames, late, shown, marks, disturbed,
                     relaunched, clock, moves>>
  BY DEF RegisterFails, net, hub, env
<1>2. Queue' = Queue BY <1>1 DEF Queue
<1>3. LinkTypeOK' BY <1>1 DEF LinkIInv, LinkTypeOK
<1>4. DriverInv' BY <1>1 DEF LinkIInv, DriverInv
<1>5. HubInv' BY <1>1, <1>2, SentKept DEF LinkIInv, HubInv
<1>6. ClockInv' BY <1>1 DEF LinkIInv, ClockInv
<1>7. NothingIsLost' BY <1>1 DEF NothingIsLost, OnLiveLink
<1>. QED BY <1>1, <1>2, <1>3, <1>4, <1>5, <1>6, <1>7, SentKept DEF LinkIInv

\* What the environment does to the link and the Hub.
LEMMA BreakInv ==
  ASSUME LinkIInv, Break
  PROVE  LinkIInv'
<1>1. /\ link' = "broken" /\ frames' = <<>> /\ late' \in {<<>>, frames}
      /\ moves < MaxMoves /\ moves' = moves + 1
      /\ UNCHANGED <<core, commands, pc, batch, stopping, shown, marks, disturbed, relaunched, clock>>
  BY DEF Break, Move, driver, hub
<1>2. Queue' = Queue BY <1>1 DEF Queue
<1>3. LinkTypeOK'
  <2>1. late' \in Seq(ClientMessage) BY <1>1, EmptyType DEF LinkIInv, LinkTypeOK
  <2>2. moves' \in 0 .. MaxMoves BY <1>1, LinkConstants DEF LinkIInv, LinkTypeOK
  <2>. QED BY <1>1, <2>1, <2>2, EmptyType DEF LinkIInv, LinkTypeOK
<1>4. DriverInv' BY <1>1 DEF LinkIInv, DriverInv
<1>5. HubInv' BY <1>1, <1>2, SentKept, NothingStamped DEF LinkIInv, HubInv
<1>6. ClockInv' BY <1>1 DEF LinkIInv, ClockInv
<1>7. NothingIsLost' BY <1>1 DEF NothingIsLost, OnLiveLink
<1>. QED BY <1>1, <1>2, <1>3, <1>4, <1>5, <1>6, <1>7, SentKept DEF LinkIInv

LEMMA HubRestartInv ==
  ASSUME LinkIInv, HubRestart
  PROVE  LinkIInv'
<1>1. /\ link' = "broken" /\ frames' = <<>> /\ late' = <<>> /\ shown' \in {shown, NoSession}
      /\ marks' = NoMarks /\ relaunched' = FALSE /\ moves < MaxMoves /\ moves' = moves + 1
      /\ UNCHANGED <<core, commands, pc, batch, stopping, disturbed, clock>>
  BY DEF HubRestart, Move, driver
<1>2. Queue' = Queue BY <1>1 DEF Queue
<1>3. LinkTypeOK'
  <2>1. shown' \in Runs \cup {NoSession} BY <1>1 DEF LinkIInv, LinkTypeOK
  <2>2. moves' \in 0 .. MaxMoves BY <1>1, LinkConstants DEF LinkIInv, LinkTypeOK
  <2>. QED BY <1>1, <2>1, <2>2, EmptyType, NoMarksType DEF LinkIInv, LinkTypeOK
<1>4. DriverInv' BY <1>1 DEF LinkIInv, DriverInv
<1>5. HubInv' BY <1>1, NothingStamped DEF HubInv
<1>6. ClockInv' BY <1>1 DEF LinkIInv, ClockInv
<1>7. NothingIsLost' BY <1>1 DEF NothingIsLost, OnLiveLink
<1>. QED BY <1>1, <1>2, <1>3, <1>4, <1>5, <1>6, <1>7, SentKept DEF LinkIInv

LEMMA DismissInv ==
  ASSUME LinkIInv, NEW n \in NativeIds, Dismiss(n)
  PROVE  LinkIInv'
<1>1. /\ shown # NoSession /\ shown' = [shown EXCEPT ![n] = NoRun]
      /\ marks' = drop_ids(marks, {n}) /\ disturbed' = TRUE
      /\ moves < MaxMoves /\ moves' = moves + 1
      /\ UNCHANGED <<core, commands, pc, batch, stopping, link, frames, late, relaunched, clock>>
  BY DEF Dismiss, Move, driver, net
<1>2. Queue' = Queue BY <1>1 DEF Queue
<1>3. shown' \in Runs BY <1>1 DEF LinkIInv, LinkTypeOK, Runs
<1>4. marks' \in Marks BY <1>1 DEF LinkIInv, LinkTypeOK, Marks, drop_ids
<1>5. LinkTypeOK' BY <1>1, <1>3, <1>4, LinkConstants DEF LinkIInv, LinkTypeOK
<1>6. DriverInv' BY <1>1 DEF LinkIInv, DriverInv
<1>7. HubInv'
  <2>. SUFFICES ASSUME ~relaunched'
                PROVE  (/\ MarkedBy(Given(core, Queue), marks)
                        /\ StampedBy(Given(core, Queue), frames)
                        /\ StampedBy(Given(core, Queue), late))'
    BY DEF HubInv
  <2>. DEFINE G == Given(core, Queue)
  <2>1. MarkedBy(G, marks) /\ StampedBy(G, frames) /\ StampedBy(G, late) /\ G' = G
    BY <1>1, <1>2, SentKept DEF LinkIInv, HubInv
  <2>. HIDE DEF G
  <2>2. MarkedBy(G, drop_ids(marks, {n})) BY <2>1 DEF MarkedBy, drop_ids
  <2>3. (MarkedBy(G, marks) /\ StampedBy(G, frames) /\ StampedBy(G, late))'
    BY <1>1, <2>1, <2>2 DEF MarkedBy, StampedBy
  <2>. QED BY <2>3 DEF G
<1>8. ClockInv' BY <1>1 DEF LinkIInv, ClockInv
<1>9. NothingIsLost' BY <1>1 DEF NothingIsLost, OnLiveLink
<1>. QED BY <1>1, <1>2, <1>5, <1>6, <1>7, <1>8, <1>9, SentKept DEF LinkIInv

LEMMA DismissSessionInv ==
  ASSUME LinkIInv, DismissSession
  PROVE  LinkIInv'
<1>1. /\ shown' = NoSession /\ marks' = NoMarks /\ disturbed' = TRUE
      /\ moves < MaxMoves /\ moves' = moves + 1
      /\ UNCHANGED <<core, commands, pc, batch, stopping, link, frames, late, relaunched, clock>>
  BY DEF DismissSession, Move, driver, net
<1>2. Queue' = Queue BY <1>1 DEF Queue
<1>3. LinkTypeOK' BY <1>1, LinkConstants, NoMarksType DEF LinkIInv, LinkTypeOK
<1>4. DriverInv' BY <1>1 DEF LinkIInv, DriverInv
<1>5. HubInv' BY <1>1, <1>2, SentKept, NothingStamped DEF LinkIInv, HubInv
<1>6. ClockInv' BY <1>1 DEF LinkIInv, ClockInv
<1>7. NothingIsLost' BY <1>1 DEF NothingIsLost, OnLiveLink
<1>. QED BY <1>1, <1>2, <1>3, <1>4, <1>5, <1>6, <1>7, SentKept DEF LinkIInv

\* A step that leaves the link and the Hub alone while the core goes on.
LEMMA HubUntold ==
  ASSUME LinkIInv, core' \in Core, \A n \in NativeIds : core.last_seq[n] <= core'.last_seq[n],
         Unheard(core', Queue') => Unheard(core, Queue),
         UNCHANGED <<frames, late, marks, relaunched>>
  PROVE  HubInv'
<1>1. core \in Core /\ frames \in Seq(ClientMessage) /\ late \in Seq(ClientMessage)
  BY DEF LinkIInv, LinkTypeOK
<1>. DEFINE G == Given(core, Queue)
            H == Given(core', Queue')
<1>2. \A n \in NativeIds : G[n] \subseteq H[n] BY <1>1, GivenGrows
<1>. SUFFICES ASSUME ~relaunched
              PROVE  MarkedBy(H, marks') /\ StampedBy(H, frames') /\ StampedBy(H, late')
  BY DEF HubInv
<1>3. MarkedBy(G, marks) /\ StampedBy(G, frames) /\ StampedBy(G, late) BY DEF LinkIInv, HubInv
<1>. HIDE DEF G, H
<1>. QED BY <1>1, <1>2, <1>3, StampsKept

LEMMA ConnectFailsInv ==
  ASSUME LinkIInv, ConnectFails
  PROVE  LinkIInv'
<1>. DEFINE e == apply_all(core, commands)
<1>1. /\ pc = "connect" /\ core' = e /\ commands' = <<>> /\ pc' = pc /\ batch' = batch
      /\ stopping' = (stopping \/ Stops(commands))
      /\ UNCHANGED <<link, frames, late, shown, marks, disturbed, relaunched, clock, moves>>
  BY DEF ConnectFails, net, hub, env
<1>2. CoreOK(core) /\ Queue = core.buffer BY <1>1, CoreReady
<1>3. CoreOK(e) /\ Onward(core, e) /\ e.registered
  <2>1. commands \in Seq(ReporterCommand) /\ DriverInv /\ ClockInv /\ LinkTypeOK
    BY DEF LinkIInv, LinkTypeOK
  <2>2. \A i \in DOMAIN commands : commands[i].at <= core.now + Lag
    <3>. SUFFICES ASSUME NEW i \in DOMAIN commands PROVE commands[i].at <= core.now + Lag OBVIOUS
    <3>1. commands[i] \in ReporterCommand BY <2>1
    <3>2. commands[i].at \in Nat BY <3>1, CommandType
    <3>3. commands[i].at <= clock /\ clock <= core.now + Lag BY <2>1 DEF ClockInv
    <3>4. clock \in Nat /\ core.now \in Nat BY <2>1, LinkConstants DEF LinkTypeOK, Core
    <3>. QED BY <3>2, <3>3, <3>4, LagType
  <2>3. /\ \A i \in DOMAIN commands : commands[i].op = "session" => i = 1 /\ ~core.registered
        /\ ~core.registered => commands # <<>> /\ commands[1].op = "session"
    BY <2>1 DEF DriverInv
  <2>. HIDE DEF e
  <2>. QED BY <1>2, <2>1, <2>2, <2>3, PumpOK DEF e
<1>. HIDE DEF e
<1>4. Queue' = e.buffer BY <1>1 DEF Queue
<1>5. e \in Core /\ Len(e.buffer) <= Capacity BY <1>3 DEF CoreOK
<1>6. LinkTypeOK'
  <2>1. stopping' \in BOOLEAN BY <1>1
  <2>. QED BY <1>1, <1>5, <2>1, EmptyType DEF LinkIInv, LinkTypeOK
<1>7. SentInv' BY <1>1, <1>3, <1>4 DEF CoreOK, SentInv
<1>8. DriverInv' BY <1>1, <1>3 DEF LinkIInv, DriverInv
<1>9. HubInv'
  <2>1. Unheard(core', Queue') => Unheard(core, Queue)
    BY <1>1, <1>2, <1>3, <1>4 DEF Unheard, Onward
  <2>2. \A n \in NativeIds : core.last_seq[n] <= core'.last_seq[n] BY <1>1, <1>3 DEF Onward
  <2>. QED BY <1>1, <1>5, <2>1, <2>2, HubUntold
<1>10. ClockInv' BY <1>1, <1>3 DEF LinkIInv, ClockInv, Onward
<1>11. NothingIsLost' BY <1>1 DEF NothingIsLost, OnLiveLink
<1>. QED BY <1>6, <1>7, <1>8, <1>9, <1>10, <1>11 DEF LinkIInv

\* A frame handed to the transport carries a stamp that was given.
LEMMA SendGiven ==
  ASSUME NEW G, NEW msgs \in Seq(ClientMessage), StampedBy(G, msgs), NEW msg \in ClientMessage,
         msg.type = "run.upsert" => msg.stamp \in G[msg.id]
  PROVE  StampedBy(G, Append(msgs, msg))
<1>1. \A i \in DOMAIN Append(msgs, msg) :
        \/ i \in DOMAIN msgs /\ Append(msgs, msg)[i] = msgs[i]
        \/ Append(msgs, msg)[i] = msg
  OBVIOUS
<1>. DEFINE w == Append(msgs, msg)
<1>. HIDE DEF w
<1>2. \A i \in DOMAIN w : (i \in DOMAIN msgs /\ w[i] = msgs[i]) \/ w[i] = msg BY <1>1 DEF w
<1>3. StampedBy(G, w) BY <1>2 DEF StampedBy
<1>. QED BY <1>3 DEF w

LEMMA FlushInv ==
  ASSUME LinkIInv, Flush
  PROVE  LinkIInv'
<1>1. /\ pc = "flush" /\ link = "up" /\ Len(frames) < SocketRoom
      /\ frames' = Append(frames, Head(batch)) /\ batch' = Tail(batch)
      /\ pc' = IF Tail(batch) # <<>> THEN "flush" ELSE IF stopping THEN "done" ELSE "serve"
      /\ UNCHANGED <<core, commands, stopping, link, late, shown, marks, disturbed, relaunched,
                     clock, moves>>
  BY DEF Flush, SendFrame, hub, env
<1>2. /\ Queue = batch /\ core.buffer = <<>> /\ core \in Core /\ batch \in Seq(ClientMessage)
      /\ frames \in Seq(ClientMessage) /\ late \in Seq(ClientMessage)
      /\ QueueInv(core, batch) /\ LinkTypeOK
  BY <1>1 DEF LinkIInv, LinkTypeOK, DriverInv, SentInv, Queue
<1>3. batch # <<>> BY <1>1 DEF LinkIInv, DriverInv
<1>. DEFINE msg == Head(batch)
            rest == Tail(batch)
<1>4. /\ rest \in Seq(ClientMessage) /\ Rest(rest, batch, 1)
      /\ msg \in ClientMessage /\ msg = batch[1] /\ 1 \in DOMAIN batch
      /\ frames' = Append(frames, msg) /\ batch' = rest
  BY <1>1, <1>2, <1>3, TailIsRest
<1>. HIDE DEF msg, rest
<1>5. QueueInv(core, rest) /\ ~HasSession(rest)
  <2>1. QueueInv(core, rest) /\ (HasSession(rest) => 1 = 0) BY <1>2, <1>4, QueueRest
  <2>. QED BY <2>1
<1>6. Queue' = rest BY <1>1, <1>2, <1>4 DEF Queue, rest
<1>7. core.registered
  <2>1. ~core.registered => Queue = <<>> BY DEF LinkIInv, SentInv
  <2>. QED BY <1>2, <1>3, <2>1
<1>8. ~Unheard(core', Queue') BY <1>1, <1>5, <1>6, <1>7 DEF Unheard
<1>9. LinkTypeOK'
  <2>1. frames' \in Seq(ClientMessage) /\ Len(frames') <= SocketRoom
    BY <1>1, <1>2, <1>4, LinkConstants
  <2>2. pc' \in {"flush", "serve", "done"} BY <1>1
  <2>. QED BY <1>1, <1>2, <1>4, <2>1, <2>2 DEF LinkTypeOK
<1>10. DriverInv' BY <1>1, <1>2, <1>4 DEF LinkIInv, DriverInv, rest
<1>11. SentInv' BY <1>1, <1>5, <1>6, <1>7 DEF LinkIInv, SentInv
<1>12. HubInv'
  <2>. SUFFICES ASSUME ~relaunched'
                PROVE  LET H == Given(core', Queue')
                       IN  MarkedBy(H, marks') /\ StampedBy(H, frames') /\ StampedBy(H, late')
    BY DEF HubInv
  <2>. DEFINE G == Given(core, Queue)
              H == Given(core', Queue')
  <2>1. \A n \in NativeIds : G[n] \subseteq H[n]
    <3>1. \A n \in NativeIds : core.last_seq[n] <= core'.last_seq[n]
      <4>1. \A n \in NativeIds : core.last_seq[n] \in Nat BY <1>2 DEF Core
      <4>. QED BY <1>1, <4>1
    <3>. QED BY <1>1, <1>2, <1>8, <3>1, GivenGrows
  <2>2. MarkedBy(G, marks) /\ StampedBy(G, frames) /\ StampedBy(G, late)
    BY <1>1 DEF LinkIInv, HubInv
  <2>3. msg.type = "run.upsert" => msg.stamp \in H[msg.id]
    <3>1. CASE msg.type = "run.upsert"
      <4>1. msg.id \in NativeIds /\ msg.stamp \in Stamp BY <1>4, <3>1, MessageType
      <4>2. msg.stamp.epoch = 0 /\ msg.stamp.seq <= core.last_seq[msg.id]
        BY <1>2, <1>4, <3>1 DEF QueueInv
      <4>. QED BY <1>1, <1>8, <4>1, <4>2 DEF Given
    <3>. QED BY <3>1
  <2>. HIDE DEF G, H
  <2>4. MarkedBy(H, marks) /\ StampedBy(H, frames) /\ StampedBy(H, late)
    BY <1>2, <2>1, <2>2, StampsKept
  <2>5. StampedBy(H, Append(frames, msg)) BY <1>2, <1>4, <2>3, <2>4, SendGiven
  <2>6. MarkedBy(H, marks') /\ StampedBy(H, frames') /\ StampedBy(H, late')
    BY <1>1, <1>4, <2>4, <2>5
  <2>. QED BY <2>6 DEF H
<1>13. ClockInv' BY <1>1 DEF LinkIInv, ClockInv
<1>14. NothingIsLost'
  <2>. SUFFICES ASSUME (OnLiveLink /\ ~relaunched)' PROVE Agrees' BY DEF NothingIsLost
  <2>1. OnLiveLink /\ ~relaunched BY <1>1 DEF OnLiveLink
  <2>2. ReadAll(HubView, frames \o batch).shown = core.known_runs
    BY <2>1 DEF LinkIInv, NothingIsLost, Agrees, ViewAfter
  <2>3. batch = <<msg>> \o rest BY <1>2, <1>3, HeadFirst DEF msg, rest
  <2>4. frames' \o batch' = frames \o batch
    <3>1. Append(frames, msg) \o rest = frames \o (<<msg>> \o rest) BY <1>2, <1>4
    <3>. QED BY <1>4, <2>3, <3>1
  <2>5. HubView' = HubView BY <1>1 DEF HubView
  <2>. QED BY <1>1, <2>2, <2>4, <2>5 DEF Agrees, ViewAfter
<1>. QED BY <1>9, <1>10, <1>11, <1>12, <1>13, <1>14 DEF LinkIInv

LEMMA FlushFailsInv ==
  ASSUME LinkIInv, FlushFails
  PROVE  LinkIInv'
<1>1. /\ pc = "flush" /\ link = "broken" /\ batch' = <<>> /\ pc' = "connect"
      /\ core' = [core EXCEPT !.buffer = requeue_unsent(@, batch)]
      /\ UNCHANGED <<commands, stopping, link, frames, late, shown, marks, disturbed, relaunched,
                     clock, moves>>
  BY DEF FlushFails, net, hub, env
<1>2. /\ Queue = batch /\ core.buffer = <<>> /\ core \in Core /\ batch \in Seq(ClientMessage)
      /\ QueueInv(core, batch) /\ LinkTypeOK
  BY <1>1 DEF LinkIInv, LinkTypeOK, DriverInv, SentInv, Queue
<1>. DEFINE q == newest(batch)
<1>3. PICK d \in Nat : Rest(q, batch, d) BY <1>2, NewestIsRest
<1>4. q \in Seq(ClientMessage) /\ Len(q) <= Capacity BY <1>2, NewestIsRest
<1>5. core' = [core EXCEPT !.buffer = q]
  <2>1. batch \o core.buffer = batch BY <1>2
  <2>. QED BY <1>1, <2>1 DEF requeue_unsent
<1>. HIDE DEF q
<1>6. /\ core' \in Core /\ core'.buffer = q
      /\ core'.registered = core.registered /\ core'.known_runs = core.known_runs
      /\ core'.last_seq = core.last_seq /\ core'.liveness = core.liveness /\ core'.now = core.now
  BY <1>2, <1>4, <1>5 DEF Core
<1>7. Queue' = q BY <1>1, <1>6 DEF Queue
<1>8. QueueInv(core, q) /\ (HasSession(q) => HasSession(batch)) BY <1>2, <1>3, <1>4, QueueRest
<1>9. core.registered
  <2>1. ~core.registered => Queue = <<>> BY DEF LinkIInv, SentInv
  <2>2. batch # <<>> BY <1>1 DEF LinkIInv, DriverInv
  <2>. QED BY <1>2, <2>1, <2>2
<1>10. LinkTypeOK' BY <1>1, <1>2, <1>4, <1>6, EmptyType DEF LinkTypeOK
<1>11. DriverInv' BY <1>1, <1>6 DEF LinkIInv, DriverInv
<1>12. SentInv'
  <2>1. QueueInv(core', Queue') BY <1>6, <1>7, <1>8 DEF QueueInv
  <2>. QED BY <1>6, <1>9, <2>1 DEF LinkIInv, SentInv
<1>13. HubInv'
  <2>1. Unheard(core', Queue') => Unheard(core, Queue) BY <1>2, <1>6, <1>7, <1>8 DEF Unheard
  <2>2. \A n \in NativeIds : core.last_seq[n] \in Nat BY <1>2 DEF Core
  <2>. QED BY <1>1, <1>6, <2>1, <2>2, HubUntold
<1>14. ClockInv' BY <1>1, <1>6 DEF LinkIInv, ClockInv
<1>15. NothingIsLost' BY <1>1 DEF NothingIsLost, OnLiveLink
<1>. QED BY <1>10, <1>11, <1>12, <1>13, <1>14, <1>15 DEF LinkIInv

LEMMA PumpNone ==
  ASSUME NEW c
  PROVE  apply_all(c, <<>>) = c
<1>1. Pumping([k \in 0..0 |-> c], Len(<<>>), c, <<>>) BY DEF Pumping
<1>. QED BY <1>1, Pumped

\* The driver sends a heartbeat, if there is a session, and then the core's queue.
LEMMA Beats ==
  ASSUME LinkIInv, pc \in {"register", "serve"}, NEW c, CoreOK(c),
         core.now <= c.now, c.now <= clock, c.registered <=> core.registered,
         \A n \in NativeIds : core.last_seq[n] <= c.last_seq[n],
         c.registered /\ HasSession(c.buffer) => HasSession(core.buffer),
         \/ c.registered /\ SendFrame(heartbeat_message(c)) /\ disturbed' = FALSE
         \/ ~c.registered /\ UNCHANGED <<frames, disturbed>>,
         FlushFrom(c),
         UNCHANGED <<commands, stopping, link, late, shown, marks, relaunched, clock, moves>>
  PROVE  LinkIInv'
<1>. DEFINE beat == heartbeat_message(c)
            G == Given(core, Queue)
            H == Given(core', Queue')
<1>1. /\ core' \in Core /\ core'.buffer = <<>> /\ Len(core'.buffer) <= Capacity
      /\ core'.registered = c.registered /\ core'.known_runs = c.known_runs
      /\ core'.last_seq = c.last_seq /\ core'.liveness = c.liveness /\ core'.now = c.now
      /\ batch' = c.buffer /\ batch' \in Seq(ClientMessage) /\ Queue' = c.buffer
      /\ pc' \in {"flush", "serve", "done"} /\ (pc' = "flush" <=> batch' # <<>>)
      /\ SentInv'
  BY Drains
<1>2. LinkTypeOK /\ DriverInv /\ ClockInv /\ core \in Core /\ frames \in Seq(ClientMessage)
      /\ late \in Seq(ClientMessage) /\ Len(frames) <= SocketRoom
  BY DEF LinkIInv, LinkTypeOK
<1>3. c \in Core /\ QueueInv(c, c.buffer) /\ c.known_runs \in Runs /\ c.buffer \in Seq(ClientMessage)
  BY CoreFields DEF CoreOK
<1>4. beat \in ClientMessage /\ beat.type = "session.upsert"
  BY <1>3 DEF heartbeat_message, SessionUpsert, ClientMessage
<1>5. Queue = core.buffer BY CoreReady
<1>6. \/ c.registered /\ link = "up" /\ Len(frames) < SocketRoom
         /\ frames' = Append(frames, beat) /\ disturbed' = FALSE
      \/ ~c.registered /\ frames' = frames /\ disturbed' = disturbed
  BY DEF SendFrame
<1>. HIDE DEF beat
<1>7. LinkTypeOK'
  <2>1. frames' \in Seq(ClientMessage) /\ Len(frames') <= SocketRoom
    BY <1>2, <1>4, <1>6, LinkConstants
  <2>2. disturbed' \in BOOLEAN BY <1>2, <1>6 DEF LinkTypeOK
  <2>. QED BY <1>1, <1>2, <2>1, <2>2 DEF LinkTypeOK
<1>8. DriverInv' BY <1>1, <1>2 DEF DriverInv
<1>9. ClockInv'
  <2>1. core.now \in Nat /\ c.now \in Nat /\ clock \in Nat
    BY <1>2, <1>3, LinkConstants DEF LinkTypeOK, Core
  <2>2. clock <= core.now + Lag BY <1>2 DEF ClockInv
  <2>3. clock <= c.now + Lag BY <2>1, <2>2, LagType
  <2>. QED BY <1>1, <1>2, <2>3 DEF ClockInv
<1>10. HubInv'
  <2>1. Unheard(core', Queue') => Unheard(core, Queue) BY <1>1, <1>5 DEF Unheard
  <2>2. \A n \in NativeIds : G[n] \subseteq H[n] BY <1>1, <1>2, <2>1, GivenGrows
  <2>. SUFFICES ASSUME ~relaunched
                PROVE  MarkedBy(H, marks') /\ StampedBy(H, frames') /\ StampedBy(H, late')
    BY DEF HubInv
  <2>3. MarkedBy(G, marks) /\ StampedBy(G, frames) /\ StampedBy(G, late) BY DEF LinkIInv, HubInv
  <2>. HIDE DEF G, H
  <2>4. MarkedBy(H, marks) /\ StampedBy(H, frames) /\ StampedBy(H, late)
    BY <1>2, <2>2, <2>3, StampsKept
  <2>5. StampedBy(H, Append(frames, beat)) BY <1>2, <1>4, <2>4, SendGiven
  <2>. QED BY <1>6, <2>4, <2>5
<1>11. NothingIsLost'
  <2>. SUFFICES ASSUME (OnLiveLink /\ ~relaunched)' PROVE Agrees' BY DEF NothingIsLost
  <2>1. c.registered /\ ~relaunched BY <1>1 DEF OnLiveLink
  <2>2. HasSession(c.buffer) => ReadAll(HubView, frames).marks = NoMarks
    <3>1. HasSession(c.buffer) => Unheard(core, Queue) BY <1>5, <2>1 DEF Unheard
    <3>. QED BY <2>1, <3>1, NoMarksYet
  <2>3. HubView \in View BY <1>2, HubViewType
  <2>4. ReadAll(HubView, Append(frames, beat) \o c.buffer).shown = c.known_runs
    BY <1>2, <1>3, <2>2, <2>3, HeartbeatRestores DEF beat
  <2>5. HubView' = HubView BY DEF HubView
  <2>. QED BY <1>1, <1>6, <2>1, <2>4, <2>5 DEF Agrees, ViewAfter
<1>. QED BY <1>1, <1>7, <1>8, <1>9, <1>10, <1>11 DEF LinkIInv

LEMMA RegisterInv ==
  ASSUME LinkIInv, Register
  PROVE  LinkIInv'
<1>1. /\ pc = "register"
      /\ \/ core.registered /\ SendFrame(heartbeat_message(core)) /\ disturbed' = FALSE
         \/ ~core.registered /\ UNCHANGED <<frames, disturbed>>
      /\ FlushFrom(IF stopping THEN apply_all(core, commands) ELSE core)
      /\ commands' = IF stopping THEN <<>> ELSE commands
      /\ UNCHANGED <<stopping, link, late, shown, marks, relaunched, clock, moves>>
  BY DEF Register, Registered, env
<1>2. stopping => commands = <<>> BY DEF LinkIInv, DriverInv
<1>3. FlushFrom(core) /\ commands' = commands
  <2>1. CASE stopping
    <3>1. commands = <<>> BY <1>2, <2>1
    <3>2. apply_all(core, <<>>) = core BY PumpNone
    <3>3. apply_all(core, commands) = core BY <3>1, <3>2
    <3>. QED BY <1>1, <2>1, <3>1, <3>3
  <2>2. CASE ~stopping BY <1>1, <2>2
  <2>. QED BY <2>1, <2>2
<1>4. CoreOK(core) BY <1>1, CoreReady
<1>5. /\ core.now <= core.now /\ core.now <= clock
      /\ \A n \in NativeIds : core.last_seq[n] <= core.last_seq[n]
  BY DEF LinkIInv, LinkTypeOK, ClockInv, Core
<1>. QED BY <1>1, <1>3, <1>4, <1>5, Beats

\* What a tick makes of the core before the heartbeat.
LEMMA TickOK ==
  ASSUME LinkIInv, pc = "serve", NEW c \in reap_timeouts(advance_to(core, clock))
  PROVE  /\ CoreOK(c) /\ c.now = clock /\ (c.registered <=> core.registered)
         /\ \A n \in NativeIds : core.last_seq[n] <= c.last_seq[n]
         /\ c.registered /\ HasSession(c.buffer) => HasSession(core.buffer)
<1>. DEFINE e == advance_to(core, clock)
<1>1. CoreOK(core) BY CoreReady
<1>2. clock \in Nat /\ core.now \in Nat /\ core.now <= clock
  BY LinkConstants DEF LinkIInv, LinkTypeOK, ClockInv, Core
<1>3. /\ CoreOK(e) /\ e.now = clock /\ e.registered = core.registered /\ e.buffer = core.buffer
      /\ e.last_seq = core.last_seq
  BY <1>1, <1>2, AdvanceOK
<1>. HIDE DEF e
<1>4. CoreOK(c) /\ Onward(e, c) /\ (c.registered <=> e.registered) BY <1>3, ReapOK DEF e
<1>. QED BY <1>3, <1>4 DEF Onward

LEMMA OnTickInv ==
  ASSUME LinkIInv, OnTick
  PROVE  LinkIInv'
<1>1. pc = "serve" /\ clock <= clock
      /\ UNCHANGED <<commands, stopping, link, late, shown, marks, relaunched, clock, moves>>
  BY LinkConstants DEF OnTick, env, LinkIInv, LinkTypeOK
<1>2. PICK c \in reap_timeouts(advance_to(core, clock)) :
        /\ \/ c.registered /\ SendFrame(heartbeat_message(c)) /\ disturbed' = FALSE
           \/ ~c.registered /\ UNCHANGED <<frames, disturbed>>
        /\ FlushFrom(c)
  BY DEF OnTick
<1>3. /\ CoreOK(c) /\ c.now = clock /\ (c.registered <=> core.registered)
      /\ \A n \in NativeIds : core.last_seq[n] <= c.last_seq[n]
      /\ c.registered /\ HasSession(c.buffer) => HasSession(core.buffer)
  BY <1>1, TickOK
<1>4. core.now <= c.now /\ c.now <= clock BY <1>1, <1>3 DEF LinkIInv, ClockInv
<1>. QED BY <1>1, <1>2, <1>3, <1>4, Beats

LEMMA OnTickFailsInv ==
  ASSUME LinkIInv, OnTickFails
  PROVE  LinkIInv'
<1>1. /\ pc = "serve" /\ core.registered /\ pc' = "connect"
      /\ core' \in reap_timeouts(advance_to(core, clock))
      /\ UNCHANGED <<commands, batch, stopping, link, frames, late, shown, marks, disturbed,
                     relaunched, clock, moves>>
  BY DEF OnTickFails, net, hub, env
<1>2. /\ CoreOK(core') /\ core'.now = clock /\ (core'.registered <=> core.registered)
      /\ \A n \in NativeIds : core.last_seq[n] <= core'.last_seq[n]
      /\ core'.registered /\ HasSession(core'.buffer) => HasSession(core.buffer)
  BY <1>1, TickOK
<1>3. Queue = core.buffer /\ Queue' = core'.buffer BY <1>1 DEF Queue
<1>4. core' \in Core /\ Len(core'.buffer) <= Capacity BY <1>2 DEF CoreOK
<1>5. LinkTypeOK' BY <1>1, <1>4 DEF LinkIInv, LinkTypeOK
<1>6. DriverInv' BY <1>1, <1>2 DEF LinkIInv, DriverInv
<1>7. SentInv' BY <1>2, <1>3 DEF CoreOK, SentInv
<1>8. HubInv'
  <2>1. Unheard(core', Queue') => Unheard(core, Queue) BY <1>1, <1>2, <1>3 DEF Unheard
  <2>. QED BY <1>1, <1>2, <1>4, <2>1, HubUntold
<1>9. ClockInv'
  <2>1. clock \in Nat BY LinkConstants DEF LinkIInv, LinkTypeOK
  <2>2. clock <= clock + Lag BY <2>1, LagType
  <2>. QED BY <1>1, <1>2, <2>1, <2>2 DEF LinkIInv, ClockInv
<1>10. NothingIsLost' BY <1>1 DEF NothingIsLost, OnLiveLink
<1>. QED BY <1>5, <1>6, <1>7, <1>8, <1>9, <1>10 DEF LinkIInv

\* Reading a last frame.
LEMMA ReadLast ==
  ASSUME NEW w, NEW msgs \in Seq(ClientMessage), NEW msg \in ClientMessage
  PROVE  ReadAll(w, msgs \o <<msg>>) = Reads(ReadAll(w, msgs), msg)
<1>. DEFINE one == <<msg>>
<1>1. one \in Seq(ClientMessage) OBVIOUS
<1>2. ReadAll(ReadAll(w, msgs), one) = Reads(ReadAll(w, msgs), msg) BY ReadOne
<1>. HIDE DEF one
<1>3. ReadAll(w, msgs \o one) = ReadAll(ReadAll(w, msgs), one) BY <1>1, ReadConcat
<1>. QED BY <1>2, <1>3 DEF one

\* What is left of a queue of commands.
LEMMA TailCommands ==
  ASSUME NEW q \in Seq(ReporterCommand), q # <<>>
  PROVE  /\ Head(q) \in ReporterCommand /\ Head(q) = q[1] /\ 1 \in DOMAIN q
         /\ Tail(q) \in Seq(ReporterCommand)
         /\ \A i \in DOMAIN Tail(q) : i + 1 \in DOMAIN q /\ i + 1 # 1 /\ Tail(q)[i] = q[i + 1]
OBVIOUS

\* What a command told the core is what the Hub shows once it has read the delta.
LEMMA ToldArrives ==
  ASSUME NEW c \in Core, NEW e, Told(c, e), NEW w \in View, NEW msgs \in Seq(ClientMessage),
         c.registered => ReadAll(w, msgs).shown = c.known_runs,
         \A n \in NativeIds : LET mark == ReadAll(w, msgs).marks[n]
                              IN  mark = NoMark \/ (mark.epoch = 0 /\ mark.seq <= c.last_seq[n])
  PROVE  ReadAll(w, msgs \o e.buffer).shown = e.known_runs
<1>. DEFINE x == ReadAll(w, msgs)
<1>1. x \in View BY ReadType
<1>2. CASE c.registered /\ e.buffer = <<>> /\ e.known_runs = c.known_runs
  <2>1. msgs \o <<>> = msgs OBVIOUS
  <2>. QED BY <1>2, <2>1
<1>3. CASE ~c.registered /\ e.buffer = <<SessionUpsert(NoRuns)>> /\ e.known_runs = NoRuns
  <2>. DEFINE msg == SessionUpsert(NoRuns)
  <2>1. msg \in ClientMessage /\ msg.type = "session.upsert" /\ msg.runs = NoRuns
    BY CoreNoRuns DEF SessionUpsert, ClientMessage
  <2>. HIDE DEF msg, x
  <2>2. Reads(x, msg).shown = NoRuns BY <1>1, <2>1, ReadsSession
  <2>3. ReadAll(w, msgs \o <<msg>>) = Reads(x, msg) BY <2>1, ReadLast DEF x
  <2>. QED BY <1>3, <2>2, <2>3 DEF msg
<1>4. ASSUME NEW n \in NativeIds, NEW state \in States, c.registered,
             e.buffer = <<RunUpsert(n, state, NextStamp(c, n))>>,
             e.known_runs = [c.known_runs EXCEPT ![n] = state]
      PROVE  ReadAll(w, msgs \o e.buffer).shown = e.known_runs
  <2>. DEFINE msg == RunUpsert(n, state, NextStamp(c, n))
              at  == NextStamp(c, n)
  <2>1. c.last_seq[n] \in Nat BY DEF Core
  <2>2. at \in Stamp /\ at.epoch = 0 /\ at.seq = c.last_seq[n] + 1 BY <2>1 DEF NextStamp, Stamp
  <2>. HIDE DEF at
  <2>3. RunUpsert(n, state, at) \in ClientMessage BY <2>2 DEF RunUpsert, ClientMessage
  <2>4. /\ msg \in ClientMessage /\ msg.type = "run.upsert" /\ msg.id = n /\ msg.state = state
        /\ msg.stamp = at
    BY <2>3 DEF RunUpsert, at
  <2>. HIDE DEF msg
  <2>5. x.marks[n] = NoMark \/ (x.marks[n].epoch = 0 /\ x.marks[n].seq <= c.last_seq[n])
    OBVIOUS
  <2>6. x.shown = c.known_runs BY <1>4
  <2>. HIDE DEF x
  <2>7. x.marks[n] \in Stamp \cup {NoMark} BY <1>1 DEF View, Marks
  <2>8. Fresh(x.marks[n], at)
    <3>1. CASE x.marks[n] = NoMark BY <3>1 DEF Fresh
    <3>2. CASE x.marks[n] # NoMark
      <4>1. x.marks[n].seq \in Nat /\ x.marks[n].epoch = 0 /\ x.marks[n].seq <= c.last_seq[n]
        BY <2>5, <2>7, <3>2 DEF Stamp
      <4>2. at.epoch = x.marks[n].epoch /\ at.seq > x.marks[n].seq BY <2>1, <2>2, <4>1
      <4>. QED BY <4>2 DEF Fresh, After
    <3>. QED BY <3>1, <3>2
  <2>9. x.shown # NoSession BY <2>6, LinkConstants DEF Core
  <2>10. Reads(x, msg).shown = [x.shown EXCEPT ![n] = state]
    BY <1>1, <2>4, <2>8, <2>9, ReadsRun
  <2>11. ReadAll(w, msgs \o <<msg>>) = Reads(x, msg) BY <2>4, ReadLast DEF x
  <2>. QED BY <1>4, <2>6, <2>10, <2>11 DEF msg
<1>. QED BY <1>2, <1>3, <1>4 DEF Told

LEMMA ServeInv ==
  ASSUME LinkIInv, Serve
  PROVE  LinkIInv'
<1>. DEFINE sent == Head(commands)
            e == apply(core, sent)
<1>1. /\ pc = "serve" /\ commands # <<>> /\ commands' = Tail(commands)
      /\ UNCHANGED <<stopping, link, frames, late, shown, marks, disturbed, relaunched, clock, moves>>
  BY DEF Serve, net, hub, env
<1>2. \/ sent.op = "stop" /\ pc' = "done" /\ core' = core /\ batch' = batch
      \/ sent.op # "stop" /\ FlushFrom(e)
  BY DEF Serve
<1>. HIDE DEF e
<1>3. /\ LinkTypeOK /\ DriverInv /\ SentInv /\ HubInv /\ ClockInv /\ NothingIsLost
      /\ commands \in Seq(ReporterCommand) /\ frames \in Seq(ClientMessage) /\ core \in Core
      /\ core.buffer = <<>> /\ batch = <<>> /\ ~stopping
  BY <1>1 DEF LinkIInv, LinkTypeOK, DriverInv
<1>4. /\ sent \in ReporterCommand /\ sent = commands[1] /\ 1 \in DOMAIN commands
      /\ commands' \in Seq(ReporterCommand)
      /\ \A i \in DOMAIN commands' :
           i + 1 \in DOMAIN commands /\ i + 1 # 1 /\ commands'[i] = commands[i + 1]
  BY <1>1, <1>3, TailCommands
<1>. HIDE DEF sent
<1>5. sent.op = "session" <=> ~core.registered BY <1>3, <1>4 DEF DriverInv
<1>6. \A i \in DOMAIN commands' : commands'[i].op # "session" /\ commands'[i].at <= clock
  BY <1>3, <1>4 DEF DriverInv, ClockInv
<1>7. CoreOK(core) /\ Queue = core.buffer BY <1>1, CoreReady
<1>8. CASE sent.op = "stop" /\ pc' = "done" /\ core' = core /\ batch' = batch
  <2>1. Queue' = Queue BY <1>1, <1>8 DEF Queue
  <2>2. SentInv' /\ Given(core, Queue)' = Given(core, Queue) BY <1>8, <2>1, SentKept
  <2>3. LinkTypeOK' BY <1>1, <1>3, <1>4, <1>8 DEF LinkTypeOK
  <2>4. DriverInv'
    <3>1. core.registered BY <1>5, <1>8
    <3>. QED BY <1>1, <1>3, <1>6, <1>8, <3>1 DEF DriverInv
  <2>5. HubInv' BY <1>1, <1>3, <2>2 DEF HubInv
  <2>6. ClockInv' BY <1>1, <1>3, <1>6, <1>8 DEF ClockInv
  <2>7. NothingIsLost'
    BY <1>1, <1>3, <1>8 DEF NothingIsLost, OnLiveLink, Agrees, ViewAfter, HubView
  <2>. QED BY <2>2, <2>3, <2>4, <2>5, <2>6, <2>7 DEF LinkIInv
<1>9. CASE sent.op # "stop" /\ FlushFrom(e)
  <2>1. sent.at <= core.now + Lag
    <3>1. sent.at \in Nat /\ sent.at <= clock /\ clock <= core.now + Lag
      BY <1>3, <1>4, CommandType DEF ClockInv
    <3>2. clock \in Nat /\ core.now \in Nat BY <1>3, LinkConstants DEF LinkTypeOK, Core
    <3>. QED BY <3>1, <3>2, LagType
  <2>2. CoreOK(e) /\ Onward(core, e) /\ e.registered /\ Told(core, e)
    BY <1>3, <1>4, <1>5, <1>7, <2>1, ApplyOK DEF e
  <2>3. /\ core' \in Core /\ core'.buffer = <<>> /\ Len(core'.buffer) <= Capacity
        /\ core'.registered = e.registered /\ core'.known_runs = e.known_runs
        /\ core'.last_seq = e.last_seq /\ core'.now = e.now
        /\ batch' = e.buffer /\ batch' \in Seq(ClientMessage) /\ Queue' = e.buffer
        /\ pc' \in {"flush", "serve", "done"} /\ (pc' = "flush" <=> batch' # <<>>)
        /\ SentInv'
    BY <1>9, <2>2, Drains
  <2>4. LinkTypeOK' BY <1>1, <1>3, <1>4, <2>3 DEF LinkTypeOK
  <2>5. DriverInv' BY <1>1, <1>3, <1>6, <2>2, <2>3 DEF DriverInv
  <2>6. HubInv'
    <3>1. Unheard(core', Queue') => Unheard(core, Queue)
      BY <1>7, <2>2, <2>3 DEF Unheard, Onward
    <3>2. \A n \in NativeIds : core.last_seq[n] <= core'.last_seq[n] BY <2>2, <2>3 DEF Onward
    <3>. QED BY <1>1, <2>3, <3>1, <3>2, HubUntold
  <2>7. ClockInv' BY <1>1, <1>3, <1>6, <2>2, <2>3 DEF ClockInv, Onward
  <2>8. NothingIsLost'
    <3>. SUFFICES ASSUME (OnLiveLink /\ ~relaunched)' PROVE Agrees' BY DEF NothingIsLost
    <3>1. ~relaunched /\ link = "up" /\ ~disturbed /\ late = <<>> BY <1>1 DEF OnLiveLink
    <3>. DEFINE x == ReadAll(HubView, frames)
                G == Given(core, Queue)
    <3>2. HubView \in View /\ HubView.marks = marks BY <1>3, HubViewType
    <3>3. core.registered => x.shown = core.known_runs
      <4>1. frames \o batch = frames BY <1>3
      <4>. QED BY <1>1, <1>3, <3>1, <4>1 DEF NothingIsLost, OnLiveLink, Agrees, ViewAfter
    <3>4. MarkedBy(G, x.marks)
      <4>1. MarkedBy(G, marks) /\ StampedBy(G, frames) BY <1>3, <3>1 DEF HubInv
      <4>. HIDE DEF G
      <4>. QED BY <1>3, <3>2, <4>1, ReadMarks
    <3>. HIDE DEF x
    <3>5. \A n \in NativeIds :
            x.marks[n] = NoMark \/ (x.marks[n].epoch = 0 /\ x.marks[n].seq <= core.last_seq[n])
      BY <3>4 DEF MarkedBy, Given
    <3>6. ReadAll(HubView, frames \o e.buffer).shown = e.known_runs
      BY <1>3, <2>2, <3>2, <3>3, <3>5, ToldArrives DEF x
    <3>7. HubView' = HubView BY <1>1 DEF HubView
    <3>. QED BY <1>1, <2>3, <3>6, <3>7 DEF Agrees, ViewAfter
  <2>. QED BY <2>3, <2>4, <2>5, <2>6, <2>7, <2>8 DEF LinkIInv
<1>. QED BY <1>2, <1>8, <1>9

\* The Hub reads a frame that carries a stamp that was given.
LEMMA Handled ==
  ASSUME LinkTypeOK, NEW msg \in ClientMessage, handle(msg)
  PROVE  /\ HubView' = Reads(HubView, msg) /\ HubView' \in View
         /\ shown' \in Runs \cup {NoSession} /\ marks' \in Marks
         /\ \A G : /\ MarkedBy(G, marks)
                   /\ msg.type = "run.upsert" => msg.stamp \in G[msg.id]
                   => MarkedBy(G, marks')
<1>1. HubView \in View /\ HubView.shown = shown /\ HubView.marks = marks BY HubViewType
<1>2. HubView' = [shown |-> shown', marks |-> marks'] BY DEF HubView
<1>3. HubView' = Reads(HubView, msg)
  BY <1>1, <1>2 DEF handle, Reads, HubView
<1>4. HubView' \in View BY <1>1, <1>3, ReadsType
<1>5. shown' = HubView'.shown /\ marks' = HubView'.marks BY <1>2
<1>6. ASSUME NEW G, MarkedBy(G, marks), msg.type = "run.upsert" => msg.stamp \in G[msg.id]
      PROVE  MarkedBy(G, marks')
  <2>1. MarkedBy(G, Reads(HubView, msg).marks) BY <1>1, <1>6, ReadsMarks
  <2>. QED BY <1>3, <1>5, <2>1
<1>. QED BY <1>3, <1>4, <1>5, <1>6 DEF View

\* What a queue carries, its head and its tail carry.
LEMMA StampedParts ==
  ASSUME NEW G, NEW q \in Seq(ClientMessage), q # <<>>, StampedBy(G, q)
  PROVE  /\ Head(q) \in ClientMessage /\ Tail(q) \in Seq(ClientMessage)
         /\ Head(q).type = "run.upsert" => Head(q).stamp \in G[Head(q).id]
         /\ StampedBy(G, Tail(q))
<1>1. Head(q) = q[1] /\ 1 \in DOMAIN q /\ Head(q) \in ClientMessage OBVIOUS
<1>2. /\ Tail(q) \in Seq(ClientMessage)
      /\ \A i \in DOMAIN Tail(q) : i + 1 \in DOMAIN q /\ Tail(q)[i] = q[i + 1]
  OBVIOUS
<1>. QED BY <1>1, <1>2 DEF StampedBy

LEMMA DeliverInv ==
  ASSUME LinkIInv, Deliver
  PROVE  LinkIInv'
<1>. DEFINE msg == Head(frames)
            rest == Tail(frames)
<1>1. /\ frames # <<>> /\ handle(msg) /\ frames' = rest
      /\ UNCHANGED <<core, commands, pc, batch, stopping, link, late, disturbed, relaunched,
                     clock, moves>>
  BY DEF Deliver, driver, env
<1>2. LinkTypeOK /\ frames \in Seq(ClientMessage) /\ batch \in Seq(ClientMessage)
      /\ Len(frames) <= SocketRoom
  BY DEF LinkIInv, LinkTypeOK
<1>3. msg \in ClientMessage /\ rest \in Seq(ClientMessage) /\ Len(rest) <= SocketRoom
  BY <1>1, <1>2, LinkConstants
<1>4. Queue' = Queue BY <1>1 DEF Queue
<1>5. /\ HubView' = Reads(HubView, msg) /\ HubView' \in View
      /\ shown' \in Runs \cup {NoSession} /\ marks' \in Marks
  BY <1>1, <1>2, <1>3, Handled
<1>6. LinkTypeOK' BY <1>1, <1>2, <1>3, <1>5 DEF LinkTypeOK
<1>7. DriverInv' BY <1>1 DEF LinkIInv, DriverInv
<1>8. SentInv' /\ Given(core, Queue)' = Given(core, Queue) BY <1>1, <1>4, SentKept
<1>9. HubInv'
  <2>. SUFFICES ASSUME ~relaunched'
                PROVE  (/\ MarkedBy(Given(core, Queue), marks)
                        /\ StampedBy(Given(core, Queue), frames)
                        /\ StampedBy(Given(core, Queue), late))'
    BY DEF HubInv
  <2>. DEFINE G == Given(core, Queue)
  <2>1. MarkedBy(G, marks) /\ StampedBy(G, frames) /\ StampedBy(G, late) /\ G' = G
    BY <1>1, <1>8 DEF LinkIInv, HubInv
  <2>. HIDE DEF G
  <2>2. StampedBy(G, rest) /\ (msg.type = "run.upsert" => msg.stamp \in G[msg.id])
    BY <1>1, <1>2, <2>1, StampedParts
  <2>3. MarkedBy(G, marks') BY <1>1, <1>2, <1>3, <2>1, <2>2, Handled
  <2>4. (MarkedBy(G, marks) /\ StampedBy(G, frames) /\ StampedBy(G, late))'
    BY <1>1, <2>1, <2>2, <2>3 DEF MarkedBy, StampedBy
  <2>. QED BY <2>4 DEF G
<1>10. ClockInv' BY <1>1 DEF LinkIInv, ClockInv
<1>11. NothingIsLost'
  <2>. SUFFICES ASSUME (OnLiveLink /\ ~relaunched)' PROVE Agrees' BY DEF NothingIsLost
  <2>1. ReadAll(HubView, frames \o batch).shown = core.known_runs
    BY <1>1 DEF LinkIInv, NothingIsLost, OnLiveLink, Agrees, ViewAfter
  <2>. DEFINE q == frames \o batch
  <2>2. q \in Seq(ClientMessage) /\ q # <<>> /\ Head(q) = msg /\ Tail(q) = rest \o batch
    BY <1>1, <1>2
  <2>. HIDE DEF q
  <2>3. ReadAll(HubView, q) = ReadAll(Reads(HubView, msg), rest \o batch) BY <2>2, ReadHead
  <2>4. ReadAll(HubView', rest \o batch).shown = core.known_runs BY <1>5, <2>1, <2>3 DEF q
  <2>. QED BY <1>1, <2>4 DEF Agrees, ViewAfter
<1>. QED BY <1>6, <1>7, <1>8, <1>9, <1>10, <1>11 DEF LinkIInv

LEMMA DeliverLateInv ==
  ASSUME LinkIInv, DeliverLate
  PROVE  LinkIInv'
<1>. DEFINE msg == Head(late)
            rest == Tail(late)
<1>1. /\ late # <<>> /\ handle(msg) /\ late' = rest /\ disturbed' = TRUE
      /\ UNCHANGED <<core, commands, pc, batch, stopping, link, frames, relaunched, clock, moves>>
  BY DEF DeliverLate, driver, env
<1>2. LinkTypeOK /\ late \in Seq(ClientMessage) BY DEF LinkIInv, LinkTypeOK
<1>3. msg \in ClientMessage /\ rest \in Seq(ClientMessage) BY <1>1, <1>2
<1>4. Queue' = Queue BY <1>1 DEF Queue
<1>5. shown' \in Runs \cup {NoSession} /\ marks' \in Marks BY <1>1, <1>2, <1>3, Handled
<1>6. LinkTypeOK' BY <1>1, <1>2, <1>3, <1>5 DEF LinkTypeOK
<1>7. DriverInv' BY <1>1 DEF LinkIInv, DriverInv
<1>8. SentInv' /\ Given(core, Queue)' = Given(core, Queue) BY <1>1, <1>4, SentKept
<1>9. HubInv'
  <2>. SUFFICES ASSUME ~relaunched'
                PROVE  (/\ MarkedBy(Given(core, Queue), marks)
                        /\ StampedBy(Given(core, Queue), frames)
                        /\ StampedBy(Given(core, Queue), late))'
    BY DEF HubInv
  <2>. DEFINE G == Given(core, Queue)
  <2>1. MarkedBy(G, marks) /\ StampedBy(G, frames) /\ StampedBy(G, late) /\ G' = G
    BY <1>1, <1>8 DEF LinkIInv, HubInv
  <2>. HIDE DEF G
  <2>2. StampedBy(G, rest) /\ (msg.type = "run.upsert" => msg.stamp \in G[msg.id])
    BY <1>1, <1>2, <2>1, StampedParts
  <2>3. MarkedBy(G, marks') BY <1>1, <1>2, <1>3, <2>1, <2>2, Handled
  <2>4. (MarkedBy(G, marks) /\ StampedBy(G, frames) /\ StampedBy(G, late))'
    BY <1>1, <2>1, <2>2, <2>3 DEF MarkedBy, StampedBy
  <2>. QED BY <2>4 DEF G
<1>10. ClockInv' BY <1>1 DEF LinkIInv, ClockInv
<1>11. NothingIsLost' BY <1>1 DEF NothingIsLost, OnLiveLink
<1>. QED BY <1>6, <1>7, <1>8, <1>9, <1>10, <1>11 DEF LinkIInv

LEMMA ObserveInv ==
  ASSUME LinkIInv, Observe
  PROVE  LinkIInv'
<1>1. /\ ~stopping /\ moves < MaxMoves /\ moves' = moves + 1
      /\ UNCHANGED <<core, pc, batch, stopping, link, frames, late, shown, marks, disturbed,
                     relaunched, clock>>
  BY DEF Observe, Move, net, hub
<1>2. clock \in Nat /\ moves \in Nat /\ MaxMoves \in Nat /\ commands \in Seq(ReporterCommand)
      /\ DriverInv /\ ClockInv /\ LinkTypeOK
  BY LinkConstants DEF LinkIInv, LinkTypeOK
<1>3. PICK sent \in ReporterCommand :
        commands' = Append(commands, sent) /\ sent.op # "session" /\ sent.at = clock
  BY <1>2 DEF Observe, ReporterCommand
<1>4. commands' \in Seq(ReporterCommand)
      /\ \A i \in DOMAIN commands' :
           \/ i \in DOMAIN commands /\ commands'[i] = commands[i]
           \/ commands'[i] = sent
      /\ commands # <<>> => commands' # <<>> /\ commands'[1] = commands[1]
  BY <1>2, <1>3
<1>5. Queue' = Queue BY <1>1 DEF Queue
<1>6. LinkTypeOK'
  <2>1. moves' \in 0 .. MaxMoves BY <1>1, <1>2 DEF LinkTypeOK
  <2>. QED BY <1>1, <1>2, <1>4, <2>1 DEF LinkTypeOK
<1>7. DriverInv' BY <1>1, <1>2, <1>3, <1>4 DEF DriverInv
<1>8. HubInv' BY <1>1, <1>5, SentKept DEF LinkIInv, HubInv
<1>9. ClockInv' BY <1>1, <1>2, <1>3, <1>4 DEF ClockInv
<1>10. NothingIsLost'
  BY <1>1 DEF LinkIInv, NothingIsLost, OnLiveLink, Agrees, ViewAfter, HubView
<1>. QED BY <1>1, <1>5, <1>6, <1>7, <1>8, <1>9, <1>10, SentKept DEF LinkIInv

LEMMA PassInv ==
  ASSUME LinkIInv, Pass
  PROVE  LinkIInv'
<1>1. /\ clock < MaxTime /\ clock' = clock + 1
      /\ clock - core.now < Interval \/ clock - core.now < MaxGap
      /\ UNCHANGED <<core, commands, pc, batch, stopping, link, frames, late, shown, marks,
                     disturbed, relaunched, moves>>
  BY DEF Pass, driver, net, hub
<1>2. /\ LinkTypeOK /\ ClockInv /\ clock \in Nat /\ core.now \in Nat
      /\ Interval \in Nat /\ MaxGap \in Nat /\ MaxTime \in Nat /\ commands \in Seq(ReporterCommand)
  BY LinkConstants DEF LinkIInv, LinkTypeOK, Core
<1>3. Queue' = Queue BY <1>1 DEF Queue
<1>4. LinkTypeOK'
  <2>1. clock' \in 0 .. MaxTime BY <1>1, <1>2
  <2>. QED BY <1>1, <1>2, <2>1 DEF LinkTypeOK
<1>5. DriverInv' BY <1>1 DEF LinkIInv, DriverInv
<1>6. HubInv' BY <1>1, <1>3, SentKept DEF LinkIInv, HubInv
<1>7. ClockInv'
  <2>1. clock + 1 <= core.now + Lag BY <1>1, <1>2 DEF Lag
  <2>2. core.now <= clock + 1 BY <1>2 DEF ClockInv
  <2>3. \A i \in DOMAIN commands : commands[i].at <= clock + 1
    <3>. TAKE i \in DOMAIN commands
    <3>1. commands[i] \in ReporterCommand BY <1>2
    <3>2. commands[i].at \in Nat /\ commands[i].at <= clock BY <1>2, <3>1, CommandType DEF ClockInv
    <3>. QED BY <1>2, <3>2
  <2>. QED BY <1>1, <2>1, <2>2, <2>3 DEF ClockInv
<1>8. NothingIsLost'
  BY <1>1 DEF LinkIInv, NothingIsLost, OnLiveLink, Agrees, ViewAfter, HubView
<1>. QED BY <1>1, <1>3, <1>4, <1>5, <1>6, <1>7, <1>8, SentKept DEF LinkIInv

LEMMA LinkStutterInv ==
  ASSUME LinkIInv, UNCHANGED link_vars
  PROVE  LinkIInv'
<1>1. UNCHANGED <<core, commands, pc, batch, stopping, link, frames, late, shown, marks, disturbed,
                  relaunched, clock, moves>>
  BY DEF link_vars, driver, net, hub, env
<1>2. Queue' = Queue BY <1>1 DEF Queue
<1>3. LinkTypeOK' BY <1>1 DEF LinkIInv, LinkTypeOK
<1>4. DriverInv' BY <1>1 DEF LinkIInv, DriverInv
<1>5. HubInv' BY <1>1, <1>2, SentKept DEF LinkIInv, HubInv
<1>6. ClockInv' BY <1>1 DEF LinkIInv, ClockInv
<1>7. NothingIsLost'
  BY <1>1 DEF LinkIInv, NothingIsLost, OnLiveLink, Agrees, ViewAfter, HubView
<1>. QED BY <1>1, <1>2, <1>3, <1>4, <1>5, <1>6, <1>7, SentKept DEF LinkIInv

LEMMA LinkStepInv ==
  ASSUME LinkIInv, [LinkNext]_link_vars
  PROVE  LinkIInv'
BY ConnectFailsInv, ConnectSucceedsInv, RegisterInv, RegisterFailsInv, FlushInv, FlushFailsInv,
   ServeInv, OnTickInv, OnTickFailsInv, DeliverInv, DeliverLateInv, ObserveInv, BreakInv,
   HubRestartInv, CrashInv, DismissInv, DismissSessionInv, PassInv, LinkStutterInv
   DEF LinkNext

LEMMA LinkAlwaysHolds == LinkSpec => []LinkIInv
BY LinkInitInv, LinkStepInv, PTL DEF LinkSpec

\* The link's invariant: types and bounds, every report on its way or at the
\* Hub, and no reporter that stops with a delta in hand.
THEOREM LinkAlwaysDelivers == LinkSpec => []LinkInv
<1>1. LinkIInv => LinkInv
  <2>. SUFFICES ASSUME LinkIInv PROVE LinkInv OBVIOUS
  <2>1. StopsWhenDelivered BY DEF LinkIInv, DriverInv, StopsWhenDelivered
  <2>. QED BY <2>1 DEF LinkIInv, LinkInv
<1>. QED BY <1>1, LinkAlwaysHolds, PTL

\* No step sets the core's clock ahead of time.
LEMMA TicksInTime ==
  ASSUME LinkIInv, LinkIInv', LinkNext
  PROVE  core' = core \/ core'.now <= clock
<1>1. core'.now <= clock' /\ clock \in Nat BY LinkConstants DEF LinkIInv, LinkTypeOK, ClockInv
<1>2. CASE Crash BY <1>1, <1>2, NewCoreType DEF Crash
<1>3. CASE Pass BY <1>3 DEF Pass, driver
<1>4. CASE ~Crash /\ ~Pass
  <2>1. clock' = clock
    BY <1>4 DEF LinkNext, ConnectFails, ConnectSucceeds, Register, RegisterFails, Flush, FlushFails,
                Serve, OnTick, OnTickFails, Deliver, DeliverLate, Observe, Break, HubRestart,
                Dismiss, DismissSession, env
  <2>. QED BY <1>1, <2>1
<1>. QED BY <1>2, <1>3, <1>4

\* No run times out whose agent has lately sent a sign of life.
THEOREM OnlyTheSilentDie == LinkSpec => OnlySilenceKills
<1>. DEFINE Kills == \A n \in NativeIds :
              timed_out(core.liveness[n], core'.now) =>
                clock - core.liveness[n].sign > Timeout - Lag
<1>1. ASSUME LinkIInv, LinkIInv', [LinkNext]_link_vars
      PROVE  Kills \/ core' = core
  <2>. SUFFICES ASSUME core' # core, NEW n \in NativeIds, timed_out(core.liveness[n], core'.now)
                PROVE  clock - core.liveness[n].sign > Timeout - Lag
    OBVIOUS
  <2>. DEFINE t == core.liveness[n]
  <2>1. LinkNext BY <1>1 DEF link_vars, driver
  <2>2. core'.now <= clock BY <1>1, <2>1, TicksInTime
  <2>3. /\ core \in Core /\ core' \in Core /\ clock \in Nat /\ InTime(core.liveness)
        /\ Timeout \in Nat
    BY <1>1, LinkConstants, CoreConstants DEF LinkIInv, LinkTypeOK, SentInv
  <2>4. t # NoTracker /\ core'.now - t.last_seen > Timeout BY DEF timed_out
  <2>5. t \in Tracker BY <2>3, <2>4 DEF Core
  <2>6. t.sign <= t.last_seen + Lag BY <2>3, <2>4 DEF InTime
  <2>7. t.sign \in Nat /\ t.last_seen \in Nat /\ core'.now \in Nat
    BY <2>3, <2>5 DEF Tracker, Core
  <2>. HIDE DEF t
  <2>8. clock - t.sign > Timeout - Lag BY <2>2, <2>3, <2>4, <2>6, <2>7, LagType
  <2>. QED BY <2>8 DEF t
<1>2. OnlySilenceKills <=> [][Kills]_core BY DEF OnlySilenceKills
<1>3. LinkIInv /\ LinkIInv' /\ [LinkNext]_link_vars => [Kills]_core BY <1>1
<1>. HIDE DEF Kills
<1>. QED BY <1>2, <1>3, LinkAlwaysHolds, PTL DEF LinkSpec
=============================================================================
