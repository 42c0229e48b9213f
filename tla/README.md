# Fleet: verification project

Fleet shows the state of coding agents over many editor windows. Hooks of the agents feed a
**reporter** in each window; reporters send deltas to one **Hub**; the Hub merges them, keeps
them in an event log, and streams them to **faces** (the desktop host, the CLI). The host also
starts editor servers, learns of others from the windows that phone home, and lists and shows
them in its **rail**. This directory holds TLA+ models of those parts, the TLC runs that check
them on small instances, and proofs that the TLA+ proof system checks for every instance.

Paths below are relative to the repository; `hub/` is `crates/fleet-hub/src/`, `reporter/` is
`crates/fleet-reporter/src/`, `host/` is `crates/fleet-host/src/`, `host-core/` is
`crates/fleet-host-core/src/`, `cli/` is `crates/fleet-cli/src/`, `ui/` is
`crates/fleet-host/ui/`. `PROJECT.json` maps every definition to the lines it models and lists
the hazards, each with the properties that would catch it.

## 1. Inventory

| Component | State it keeps | Operations | Talks to |
|---|---|---|---|
| Merge engine (`hub/merge.rs`, protocol `rollup.rs`) | sessions, their order, runs, rollups, mute / solo / unread flags | session and run upsert and removal, mute, unmute, solo, focus | called by the store |
| Reclaim table (`hub/reclaim.rs`) | one (epoch, seq) mark per durable id | classify, commit, admit, drop | called by the store |
| Durable store (`hub/persist.rs`) | SQLite event log, engine, marks, session-to-durable index | the same mutations behind the log, the gate, GC, replay | called by the server under a lock |
| Hub server (`hub/server.rs`, `lib.rs`, `wire.rs`) | store lock, published snapshot, broadcast channel, connections | commit, publish, subscribe, forward, GC loop | reporters and faces over WebSocket |
| Single instances (`hub/lockfile.rs`, `run` of `hub/lib.rs`, `bind_reclaiming` of `reporter/serve.rs`) | a pid in a file, a port, socket files | acquire, reclaim, bind, release | other processes |
| Reporter core and driver (`reporter/reporter.rs`, `buffer.rs`, `identity.rs`, `liveness.rs`, `transport.rs`) | known runs, delta buffer, identity ledger, liveness trackers, logical clock | commands, connect, register, flush, heartbeat, reap | adapters by a channel, Hub by a link |
| Agent state machines and hook server (`reporter/claude.rs`, `claude_infer.rs`, `codex.rs`, `machine.rs`, `serve.rs`) | a machine per native id, armed timers, a receiver behind a mutex | one transition per hook, a tick | agents' hooks; the driver |
| Host core (`host-core/`: view, notify, mute, sort) | the inbox model of one face | reduce, project, suppress, fire, order | hub client |
| Hub client and rail (`host/hub_client.rs`, `attention.rs`, `render.rs`, `ui/main.js`) | inbox model, notifications, window indicators, the rail's optimistic copy | connect, receive, notify, click, answer | Hub, rail |
| Bridge registry (`host/bridge.rs`, `packages/fleet-bridge`) | registrations of editor windows by generation, launch token | register, heartbeat, drop, GC, rename | VS Code windows |
| Server supervisor (`host/spawn.rs`) | servers, their processes, containers | spawn, list, prune, rename, close | processes |
| Shell (`host/mux.rs`, `surface.rs`, `ui/main.js`) | selected server, editor surfaces; the rail's list, selection, deferred open | select, refresh, spawn, close, retry | supervisor, registry, rail |
| Installer (`cli/init.rs`) | settings files, backups, manifest | init, uninit | the user's files |
| `fleet ls` (`cli/connection.rs`, `render.rs`, `main.rs`) | a state of its own | connect, reduce, print | Hub |
| Palette, editor detection, protocol encodings, evaluation harness | none of interest | string and data handling | |

What is hard in each, and what makes it correct:

* **Engine and store.** A badge depends on every session's flags, so one session's solo or
  removal changes others. A flag change is projected first and then written as several rows;
  an append may fail, or the process may end, at each row. The inbox a restart restores must
  be the one faces were shown; at most one session is soloed; rollups follow the runs.
* **Reclaim gate.** Two epochs of deltas arrive repeated and out of order. A stale delta must
  never land, a lost one must not be taken for a repeat, and marks must go with their session.
* **Server.** Mutations, subscriptions, the GC and slow faces race. Snapshot plus broadcasts
  must be what the Hub has published, for each face, whenever it subscribes.
* **Single instances.** Create and write are two steps; two starters may reclaim one stale file;
  a process is killed between any two steps and its files stay.
* **Reporter.** The link breaks at any frame, the Hub or the reporter restarts, the buffer
  overflows, ticks stop during an outage. Nothing may be lost or reordered, only silence (or
  an exit) kills a run, and the Hub must end where the reporter is.
* **Hooks.** Two connections feed one receiver; commands are computed under its lock and sent
  after it. Two adapters watch one agent, and a transcript lags behind both.
* **Hub client and rail.** Hub, host and rail each hold the rules of pings and order; the rail
  changes its copy before the Hub answers, and answers and inbox events overtake each other.
* **Bridge.** A window reloads under a new generation while its old link still closes; links fall
  silent; the host restarts. Nobody must vanish from the list for a reconnect, nor stay for ever.
* **Supervisor and shell.** Processes die while they are listed, closed and pruned by several
  threads. List and selection are asked for in calls that others overtake.
* **Installer.** Two settings files, two backups and a manifest are written one after the other;
  any step may fail, and commands are repeated.

## 2. Modules

```
MergeEngine
   │  └── FaceModel ─┬── MergeEngineProofs ─────────────────┐
   │                 ├── HubServer ─┬── HubServerProofs  ◀──┤
   │                 │              └── MCHubServer         │
   │                 └── HostCore ── HostFace               │
   │                 Shell ───────────├── HostFaceProofs ◀──┤
   │                                  └── MCHostFace        │
ReclaimTable ── HubStore ─┬── HubStoreProofs  ◀─────────────┘
   │                      └── MCHubStore     (HubStore refines FleetInbox)
   └── ReporterCore ── ReporterLink ─┐
           HookReceiver, Installer ──┴── ReporterProofs

BridgeRegistry ── BridgeRegistryProofs, MCBridgeRegistry
Supervisor     ── SupervisorProofs
SingleInstance ── SingleInstanceProofs
```

### The Hub

**MergeEngine** is `merge.rs` as operators: an engine is a session map and the insertion order
of its keys, kept as a relation. Every method of the Rust type that changes state is an
operator of the same name; the badge rules are `update_unread_for_notify_transition` (one
session) and `reconcile_unread_from` (all). Titles, locations and messages are left out: no
operation reads them.

**ReclaimTable** is the (epoch, seq) gate of `reclaim.rs`, shared by the store and by the Hub's
end of `ReporterLink`.

**HubStore** is `persist.rs`. `logged` stands for the log: what a replay would restore, which
each appended row advances by the operation the replay would use. A mutation of one row is one
action. A flag command (`apply_flag_change`, `AppendFlagRow`, `FlagRowNotAppended`) and a GC
pass (`GcBegin`, `reap_dead`, `sweep_expired_sessions`, `GcEnd`) are jobs of several steps under
the store lock. `Restart` is the end of the process, between any two of those steps, and
`from_log`. The log is written through before a step ends, so what it holds is durable; SQLite
itself is trusted. A flag change whose later row fails, or that the process does not survive, leaves
its first rows in the log: `torn` are the sessions whose last row is of such a change (it goes with
their next row), `mixed` those that a restart has brought back from one (it goes when a flag change
of theirs is complete). Both are history and only say of whom a property does not hold.

**FleetInbox** is what the Hub promises about its inbox: a report changes one session and no
flag, a command changes flags only, a solo moves in one step, a removal takes one session, and
a durable inbox survives a restart, but for the flags of sessions whose command was cut short
(`loose`). `HubStore` implements it (`ImplementsInbox`) with the inbox as faces are shown it: during
a flag change, the engine before it.

**FaceModel** has the events of a mutation and the two reducers of faces: the host's
(`InboxModel_apply`) and that of `fleet ls` (`CliState_apply`). **HubServer** has the store
lock, commit and publish, GC passes that collect events and may fail half-way, per face the
subscription, the broadcast backlog with its capacity and lag, the socket, the receive loop and
the reconnect, and a `fleet ls` beside it on the same stream. The store in it is the engine;
what the log adds is HubStore's.

**SingleInstance** is the start of a Hub step by step (lockfile, store, port, socket file) and
of a hook receiver (bind, probe, remove, bind again), with processes that end or are killed
between any two. A pid is never used again in the model.

### The reporter

**ReporterCore** is the reporter's pure core as a record and operators. **ReporterLink** is the
driver loop (`pc` names where in `Reporter::run` it is), the frames of the current and of the
previous connection, and the Hub's view of the session with its marks. `OnTick` is `on_tick`,
`SendFrame` a send. The core's clock stands still between ticks and while the link is down: `Lag` is
how far it can be behind. `Observe` is what the adapters may send. History parts (`sign`,
`disturbed`, `relaunched`) are only read by properties.

**HookReceiver** is the hook server (`serve.rs`) with the adapters it drives: `machine.rs` as
`ensure` and `commands_for`, and of each adapter the state it goes to and the commands it gives
(`ClaudeApply` / `ClaudeCommands` for S15, `InferApply` / `InferCommands` for S16, `CodexApply` /
`CodexCommands`). `Process` is a connection's task from the line it read to the release of the
receiver's lock, `Tick` the timer's task up to there, with the transcripts it could read; `Send`
is one `handle.send` after it. There is no await between the lock and the last send, so a
*worker* is a thread of the runtime: it has commands left in `sending` while other workers take
the lock. A run is named by its agent's id: S15 and S16 count sessions in step, so they mint the
same run id (serve.rs:169 speaks of independent ones), and the last of the two to report wins.
Urgency, a pending approval and confidence go with the state `waiting`. `armed` is the age of
`armed_since`, capped at the window. Three variables are history: `holder` is the worker that has the
newest report of a run in hand, `overtaken` the runs of which the report sent last was an older one
than one sent before, `cutShort` the tools a machine watched when another line of the session made it
stop.

The agents are its environment. A Claude session asks for tools, at most `Parallel` at a time; a
tool that needs an approval is one that is not answered. It may end without a hook, as in the
native UI. The transcript lags behind by any number of records. Lines of a session that do not
parse are `drift`. A Codex thread sends any hook at any time.

### The host

**HostCore** has the pure parts of a face beyond the reducer: the view, ping suppression, the
notification transitions, the order of the rail, and the rail's own copies of those rules.
**HostFace** composes them with a Hub (the engine, whose mutations broadcast at once): `Connect`,
`FaceReceives` and `LinkSends` are the link task, `pinged` the notifications that fired and were
not resolved, `window` the title, the badge and the attention request, `rail` the webview with
its optimistic copy and the operations under way. Answers to the rail and inbox events are
separate queues. `RailCloses` is what `closeServer` does to that copy: the row of a session whose
server is closed goes, with no command to the Hub; `gone` (history) are the rows so removed since the
rail last took a whole inbox.

**BridgeRegistry** has the registry, the connection tasks with their grace, the liveness GC, the
token and, at the other end, the windows of `packages/fleet-bridge` with heartbeat, retry and
reload. Time is discrete and shared: `Tick` lets every counter run. A link may break with a
word, or fall silent for one or both ends. A task changes the registry under its lock and tells the
rail after it: `Becomes` counts one more change that the rail has not heard of (`rail.unheard`), and
`RailHears` is an event that arrives, in whatever order the tasks came to send it, upon which the
rail reads the list there is then.

**Supervisor** has the processes of each server beside what the supervisor records of them. A
spawn goes through its phases on a thread of its own; a look at the list prunes children first
and the list in a second step; `Stop` and `Start` are the end and the next run of the host,
which leave processes behind. A close takes a container out of the table and ignores what
`docker rm -f` says, so `CloseKill` may leave it running: `stuck` (history) are the ids of those.

**Shell** has the rail's script (each `await` splits a function; `Calling`, `Resume` and `Then` say
what goes on where), the shell's selection and surfaces behind it, and the servers that come and
go. The supervisor and the registry are in it as the one merged list it reads.

### The command line

**Installer** is `do_init` and `do_uninit` step by step over the two settings files. A file is
what the user has written plus the events that have Fleet's hook; a command may stop before each
of its steps; the user writes, strips and removes files between commands.

### Atomicity

One action is what runs under one lock or between two awaits. A send is one action per frame.
`pump_pending` and `apply` of commands are one action because nothing else reads the core. The
store's rows, the installer's files and the steps of a start are actions of their own because
the process may end between them. The supervisor's lists are separate mutexes, and each hold of
one is an action.

## 3. Runs

| Run | Instance | Shows |
|---|---|---|
| `store_flags` | 3 sessions, 1 run each, all commands, failing appends | badges follow the live pings exactly, through solos, unmutes, removals and rollbacks |
| `store_restart` | 2 sessions, failing appends, restarts between any two steps, two rows of one command among them | solo exclusive, replay restores the inbox, `HubStore` implements `FleetInbox`, each up to the sessions of a command cut short |
| `store_gc` | 1 session, 2 runs on one durable id, 2 epochs of 2 deltas, clock 0..2 | no stale delta lands, marks go with sessions, dead runs are reaped |
| `server_stream` | 2 sessions, 1 face and `fleet ls`, backlog 2, socket 1, 2 mutations, from an empty or a soloed inbox, broken links, failing GC passes | the stream is snapshot plus broadcasts, events add up to the store, both reducers agree with it, faces catch up, what a failed pass did is published in the end |
| `link_report` | 1 run, buffer 2, 3 commands or faults of any kind, clock 0..3 | nothing is lost on a live link, the Hub converges, stops wait for the backlog, silence and only silence kills |
| `hook_agents` | 1 Claude session with 2 tools at once, 1 Codex thread, 3 hooks of which 2 may be under way, window 1, two workers | the Claude adapters agree, a wait is reported wrongly only by a late send, timer and transcript never overrule the hooks, a blocked tool is reported unless its watch is cut short |
| `host_face` | 2 sessions, one mutation, one click, one closed server and one broken link in any order, on an empty or a soloed Hub | notifications, window and rail follow the inbox; Hub, host and rail agree on what pings; optimism is what the Hub then does; the rail settles, up to the rows of closed servers |
| `bridge` | 2 windows of one server; retry 1 to 2, ping 2, grace 2, timeout 3; 2 opens, breaks and host starts, 1 edit; events to the rail in any order | reconnects do not show, the GC takes only what is silent, gone servers go, open windows are listed |
| `supervisor` | local and container servers, 2 threads that look, 2 host runs of 2 spawns | closed is gone unless docker failed, prunes take the dead only, only failures leak, dead servers leave the list |
| `shell` | 1 external and 1 spawnable server, 2 acts of the person, 1 change behind them | once quiet, the rail lists what there is, highlights what is shown and has opened what was asked for early |
| `single_instance` | 3 Hubs, 2 receivers, starts and kills at any step | a serving Hub keeps port and socket, starts in turn leave one of each, leftovers refuse nobody |
| `installer` | 2 events, 3 acts of the user, each command cut short anywhere | the settings from before Fleet stay at hand, an uninit puts them back |

**Why the bounds are enough.** Three sessions are the least with two that a third one's solo
silences. Two epochs of two seqs give every order of older, repeated, newer and next-epoch
deltas. Grace, ttl and timeout are 1 and clocks run to 2 or 3: before, at and past each
threshold. A reporter's buffer of 2 overflows with a registration and two deltas. A backlog of 2
is overrun by a second mutation while a face stalls with a frame in its socket; a Hub that
starts soloed lets one command of two change several sessions at once. One mutation, click, close and
break of `host_face` race in every order, and the soloed start gives a click something to change
in another session's row. Two windows of one server are one that keeps the server alive and one
that leaves; the first retry (1) ends within the grace (2) and the second (2) does not always,
and a ping (2) comes within the timeout (3). Two host runs give processes a former run left
behind. Two acts in the shell are an early selection and one that overtakes it. One id to spawn is
enough for a spawn, a close and a retry to race; the same instance with two ids, where the retry
succeeds, holds too. Three Hubs are
one that serves, or died, and two that race. `MaxCommits`, `MaxMoves`, `MaxTime`, `MaxGap`,
`MaxClicks`, `MaxCloses`, `MaxBreaks`, `MaxOpens`, `MaxStarts`, `MaxEdits`, `MaxLaunches`, `MaxSpawns`,
`MaxActs`, `MaxChanges`, `Lines` and `Room` bound what the environment does, the clock, and how long the driver
may be without a tick; `MaxGap` equal to `Interval` says outages are shorter than a heartbeat.

`hook_agents` has what the real reporter has: workers that send late, hooks of one agent on
connections of their own that overtake each other, and tools in parallel; the theorems of section 4
lift the bounds on each. Three hooks (`Lines`) are the least in which one tool's end, or a hook that
was overtaken, clears the watch of another tool and in which a second worker sends an older report
last. The receiver may be started beside agents already at work, so no hook is spent on a prompt.
Two tools give an older record in the transcript and a newer one that is armed. That hooks carry the
ids of their tools (`IdsCarried`) is an assumption; section 6 tells what fails without it.

What the code does not keep, a property names as an exception, by a history variable that is as
narrow as it can be: `torn` and `mixed` by session, `overtaken` by run, `cutShort` by tool, `gone` by
row, `stuck` by container. Each exception is a state of the run, not a behaviour left out of it, and
section 6 says of each where the code differs from its own words.

`CHECK_DEADLOCK FALSE` stands where the system may stop: bounded inputs are used up, the
reporter has stopped, every process has ended, or the clock is at its bound.

**Fairness, and why the code gives it.**
* Store: the GC timer fires for ever (`lib.rs`, `GC_INTERVAL`) and tokio's mutex is FIFO, so
  `GcBegin` is strongly fair; a job that holds the lock runs on (weak); no one removal's append
  fails for ever (strong, per run and per session).
* Server: tasks that can run get to run (weak, per face); not every pass fails (`Publish`
  strong); a face reconnects. Mutations and broken links are not fair.
* Reporter: `select!` picks at random among ready arms, so `Serve` and `OnTick` are strongly
  fair; the backoff loop connects in the end; the Hub reads its sockets. Faults and the clock
  are not fair.
* Hook receiver: the runtime polls every task that is ready and the receiver's mutex is FIFO, so
  some task processes a line and the timer's task ticks even if others take the lock between
  (strong); a worker sends what it has and time passes (weak). What agents do, the transcript
  among it, is not fair.
* Host face: what the program does by itself goes on (weak, `Works`): it connects, receives, answers
  and delivers. People, agents and broken links are not fair.
* Bridge: time passes, and with it retries, heartbeats and graces come due (weak, one condition,
  because none of them waits for another); the GC runs (weak); TCP notices a dead peer in the
  end (weak, per window). Windows, people and breaks are not fair.
* Supervisor: the list is only pruned by those who look at it, so `DeadServersGo` assumes that
  each thread does (weak), as the rail's refreshes do. Spawns and deaths are not fair.

`shell`, `single_instance` and `installer` check safety only; the shell's are about quiet
states, which need no fairness to be reached again and again.

Every property has a mutant in `PROJECT.json`: a plausible fault (a definition commented
"A faulty ...") under which TLC finds the property violated.

## 4. Proofs

The theorems hold for every instance: every set of sessions, runs, agents, tools, workers,
windows, threads or processes, every number of inputs, steps under way and host runs, every
window, delay and clock bound, and every choice of commands and faults unless the theorem says
otherwise. The assumptions of the modules (`AbsentIsNew`, `AbsentIsNoRow`, `NoMarkIsNew`,
`EntryIsNew`, `NoneIsNew`, `StoreConstants`, `ServerConstants`, `FaceConstants`,
`ReceiverConstants`, `CoreConstants`, `LinkConstants`, `BridgeConstants`, `SupervisorConstants`,
`InstanceConstants`, `InstallerConstants`, `ShellConstants`) say that the stand-ins for absence are no values and that
constants have their types. Four say more.

* `BridgeConstants`: the ping interval is no longer than the liveness timeout (20 s and 60 s in the
  code), and the first retry comes before the grace is over (1 s and 8 s).
* `CoreConstants`: a reporter has finitely many native ids, so that those of a tick that time out can
  be listed; the buffer has room for one delta (`buffer.rs:69`).
* `ServerConstants`: what the Hub starts from is what a log leaves: finitely many sessions, in order,
  with the rollups of their runs.
* `FaceConstants`: the same of the fleet a host finds; that its badges are true and no solo is muted,
  which every command sees to and a torn flag change or the replay of flag rows does not (section
  6); and that runs ask for an approval or an answer exactly while they wait, as the state
  mutators of `reporter/machine.rs` set the two together. Without the last the order of the rail,
  which goes by urgency, need not put what waits first.

| Theorem | States | Assumes |
|---|---|---|
| *HubStoreProofs* | | |
| `TypeCorrect` | `[]TypeOK` | |
| `RollupsAreTrue` | `[]RollupShowsRuns` | |
| `LogFollowsMemory` | `[]LogKeepsUp` | |
| `SoloExclusive` | `[]SoloIsExclusive` | |
| `MarksGoWithSessions` | `[]MarksFollowSessions` | |
| `MarksAreApplies` | `[]MarksRecordApplies` | no failed append |
| `StaleLandsNever` | `StaleNeverLands` | no restart; no two sessions share a durable id |
| `StoreImplementsInbox` | `ImplementsInbox` | |
| `BadgesAlwaysFollow` | `BadgesFollowPings` | no restart |
| *HubServerProofs* | | |
| `StreamAlwaysLeads` | `[]StreamLeadsToPublished` | |
| `ServerAlwaysSound` | `[]ServerInv` | |
| *HostFaceProofs* | | |
| `PingsAlwaysFollow` | `[]PingsFollowTheInbox` | |
| `WindowAlwaysTells` | `[]WindowTellsInbox` | |
| `RailAlwaysRight` | `[]RailInv` | |
| `OptimismAlwaysExact` | `OptimismIsExact` | |
| *HostFaceProofs* (shell) | | |
| `RailAlwaysLists` | `[]RailListsServers` | |
| `SelectionAlwaysAgrees` | `[]SelectionAgrees` | |
| `DeferredAlwaysOpen` | `[]DeferredOpens` | |
| *ReporterProofs* (link) | | |
| `LinkAlwaysDelivers` | `[]LinkInv` | |
| `OnlyTheSilentDie` | `OnlySilenceKills` | |
| *ReporterProofs* (receiver) | | |
| `MachinesCohere` | `[]TypeOK` | |
| `AdaptersAlwaysAgree` | `[]AdaptersAgree` | |
| `TimerRaisesOnly` | `[][TimerRaises]_vars` | |
| `TimerSound` | `TimerIsSound` | hooks carry the ids of their tools |
| `NeverStaleUnlessOvertaken` | `[]NoStaleWaiting` | |
| *BridgeRegistryProofs* | | |
| `TypeCorrect`, `EntriesKept`, `RailAlwaysTold` | `[]TypeOK`, `[]EntriesHaveTasks`, `[]RailIsTold` | |
| `WorkingLinksKept` | `WorkingLinksAreNotReaped` | |
| `ReconnectsHidden` | `ReconnectsDoNotShow` | |
| *SupervisorProofs* | | |
| `TypeCorrect` | `[]TypeOK` | |
| `ClosedAreGone` | `[]ClosedIsGone` | |
| `NothingElseLeaks` | `[]OnlyFailuresLeak` | |
| `IdsAreNew` | `IdsAreFresh` | |
| `PruneSpares` | `PruneSparesTheLiving` | |
| *SingleInstanceProofs* | | |
| `TypeCorrect` | `[]TypeOK` | |
| `ServingHubKept` | `[]ServingHubKeepsItsSocket` | |
| `OneOfEach` | `[]OneOfEachUnlessRaced` | |
| `LivingRefuse` | `[]RefusedByTheLiving` | |
| *ReporterProofs* (installer) | | |
| `InstallTypeCorrect` | `[]InstallTypeOK` | |
| `OriginalKept` | `[]OriginalAtHand` | |
| `UninitReverses` | `UninitRestores` | |

Where the table names no run's property, TLC found the formula to hold first; it is left to the
proof because the proof says more than a run of it would.

**The store.** `StoreInv` is the type invariant with, for the engine, the log and the rollback
copy, `Sound`: well-typed, totally ordered, and every session's rollups those of its runs.
Rollups must be in it because a replayed row is recomputed, and agrees with memory only if
memory was recomputed too. `JobOK` says that a flag change in progress touches only sessions
that were there and that its rows are among those it touched: without it a rollback could
bring back a session that is gone. `KeepsUpInv` adds that the engine and the rollback copy
each have one solo outside `mixed`, that the log never has a session soloed and muted (a row is of
one session, so a tear cannot mix the two), and that it shows the copy for sessions without a row
yet, `torn` ones aside; all three must be in it because a restart makes the log the engine.
`MarksInv` adds `MarksFollowSessions`, `RecordsInv` adds `MarksRecordApplies` to that: a drop of a mark may
only end the history of ids that nothing indexes. `LandedInv` says that what landed last is not
after the mark of its id; it falls when a mark is dropped under a session that still has the id,
which is what `DurablesApart` excludes. Each is shown of `Init` and kept by each action;
`MergeEngineProofs` has what each operation of the engine does to types, order, rollups and
flags, so that no proof of a step opens an operation.

**The inbox.** `HubStoreProofs` also maps every step of the store to a step of `FleetInbox` or to none.
The inbox shown during a flag change is the copy from before it, so a job of many steps is one
step of the abstract inbox, taken at its last row (or none, if it is rolled back). The mapping
needs `FlagsFromCommand`: the engine of a job in progress differs from that copy by flags a
command would set. A restart may change the flags of the sessions that are `loose` in the inbox, the
torn ones, and give any others what the command it cuts short was to give them. For badges,
`BadgeInv` says `BadgesTrue` of the engine and of the copy: every badge is of a session that pings. The lemmas on `reconcile_unread_from` and on the update
of one session show that each operation gives new pings a badge and takes it from those that
end; a replayed flag row does not, which is why restarts are excluded (section 6).

**The reducers.** `MergeEngineProofs` has for every operation of the engine that the events it is
broadcast with, folded by the host's reducer, make the engine it leaves of the one it found, order
included (`UpsertTold`, `FlagsTold`, `RemoveTold`, `UpsertRunTold`, `RemoveRunTold`). An upsert of a
run tells the face twice, because the reducer keeps the state of a session whose last run went and
the session's own event then corrects it. What a fold of any length does is proved without an
induction rule, from the least length at which a claim would fail (`LeastNat`; `Applied`,
`AppliedConcat`): `apply_all` is a recursive function and `updated_events_for` lists its events by
place for that reason.

**The server.** `StoreOK`: the outbox takes the store the holder found to the store as it is.
`FaceOK` says of each face that its socket and its backlog together take its model to what is
published, that a snapshot stands only at the front of a socket, and that the two reducers agree
from that snapshot on. Publishing appends the outbox to every backlog, so the first gives the
second; a subscription starts with the snapshot, so it holds from the start; a face that lagged or
lost its link is left out until it subscribes anew. A GC pass that fails drops its events and leaves
`published` behind the store, which is why the stream leads to what is published and not to the
store.

**The host.** `LinkOK`: while the link is up, what is on it takes the face's model to the Hub's
inbox. `Unread`: until its first snapshot the host shows nothing, and a snapshot is what it will read
first; with it `event_derives_notifications` is decided by the face alone. `Fit` says of the Hub's
inbox that no solo is muted, badges are true and runs ask while they wait: of such an inbox the
host's rule for pings, which lets a solo override a mute, is the Hub's, which does not. Fires and
auto-resolves then take one set of pending pings to the next (`PingsMove`), and what the window shows
is renewed whenever it differs from what the inbox before gave (`Pushed`). For the rail,
`ReconciledView` is the central lemma: reconciling badges in the Hub and in the rail's rows commute
with taking the view. A mute, an unmute, a solo, a focus and a dismissal then follow one by one, the
case of a session that has gone in the meantime among them.

**The shell.** Its three properties speak of quiet states, so the invariant, `ShellInv`, has to say
of every answer, script and worker under way what it will still put right. `RailFollows`: the rail
will be told of a change, or the latest refresh has read the list there is, or the rail shows that
list; older refreshes do not count, whatever they read. `StaleCorrected` says that an answer about
the selection that is no longer so has one behind it that is, or that the rail will be made to ask
again; `SelectionFollows` then has this of the highlighted row, and keeps `desired` off the rows.
That some row is highlighted hangs on how the news that nothing is selected may reach the rail:
while it shows no rows, or with a refresh behind it (`NoneAnswered`, `NoneTold`). A close
unlists before it clears the selection and says the two in that order, which is what carries this
through. `SpawnedDone` and `StillSelected` follow a worker from its server's selection to the
answer of `spawn_server`. All that is said of the selection stops where the rail asks for a server that died
(`missed`): the rail highlights that row and the host refuses it. A spawned server can die
before the rail has its answer, so `NoneAnswered`, `NoneTold` and `SomeSelected` also stop at an answer that
names one that is gone (`Lost`), which is not yet counted in `missed`. Each stretch of the script
ends in one of a few ways: it makes a call, which puts an answer behind those under way, or it ends,
or it asks for a spawn. `RanSelects`, `RanRefreshes`, `RanCloses` and `RanEnds` show each of them
once, and the handlers are put together from them. Which answer a stretch takes up decides only
what it starts from (`PopAnswer`, `AskWhich`).

**The link.** `NothingIsLost` compares what the Hub would show after it has read all there is with
what the core knows, so it needs to know what is in between. `QueueInv` says of the deltas on their
way, in the core's buffer or drained and being sent, that the last one of each run is what the core
knows of it with the seq it gave last, and that the session as it was registered stands first, if it
is there, with a delta of every known run behind it. Capacity may drop the oldest
(`QueueRest`): what a run's last delta says outlives what it replaces, and a registration that goes
takes no run with it. `SentInv` has this of the queue, `HubInv` that marks and frames of this process
carry only seqs it has given, and none while the registration is still to be sent. From the two,
`HeartbeatRestores`: after a heartbeat and the queue behind it a Hub shows what the core knows,
whatever it showed before. That is a reconnect, and a tick; a delta of one run is fresh to every
mark (`ToldArrives`), and the Hub's reading a frame changes nothing of the sum (`ReadHead`).
A late frame, a dismissal or a relaunch falls outside until the next heartbeat, and
the property says so. `ReadAll` and `apply_all` are recursive functions, reasoned about as the
reducers' folds are. `OnlySilenceKills` rests on `ClockInv`: the core's clock is never ahead and at
most `Lag` behind, so a tracker has a sign of life at most `Lag` earlier than it was sent (`InTime`).

**The receiver.** Most of `TypeOK` is that each adapter, from a coherent machine,
goes to a coherent one and gives commands for its own id (one lemma each), so that a step of the
receiver opens no adapter. `Agree` says of which states S15 and S16 may be in together; the tick
moves S16 alone, and only out of `working`, which is why `Agree` lets it. `VetoInv` follows a
tool from the hook that names it over the armed machine to the transcript: a result is only
written for a tool that was answered. `SendInv` says of every run where its newest report is: one
worker has it in hand, and the last report of that run among the commands it has still to send says
of waiting what the machine says (`EndsWith`); or it has been sent, and what is reported agrees
with the machine unless an older report has been sent since (`overtaken`). Nothing is said of what the
other workers have in hand, so any number of them may be late.

**The bridge.** `Numbered`: a generation has one task, of the window whose socket has it.
`Tasked`: every connection of an entry has a task, and an entry has a connection. `Homes` ties a
window that has come home to its entry: its link serves there, or it is on its way back with a
retry shorter than the grace its old link has left, or the host has not noticed yet. That is
what `ReconnectsHidden` needs, and where the first retry must be shorter than the grace.
`Heard`: an entry's silence and the rest of a working window's ping interval add up to at most
the interval; the timeout is not shorter, so the GC leaves it. `Told` is that a rail with no change
unheard has the list there is: one that changes is counted (`RegisterTells`, `UnregisterTells` show
that what the two call a change is one that shows), and hearing of any reads the list of that moment
(`RailHearsStep`), so the order of the events does not matter.

**The supervisor.** `Shape` says for every id which of its processes may live, be held by the
spawning call, be in the tables or be on the list, phase by phase, a container left behind aside; `Unused` that the ids above
the counter and of later runs are untouched. A spawn tracks its handles before it lists its
server and a close unlists before it kills, so `Shape` needs the phase between: what is closed
or being closed is on no list, and what is closed or pruned has no handle left.

**Single instances.** `PortFirst`: who has got past the port holds it, and who serves has the
socket file too. `LockRecords`: a lockfile is its creator's until that one drops it or dies, and
has been written by all but a creator about to. `HubsInTurn` and `ReceiversInTurn` only speak of
histories without a race: one starts at a time, and removes a file only if nobody holds it.
`Alone` says what a Hub that met no other can rely on: after its one removal (`Retries`) there
is no lockfile, so nothing refuses it.

**The installer.** `ManifestHolds`, `InitHolds` and `UninitHolds` say of each entry, in the
manifest and in the copy of a command under way, what its backup is; `BackupHolds` what an init
has between its read, its backup and its write; `PreClean` that what is to be restored has no
hook of Fleet. `astray` and `cut`, in the properties and in all of these, mark the histories of
the exceptions in section 6.

## 5. Only model-checked

Every safety property and action property of a run is a theorem. What is left to TLC is liveness
(`DeadRunsAreReaped`, `FacesCatchUp`, `StoreGetsPublished`, `Converges`,
`SilentRunsDie`, `BlockedIsShown`, `RailSettles`, `GoneServersGo`, `OpenWindowsAreListed`,
`DeadServersGo`): the prover does not do fairness.

The proofs leave out nothing of a module they are about: the specifications TLC runs are theirs.

## 6. Where the code and its own words differ

What follows was met while modelling. The runs have it in their states unless a parameter is named
that excludes it; the property it would break names it as an exception, by a history variable. For
the items of the first list, TLC finds a counterexample with what each names; the rest was read in the
code.

* **A torn flag change.** Flag rows are written one by one (`hub/persist.rs:557`). A process that ends
  between two of them can come back with two soloed sessions, while by `hub/merge.rs:360` exactly one
  is soloed at a time: `SoloIsExclusive` without `mixed` fails. And if a later row fails, memory goes
  back and the rows before it stay, so the log is ahead of memory, against `hub/persist.rs:541`
  ("never diverge"): `LogKeepsUp` without `torn` fails. It stays so until the sessions of those rows
  are written again, and a restart before that shows the flags of a command that was refused.
* **A live session is swept.** The sweep goes by the session's own time stamp
  (`hub/persist.rs:689`), which the reports of its runs do not move, and takes sessions whose agents
  report, against `hub/lib.rs:115` and `docs/ENGINEERING_SPEC.md:147`. `SweepSparesLiveSessions` as a property of
  `store_gc`.
* **A relaunched reporter is not heard.** The ledger is memory only: a relaunch starts every series
  at epoch 0 again (`reporter/identity.rs:173`), against `:12`, so the Hub takes what it sends for
  repeats until a heartbeat. `RelaunchIsHeard` of `ReporterLink`.
* **An older state sent last.** Commands are sent after the receiver's lock is released
  (`reporter/serve.rs:395`, `:452`), on a runtime of many threads, so the older of two reports of a run
  may be the one sent last. A wait that has been resolved then stays reported, against
  `claude_infer.rs:20-22`, and a wait may be hidden by the `working` of before it. `NoStaleWaiting` or
  `BlockedIsShown` without `overtaken` fails in `hook_agents`. It lasts until the run next changes.
* **Any activity will do.** With tools in parallel the result of one disarms another
  (`claude_infer.rs:338-343`), and so does the late hook of a tool before, while
  `docs/ENGINEERING_SPEC.md:155` speaks of a PreToolUse with no *matching* PostToolUse.
  `BlockedIsShown` without `cutShort` fails. With `IdsCarried = FALSE`, the transcript of one
  tool vetoes the wait for another (`claude_infer.rs:559`), which violates `TimerIsSound`.
* **A row closed in the rail only.** `closeServer` (`ui/main.js:1390`) takes the row of a session out
  of the rail's inbox, for which there is no command to the Hub; its comment says that the refresh of the
  servers and the liveness GC reconcile the truth, but they do not bring the inbox again. A session the
  Hub keeps stays away from the rail until the next inbox event. `RailSettles` with `RailAgrees` cut to
  its case `gone = {}` fails.
* **A container left behind.** `close` takes a container out of its table and then ignores what
  `docker rm -f` says (`host/spawn.rs:569-571`, `:642-649`), though the comment at `:562` says that it
  kills the container, and logs it as removed. It may run on with no handle left. `ClosedIsGone`
  and `OnlyFailuresLeak` without `LeftBehind` fail.
* **Two Hubs.** The lockfile is created empty and written afterwards (`hub/lockfile.rs:104`); two
  starts that race on one both own it, and only the port stops the second, against `:12` and `:44`.
  `SoleHub` of `SingleInstance`. `OneOfEachUnlessRaced` leaves such races out. The second then drops the lockfile, and the Hub that serves has
  none. On Windows, or with a reused pid, a stale file can refuse every Hub, though
  `lockfile.rs:5-9` says it never does. An embedded Hub that was refused never tries again.
* **Nothing is opened.** The comment "Auto-select the first server once any exist and nothing
  valid is selected" (`ui/main.js`, `refreshServers`) does not hold when the server chosen went
  before it was opened: `OpensSomething` of `Shell`.
* **A rollback to a selection since replaced.** `selectServer` (`ui/main.js:1434`) puts back, when the host
  refuses, the selection and the deferral of before its call, whatever was chosen meanwhile. What
  `SelectionAgrees` and `DeferredOpens` say stops at any refused selection (`missed`), so no property
  covers this; both fail without `missed`.

**Hub and reporter.** These have properties that are conditional on them, or a bound that
excludes them.

* The reclaim mark moves before the append that can fail (`hub/persist.rs:466`), so the retry of a
  delta that never landed is refused. `MarksAreApplies` assumes no failed append for this.
* The reclaim table is empty after a restart (`hub/persist.rs:341`, `:353`): a delta delayed across
  it is applied over newer state. `StaleNeverLands` excludes restarts.
* A flag row replays as an upsert of the session, which recomputes badges from the flags of before
  it (`hub/persist.rs:557`): a badge can be lost. `BadgesFollowPings` excludes restarts.
* Two sessions with one durable id share a mark (`hub/persist.rs:502`; `:620` calls durable ids
  "normally unique"). `DurablesApart` excludes them from `StaleNeverLands`.
* A GC pass that fails half-way drops the events of what it has removed (`hub/server.rs:353`);
  faces that are connected never hear of it, new ones do not see it. A face that lags keeps a stale
  inbox until its link breaks (`hub/server.rs:537`).
* Known runs are never forgotten: heartbeats bring dismissed and reaped ones back
  (`reporter/reporter.rs:366`). A run that timed out stays dead to the Hub if its next sign of
  activity is in the same state (`:280`). An outage longer than the timeout kills an active run
  (`:274`): signs of life are stamped with the tick before it. `OnlySilenceKills` allows for it by `Lag`.
* Both faces show a session as it was, or as idle, between the removal of its last run and its
  update (`host-core/view.rs:319`).

**Host.**

* A notification is resolved in the host's books but never dismissed on the desktop, although
  `host-core/notify.rs:116-118` says that it is. A wait answered and asked again during an outage
  is not notified again. A command taken from the channel is lost when the send fails
  (`host/hub_client.rs:105-109`). The rail guards inbox events by a revision, but not the answer of
  `get_inbox` nor its removal of a dismissed row. A solo that moves from one session to another can
  ping a third between the two updates; no run has three sessions in the host.
* The bridge sends a command to the largest generation (`host/bridge.rs:95`); in the eight seconds
  of grace that may be a link that is gone. A rename is lost when the entry goes.
* The supervisor never kills its children when the host ends. A start that fails after its
  reporter leaves it running (`containers/fleet-env/eval/SPEC/25-deploy-spawn.md:100`); `OnlyFailuresLeak` says that
  nothing else does, but the container of a close that docker failed. A child that is found dead between the two steps of a listing leaves an entry
  until the next look.
* The worker of a spawn retiles while the main thread does (`host/mux.rs:1187`); one that looked
  before a close makes a surface for a closed id again. A server that goes by itself keeps its
  surface and the backend's selection (against `docs/ARCHITECTURE.md:99`). An inbox row that goes
  while its selection is deferred leaves nothing highlighted. `loaded_url` is recorded when
  navigation starts, though `host/surface.rs:5-7` says "successfully loaded". Closing an external
  server forgets it, until its bridge speaks again.

**Installer** (`cli/init.rs:35-38`, "Reversible"). `astray` and `cut` are these histories.

* An `init` that fails after writing the settings and before `manifest.save` leaves hooks that no
  `uninit` knows of.
* An `uninit` cut short after it restored a file and removed the backup, when repeated, deletes the
  file it has restored.
* A file Fleet created, whose hooks the user strips, is backed up by the next `init` while the
  entry still says it was fresh: `uninit` removes the file, and the backup stays to be restored by
  a later one.
* A kill after the backup, an edit, and `init` again: `uninit` puts back the older version.

## 7. What is left

1. The hook receiver's commands as the reporter's input, in place of `Observe`.
2. Torn writes of the installer's files, and the user acting during a command.
3. The supervisor and the registry composed under the shell, in place of the merged list.

## 8. Not modelled

* Palette, editor detection, confidence and the focus helpers of `host-core` are pure functions of
  their arguments; some (`focus_window`, `next_unread`, `cycle_next`) are not called by the host.
* `claude_shim.rs` starts a process and copies bytes; `transition.rs` and `fake.rs` drive other code
  in tests. `packages/extension` is a prototype that is not shipped. The host's `main.rs` wires
  parts together; the probe control serves tests.
* Menus, prompts, status line, layout, command lines, environment, the rows and text of `fleet ls`:
  no property is about them.
* JSON, WebSocket framing and SQLite pages are taken to do what they promise. Wall clocks and the
  lengths of backoffs are replaced by discrete clocks, or by "later".
* In `Shell`, answers are taken up in their order and so are scripts, but the two are not ordered
  with each other; a server start that the ids of the instance do not suffice for fails. In
  `SingleInstance`, a pid is used once. In `Installer`, a write of one file is one step.
* The evaluation harness, tests and scripts. Much of the source is of these kinds: tests stand at
  the end of most files, and native calls and formatting are most of the host and the CLI.
