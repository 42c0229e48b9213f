------------------------------ MODULE Supervisor ------------------------------
(***************************************************************************)
(* The servers Fleet starts itself: ServerSupervisor of                    *)
(* crates/fleet-host/src/spawn.rs with the processes it starts, over       *)
(* several runs of the host.                                               *)
(*                                                                         *)
(* Spawns run on threads of their own beside the main thread, which closes *)
(* and renames, and beside any thread that looks at the list, which prunes *)
(* it first.  A step is what happens under one lock, or between two.       *)
(***************************************************************************)
EXTENDS Integers, FiniteSets

CONSTANTS
  Runtimes,     \* the runtimes of the build: "local", and with experimental-runtimes more
  Threads,      \* the threads that look at the list
  MaxLaunches,  \* bound on runs of the host
  MaxSpawns     \* bound on servers started by one of them

ASSUME SupervisorConstants ==
  /\ Runtimes \subseteq {"local", "container", "ssh"}
  /\ MaxLaunches \in Nat /\ MaxSpawns \in Nat

\* A server's id carries the launch and the launch's own counter.
Ids == (1..MaxLaunches) \X (1..MaxSpawns)

Processes == {"reporter", "editor", "ssh", "container"}

Phases == {"none", "prepare", "editor", "track", "list", "listed", "failed"}

VARIABLES
  launch,      \* the launch that runs, or has run last
  up,          \* whether the host runs
  counter,     \* ServerSupervisor.counter: servers of this launch so far
  job,         \* the spawn of each id: how far it is, and the handles it holds
  alive,       \* the processes of each id that run: [Ids -> SUBSET Processes]
  children,    \* ServerSupervisor.children: [Ids -> SUBSET Processes]
  containers,  \* the ids of ServerSupervisor.containers
  servers,     \* the ids of ServerSupervisor.servers
  renamed,     \* those of them that have been given a name
  removed,     \* per thread, what its prune has removed and not yet unlisted
  closing,     \* the ids a close has unlisted and not yet killed
  closed,      \* history: the ids of which a close has come back
  stuck        \* history: those of them whose container docker did not remove

vars == <<launch, up, counter, job, alive, children, containers, servers, renamed, removed, closing, closed, stuck>>

Init ==
  /\ launch = 0
  /\ up = FALSE
  /\ counter = 0
  /\ job = [i \in Ids |-> [phase |-> "none", runtime |-> "local", handles |-> {}]]
  /\ alive = [i \in Ids |-> {}]
  /\ children = [i \in Ids |-> {}]
  /\ containers = {}
  /\ servers = {}
  /\ renamed = {}
  /\ removed = [t \in Threads |-> {}]
  /\ closing = {}
  /\ closed = {}
  /\ stuck = {}

Phase(i) == job[i].phase

To(i, phase) == job' = [job EXCEPT ![i].phase = phase]

\* The process whose end ends a local server: the last one of its group.
Primary == {"editor", "ssh"}

-----------------------------------------------------------------------------
(* Spawning.                                                               *)

allocate_server_id(n) == <<launch, n>>

\* spawn_with: the route of the runtime asked for; a build has not got them all.
spawn_with(runtime) ==
  LET i == allocate_server_id(counter + 1)
  IN  /\ up /\ counter < MaxSpawns /\ runtime \in Runtimes
      /\ counter' = counter + 1
      /\ job' = [job EXCEPT ![i] = [phase |-> "prepare", runtime |-> runtime, handles |-> {}]]
      /\ UNCHANGED <<launch, up, alive, children, containers, servers, renamed, removed, closing, closed, stuck>>

\* No port or no directory: nothing has been started yet.
PrepareFails(i) ==
  /\ Phase(i) = "prepare"
  /\ To(i, "failed")
  /\ UNCHANGED <<launch, up, counter, alive, children, containers, servers, renamed, removed, closing, closed, stuck>>

\* What has been started is running, and the call holds its handle.
StartProcesses(i, started, phase) ==
  /\ job' = [job EXCEPT ![i].phase = phase, ![i].handles = @ \cup started]
  /\ alive' = [alive EXCEPT ![i] = @ \cup started]
  /\ UNCHANGED <<launch, up, counter, children, containers, servers, renamed, removed, closing, closed, stuck>>

\* A reporter that does not start only costs the agent state.
spawn_reporter(i) ==
  /\ Phase(i) = "prepare" /\ job[i].runtime = "local"
  /\ \E started \in {{}, {"reporter"}} : StartProcesses(i, started, "editor")

Server(i) ==
  CASE job[i].runtime = "local" -> "editor"
    [] job[i].runtime = "ssh" -> "ssh"
    [] job[i].runtime = "container" -> "container"

\* The server itself: code serve-web, ssh or docker run.
StartServer(i) ==
  /\ Phase(i) = IF job[i].runtime = "local" THEN "editor" ELSE "prepare"
  /\ StartProcesses(i, {Server(i)}, "track")

\* No editor, settings, extension or process: the call returns and drops its
\* handles, and a reporter that was started runs on.
EditorFails(i) ==
  /\ Phase(i) = "editor"
  /\ job' = [job EXCEPT ![i].phase = "failed", ![i].handles = {}]
  /\ UNCHANGED <<launch, up, counter, alive, children, containers, servers, renamed, removed, closing, closed, stuck>>

\* A faulty record of a group: the editor alone.
TrackEditor(i) ==
  /\ Phase(i) = "track"
  /\ job' = [job EXCEPT ![i].phase = "list", ![i].handles = {}]
  /\ IF job[i].runtime = "container"
     THEN containers' = containers \cup {i} /\ UNCHANGED children
     ELSE children' = [children EXCEPT ![i] = {Server(i)}] /\ UNCHANGED containers
  /\ UNCHANGED <<launch, up, counter, alive, servers, renamed, removed, closing, closed, stuck>>

\* The handles, or the container's name, go into the supervisor's table, ...
Track(i) ==
  /\ Phase(i) = "track"
  /\ job' = [job EXCEPT ![i].phase = "list", ![i].handles = {}]
  /\ IF job[i].runtime = "container"
     THEN containers' = containers \cup {i} /\ UNCHANGED children
     ELSE children' = [children EXCEPT ![i] = job[i].handles] /\ UNCHANGED containers
  /\ UNCHANGED <<launch, up, counter, alive, servers, renamed, removed, closing, closed, stuck>>

\* ... and the server on the list.
List(i) ==
  /\ Phase(i) = "list"
  /\ To(i, "listed")
  /\ servers' = servers \cup {i}
  /\ UNCHANGED <<launch, up, counter, alive, children, containers, renamed, removed, closing, closed, stuck>>

\* A process ends by itself.
Exits(i, p) ==
  /\ p \in alive[i]
  /\ alive' = [alive EXCEPT ![i] = @ \ {p}]
  /\ UNCHANGED <<launch, up, counter, job, children, containers, servers, renamed, removed, closing, closed, stuck>>

-----------------------------------------------------------------------------
(* Looking, closing.                                                       *)

\* A faulty health check that any process of the group fails.
AnyChildExited(i) == children[i] # {} /\ ~(children[i] \subseteq alive[i])

\* A faulty health check that looks at the group's first process.
FirstChildExited(i) == children[i] # {} /\ "reporter" \in children[i] \ alive[i]

primary_child_exited(i) == children[i] # {} /\ children[i] \cap Primary \cap alive[i] = {}

\* prune_dead_local_servers under the lock of the children: the groups of the
\* dead are killed and forgotten.
PruneChildren(t) ==
  LET dead == {i \in Ids : primary_child_exited(i)}
  IN  /\ up /\ removed[t] = {} /\ dead # {}
      /\ removed' = [removed EXCEPT ![t] = dead]
      /\ children' = [i \in Ids |-> IF i \in dead THEN {} ELSE children[i]]
      /\ alive' = [i \in Ids |-> IF i \in dead THEN alive[i] \ children[i] ELSE alive[i]]
      /\ UNCHANGED <<launch, up, counter, job, containers, servers, renamed, closing, closed, stuck>>

\* ... and under the lock of the list.
PruneServers(t) ==
  /\ removed[t] # {}
  /\ servers' = servers \ removed[t] /\ renamed' = renamed \ removed[t]
  /\ removed' = [removed EXCEPT ![t] = {}]
  /\ UNCHANGED <<launch, up, counter, job, alive, children, containers, closing, closed, stuck>>

rename(i) ==
  /\ i \in servers
  /\ renamed' = renamed \cup {i}
  /\ UNCHANGED <<launch, up, counter, job, alive, children, containers, servers, removed, closing, closed, stuck>>

\* close of a server that has been on the list: it leaves it, ...
CloseUnlist(i) ==
  /\ up /\ Phase(i) = "listed" /\ i \notin closing
  /\ servers' = servers \ {i} /\ renamed' = renamed \ {i}
  /\ closing' = closing \cup {i}
  /\ UNCHANGED <<launch, up, counter, job, alive, children, containers, removed, closed, stuck>>

\* A faulty close that kills the server's primary process only.
KillPrimary(i) == children[i] \cap Primary

\* The processes a close ends: the container, or every process of the group.
Killed(i) == IF i \in containers THEN {"container"} ELSE children[i]

\* ... and is killed if it is still tracked; what docker says of the removal of a
\* container is not read.
CloseKill(i) ==
  /\ i \in closing
  /\ \/ alive' = [alive EXCEPT ![i] = @ \ Killed(i)] /\ UNCHANGED stuck
     \/ i \in containers /\ stuck' = stuck \cup {i} /\ UNCHANGED alive
  /\ IF i \in containers
     THEN containers' = containers \ {i} /\ UNCHANGED children
     ELSE children' = [children EXCEPT ![i] = {}] /\ UNCHANGED containers
  /\ closing' = closing \ {i}
  /\ closed' = closed \cup {i}
  /\ UNCHANGED <<launch, up, counter, job, servers, renamed, removed>>

-----------------------------------------------------------------------------
(* The host.                                                               *)

Start ==
  /\ ~up /\ launch < MaxLaunches
  /\ launch' = launch + 1 /\ up' = TRUE /\ counter' = 0
  /\ UNCHANGED <<job, alive, children, containers, servers, renamed, removed, closing, closed, stuck>>

\* The host ends and forgets; what it started runs on.
Stop ==
  /\ up
  /\ up' = FALSE
  /\ job' = [i \in Ids |-> [job[i] EXCEPT !.phase = IF @ = "none" THEN @ ELSE "failed", !.handles = {}]]
  /\ children' = [i \in Ids |-> {}] /\ containers' = {} /\ servers' = {} /\ renamed' = {}
  /\ removed' = [t \in Threads |-> {}] /\ closing' = {}
  /\ UNCHANGED <<launch, counter, alive, closed, stuck>>

Next ==
  \/ \E runtime \in Runtimes : spawn_with(runtime)
  \/ \E i \in Ids : PrepareFails(i)
  \/ \E i \in Ids : spawn_reporter(i)
  \/ \E i \in Ids : StartServer(i)
  \/ \E i \in Ids : EditorFails(i)
  \/ \E i \in Ids : Track(i)
  \/ \E i \in Ids : List(i)
  \/ \E i \in Ids, p \in Processes : Exits(i, p)
  \/ \E t \in Threads : PruneChildren(t)
  \/ \E t \in Threads : PruneServers(t)
  \/ \E i \in Ids : rename(i)
  \/ \E i \in Ids : CloseUnlist(i)
  \/ \E i \in Ids : CloseKill(i)
  \/ Start
  \/ Stop

Spec == Init /\ [][Next]_vars

\* The list is looked at again and again, and a look that prunes goes on.
Fairness == \A t \in Threads : WF_vars(PruneChildren(t)) /\ WF_vars(PruneServers(t))

FairSpec == Spec /\ Fairness
-----------------------------------------------------------------------------
(* Properties.                                                             *)

\* Every variable has its type; handles are with the spawning call or in the
\* table, never in both; a dead server is taken out by one prune only; and a name
\* goes with its list entry.
TypeOK ==
  /\ launch \in 0..MaxLaunches /\ up \in BOOLEAN /\ counter \in 0..MaxSpawns
  /\ job \in [Ids -> [phase : Phases, runtime : {"local", "container", "ssh"}, handles : SUBSET Processes]]
  /\ alive \in [Ids -> SUBSET Processes] /\ children \in [Ids -> SUBSET Processes]
  /\ containers \subseteq Ids /\ servers \subseteq Ids /\ renamed \subseteq servers
  /\ removed \in [Threads -> SUBSET Ids]
  /\ closing \subseteq Ids /\ closed \subseteq Ids /\ stuck \subseteq closed
  /\ \A i \in Ids : job[i].handles # {} => children[i] = {}
  /\ \A t \in Threads, u \in Threads : t # u => removed[t] \cap removed[u] = {}

\* What a close may leave: a container that docker did not remove.
LeftBehind(i) == IF i \in stuck THEN {"container"} ELSE {}

\* A server that has been closed is on no list and no table and has no process
\* left, whatever spawns, prunes and dies beside the close; but for a container that
\* docker rm -f failed to remove, which close takes for removed (spawn.rs 569-571,
\* 642-649).
ClosedIsGone ==
  \A i \in closed :
    /\ alive[i] \subseteq LeftBehind(i) /\ children[i] = {}
    /\ i \notin containers /\ i \notin servers

\* While the host runs, it holds a handle of every process it has started, in a
\* spawning call or in the table, till it is closed. It loses sight of two kinds
\* only: the reporter of a start that failed after it, and the container of a close
\* that docker failed.
OnlyFailuresLeak ==
  \A i \in Ids : up /\ i[1] = launch =>
    alive[i] \subseteq children[i] \cup job[i].handles \cup LeftBehind(i)
                       \cup (IF i \in containers THEN {"container"} ELSE {})
                       \cup (IF Phase(i) = "failed" THEN {"reporter"} ELSE {})

\* An id names one server over all runs of the host: the id given out names
\* nothing that has been started, listed or closed before, though the processes of
\* earlier runs may still phone home with theirs.
IdsAreFresh ==
  [][\A i \in Ids : Phase(i) # "prepare" /\ job'[i].phase = "prepare" =>
       Phase(i) = "none" /\ alive[i] = {} /\ i \notin servers \cup closed]_vars

\* Looking at the list ends no editor that runs and unlists no server whose editor
\* runs, whatever became of its reporter.
PruneSparesTheLiving ==
  [][\A t \in Threads :
       /\ PruneChildren(t) => \A i \in Ids : alive[i] \cap Primary \subseteq alive'[i]
       /\ PruneServers(t) => \A i \in servers \ servers' : alive[i] \cap Primary = {}]_vars

\* A listed server the supervisor holds handles of leaves the list when its editor
\* has died, while something looks at the list.
DeadServersGo ==
  \A i \in Ids :
    i \in servers /\ children[i] # {} /\ alive[i] \cap Primary = {} ~> i \notin servers
=============================================================================
