--------------------------- MODULE SupervisorProofs ---------------------------
(***************************************************************************)
(* What holds of the supervisor for every set of runtimes and threads and  *)
(* any number of runs of the host and of servers in each.                  *)
(***************************************************************************)
EXTENDS Supervisor, TLAPS

\* Nothing of the supervisor knows the id.
Untracked(i) ==
  /\ children[i] = {} /\ i \notin containers /\ i \notin servers /\ i \notin closing
  /\ \A t \in Threads : i \notin removed[t]

\* What the supervisor holds and what runs, at each point of a server's life.
Shape(i) ==
  /\ Phase(i) \notin {"none", "failed"} => up /\ i[1] = launch
  /\ Phase(i) \in {"none", "prepare", "editor", "track", "failed"} => Untracked(i)
  /\ Phase(i) \in {"none", "prepare", "list", "listed", "failed"} => job[i].handles = {}
  /\ Phase(i) \in {"none", "prepare"} => alive[i] = {}
  /\ Phase(i) \in {"editor", "track"} => alive[i] \subseteq job[i].handles
  /\ Phase(i) = "editor" => job[i].handles \subseteq {"reporter"} /\ job[i].runtime = "local"
  /\ Phase(i) = "track" /\ job[i].runtime = "container" => job[i].handles = {"container"}
  /\ Phase(i) \in {"list", "listed"} =>
       alive[i] \subseteq children[i] \cup LeftBehind(i)
                            \cup (IF i \in containers THEN {"container"} ELSE {})
  /\ Phase(i) = "list" => i \notin servers /\ i \notin closing
  /\ Phase(i) = "failed" /\ up /\ i[1] = launch => alive[i] \subseteq {"reporter"}
  /\ i \in closed => Phase(i) \in {"listed", "failed"} /\ alive[i] \subseteq LeftBehind(i)
  /\ i \in closed \/ (\E t \in Threads : i \in removed[t]) =>
       children[i] = {} /\ i \notin containers
  /\ i \in closed \cup closing => i \notin servers
  /\ i \in containers => children[i] = {}
  /\ i \in stuck => i \in closed

\* The ids above the counter, and those of later runs, have not been given out.
Unused ==
  \A i \in Ids : i[1] > launch \/ (i[1] = launch /\ i[2] > counter) => Phase(i) = "none"

IInv == TypeOK /\ Unused /\ (\A i \in Ids : Shape(i)) /\ (up => launch \in 1..MaxLaunches)

-----------------------------------------------------------------------------
Record == [phase : Phases, runtime : {"local", "container", "ssh"}, handles : SUBSET Processes]

\* Of an id a step has left alone, but for processes that have ended.
Kept(i) ==
  /\ job'[i] = job[i] /\ alive'[i] \subseteq alive[i] /\ children'[i] = children[i]
  /\ i \in containers' <=> i \in containers
  /\ i \in servers' => i \in servers
  /\ i \in closing' => i \in closing
  /\ \A t \in Threads : i \in removed'[t] => i \in removed[t]
  /\ i \in closed' <=> i \in closed
  /\ i \in stuck' <=> i \in stuck

LEMMA KeptShape ==
  ASSUME NEW i \in Ids, Shape(i), Kept(i), up' = up, launch' = launch
  PROVE  Shape(i)'
BY DEF Shape, LeftBehind, Kept, Untracked, Phase

LEMMA InitInv == Init => IInv
<1>. SUFFICES ASSUME Init PROVE IInv OBVIOUS
<1>1. job \in [Ids -> Record] BY DEF Init, Record, Phases
<1>2. TypeOK
  <2>1. /\ alive \in [Ids -> SUBSET Processes] /\ children \in [Ids -> SUBSET Processes]
        /\ removed \in [Threads -> SUBSET Ids]
    BY DEF Init
  <2>2. launch \in 0..MaxLaunches /\ counter \in 0..MaxSpawns /\ up \in BOOLEAN
    <3>1. launch = 0 /\ counter = 0 /\ up = FALSE BY DEF Init
    <3>2. 0 \in 0..MaxLaunches /\ 0 \in 0..MaxSpawns BY SupervisorConstants
    <3>. QED BY <3>1, <3>2
  <2>3. /\ containers \subseteq Ids /\ servers \subseteq Ids /\ renamed \subseteq servers
        /\ closing \subseteq Ids /\ closed \subseteq Ids /\ stuck \subseteq closed
        /\ \A i \in Ids : job[i].handles = {}
        /\ \A t \in Threads : removed[t] = {}
    BY DEF Init
  <2>. QED BY <1>1, <2>1, <2>2, <2>3 DEF TypeOK, Record
<1>3. Unused BY DEF Init, Unused, Phase
<1>4. ASSUME NEW i \in Ids PROVE Shape(i) BY DEF Init, Shape, LeftBehind, Untracked, Phase
<1>. QED BY <1>2, <1>3, <1>4 DEF IInv, Init

\* The id a spawn gives out has not been given out.
LEMMA NewId ==
  ASSUME IInv, up, counter < MaxSpawns
  PROVE  LET i == allocate_server_id(counter + 1)
         IN  i \in Ids /\ Phase(i) = "none" /\ i[1] = launch /\ i[2] = counter + 1
<1>1. launch \in 1..MaxLaunches /\ counter \in 0..MaxSpawns BY DEF IInv, TypeOK
<1>2. allocate_server_id(counter + 1) \in Ids
  BY <1>1, SupervisorConstants DEF allocate_server_id, Ids
<1>. QED BY <1>1, <1>2 DEF allocate_server_id, IInv, Unused

LEMMA SpawnInv ==
  ASSUME IInv, NEW runtime \in Runtimes, spawn_with(runtime)
  PROVE  IInv'
<1>. DEFINE i == allocate_server_id(counter + 1)
            new == [phase |-> "prepare", runtime |-> runtime, handles |-> {}]
<1>1. up /\ counter < MaxSpawns /\ counter' = counter + 1 /\ job' = [job EXCEPT ![i] = new]
      /\ UNCHANGED <<launch, up, alive, children, containers, servers, renamed, removed, closing, closed, stuck>>
  BY DEF spawn_with
<1>2. i \in Ids /\ Phase(i) = "none" /\ i[1] = launch /\ i[2] = counter + 1 BY <1>1, NewId
<1>. HIDE DEF i
<1>3. job \in [Ids -> Record] BY DEF IInv, TypeOK, Record
<1>4. new \in Record BY SupervisorConstants DEF Record, Phases
<1>. HIDE DEF new
<1>5. job' \in [Ids -> Record] BY <1>1, <1>2, <1>3, <1>4
<1>6. /\ job'[i] = new /\ new.phase = "prepare" /\ new.handles = {}
      /\ \A j \in Ids : j # i => job'[j] = job[j]
  BY <1>1, <1>2, <1>3 DEF new
<1>7. TypeOK'
  <2>1. counter' \in 0..MaxSpawns BY <1>1, SupervisorConstants DEF IInv, TypeOK
  <2>2. \A j \in Ids : job'[j].handles # {} => children'[j] = {} BY <1>1, <1>6 DEF IInv, TypeOK
  <2>. QED BY <1>1, <1>5, <2>1, <2>2 DEF IInv, TypeOK, Record
<1>8. Unused'
  <2>. SUFFICES ASSUME NEW j \in Ids, j[1] > launch \/ (j[1] = launch /\ j[2] > counter + 1)
                PROVE  job'[j].phase = "none"
    BY <1>1 DEF Unused, Phase
  <2>1. j # i /\ (j[1] > launch \/ (j[1] = launch /\ j[2] > counter))
    BY <1>2 DEF Ids, IInv, TypeOK
  <2>. QED BY <1>6, <2>1 DEF IInv, Unused, Phase
<1>9. ASSUME NEW j \in Ids PROVE Shape(j)'
  <2>1. Shape(j) BY DEF IInv
  <2>2. CASE j = i BY <1>1, <1>2, <1>6, <2>1, <2>2 DEF Shape, LeftBehind, Untracked, Phase
  <2>3. CASE j # i BY <1>1, <1>6, <2>1, <2>3, KeptShape DEF Kept
  <2>. QED BY <2>2, <2>3
<1>. QED BY <1>1, <1>7, <1>8, <1>9 DEF IInv

\* A step that concerns one id, which has been given out.
LEMMA OneInv ==
  ASSUME IInv, NEW i \in Ids, Phase(i) # "none", TypeOK', Shape(i)',
         UNCHANGED <<launch, up, counter>>,
         \A j \in Ids : j # i => Kept(j)
  PROVE  IInv'
<1>1. Unused'
  <2>. SUFFICES ASSUME NEW j \in Ids, j[1] > launch \/ (j[1] = launch /\ j[2] > counter)
                PROVE  job'[j].phase = "none"
    BY DEF Unused, Phase
  <2>1. Phase(j) = "none" BY DEF IInv, Unused
  <2>. QED BY <2>1 DEF Kept, Phase
<1>2. ASSUME NEW j \in Ids PROVE Shape(j)'
  <2>1. CASE j = i BY <2>1
  <2>2. CASE j # i BY <2>2, KeptShape DEF IInv
  <2>. QED BY <2>1, <2>2
<1>. QED BY <1>1, <1>2 DEF IInv

LEMMA JobStep ==
  ASSUME TypeOK, NEW i \in Ids, NEW p \in Phases, NEW h \in SUBSET Processes,
         job' = [job EXCEPT ![i].phase = p, ![i].handles = h]
  PROVE  /\ job' \in [Ids -> Record]
         /\ job'[i].phase = p /\ job'[i].handles = h /\ job'[i].runtime = job[i].runtime
         /\ \A j \in Ids : j # i => job'[j] = job[j]
<1>1. job \in [Ids -> Record] BY DEF TypeOK, Record
<1>2. [job[i] EXCEPT !.phase = p, !.handles = h] \in Record BY <1>1 DEF Record
<1>. QED BY <1>1, <1>2 DEF Record

LEMMA DropStep ==
  ASSUME TypeOK, NEW i \in Ids, NEW p \in Phases, job' = [job EXCEPT ![i].phase = p, ![i].handles = {}]
  PROVE  /\ job' \in [Ids -> Record]
         /\ job'[i].phase = p /\ job'[i].handles = {} /\ job'[i].runtime = job[i].runtime
         /\ \A j \in Ids : j # i => job'[j] = job[j]
<1>1. job \in [Ids -> Record] BY DEF TypeOK, Record
<1>2. [job[i] EXCEPT !.phase = p, !.handles = {}] \in Record BY <1>1 DEF Record
<1>. QED BY <1>1, <1>2 DEF Record

LEMMA ToStep ==
  ASSUME TypeOK, NEW i \in Ids, NEW p \in Phases, To(i, p)
  PROVE  /\ job' \in [Ids -> Record]
         /\ job'[i].phase = p /\ job'[i].handles = job[i].handles /\ job'[i].runtime = job[i].runtime
         /\ \A j \in Ids : j # i => job'[j] = job[j]
<1>1. job \in [Ids -> Record] BY DEF TypeOK, Record
<1>2. [job[i] EXCEPT !.phase = p] \in Record BY <1>1 DEF Record
<1>. QED BY <1>1, <1>2 DEF Record, To

LEMMA PrepareFailsInv ==
  ASSUME IInv, NEW i \in Ids, PrepareFails(i) PROVE IInv'
<1>1. /\ Phase(i) = "prepare" /\ To(i, "failed")
      /\ UNCHANGED <<launch, up, counter, alive, children, containers, servers, renamed, removed, closing, closed, stuck>>
  BY DEF PrepareFails
<1>2. TypeOK /\ Shape(i) /\ "failed" \in Phases BY DEF IInv, Phases
<1>3. /\ job' \in [Ids -> Record]
      /\ job'[i].phase = "failed" /\ job'[i].handles = job[i].handles
      /\ \A j \in Ids : j # i => job'[j] = job[j]
  BY <1>1, <1>2, ToStep
<1>4. TypeOK' BY <1>1, <1>2, <1>3 DEF TypeOK, Record
<1>5. Shape(i)' BY <1>1, <1>2, <1>3 DEF Shape, LeftBehind, Untracked, Phase
<1>6. \A j \in Ids : j # i => Kept(j) BY <1>1, <1>3 DEF Kept
<1>. QED BY <1>1, <1>4, <1>5, <1>6, OneInv

\* What is common to the steps that start processes.
LEMMA StartsInv ==
  ASSUME IInv, NEW i \in Ids, NEW started \in SUBSET Processes, NEW phase \in {"editor", "track"},
         Phase(i) \in {"prepare", "editor"}, StartProcesses(i, started, phase),
         phase = "editor" => Phase(i) = "prepare" /\ started \subseteq {"reporter"} /\ job[i].runtime = "local",
         phase = "track" /\ job[i].runtime = "container" => Phase(i) = "prepare" /\ started = {"container"}
  PROVE  IInv'
<1>. DEFINE h == job[i].handles \cup started
<1>1. /\ job' = [job EXCEPT ![i].phase = phase, ![i].handles = h]
      /\ alive' = [alive EXCEPT ![i] = @ \cup started]
      /\ UNCHANGED <<launch, up, counter, children, containers, servers, renamed, removed, closing, closed, stuck>>
  BY DEF StartProcesses
<1>2. TypeOK /\ Shape(i) /\ phase \in Phases /\ h \in SUBSET Processes
  BY DEF IInv, Phases, TypeOK
<1>. HIDE DEF h
<1>3. /\ job' \in [Ids -> Record]
      /\ job'[i].phase = phase /\ job'[i].handles = h /\ job'[i].runtime = job[i].runtime
      /\ \A j \in Ids : j # i => job'[j] = job[j]
  BY <1>1, <1>2, JobStep
<1>4. /\ alive' \in [Ids -> SUBSET Processes] /\ alive'[i] = alive[i] \cup started
      /\ \A j \in Ids : j # i => alive'[j] = alive[j]
  BY <1>1, <1>2 DEF TypeOK
<1>5. children[i] = {} BY <1>2 DEF Shape, LeftBehind, Untracked
<1>6. TypeOK' BY <1>1, <1>2, <1>3, <1>4, <1>5 DEF TypeOK, Record
<1>7. Shape(i)'
  <2>1. alive'[i] \subseteq h BY <1>2, <1>4 DEF Shape, LeftBehind, h
  <2>2. phase = "editor" => h \subseteq {"reporter"} /\ job'[i].runtime = "local"
    BY <1>2, <1>3 DEF Shape, LeftBehind, h
  <2>3. phase = "track" /\ job'[i].runtime = "container" => h = {"container"}
    BY <1>2, <1>3 DEF Shape, LeftBehind, h
  <2>. QED BY <1>1, <1>2, <1>3, <2>1, <2>2, <2>3 DEF Shape, LeftBehind, Untracked, Phase
<1>8. \A j \in Ids : j # i => Kept(j) BY <1>1, <1>3, <1>4 DEF Kept
<1>. QED BY <1>1, <1>6, <1>7, <1>8, OneInv

LEMMA ReporterInv ==
  ASSUME IInv, NEW i \in Ids, spawn_reporter(i) PROVE IInv'
<1>1. PICK started \in {{}, {"reporter"}} : StartProcesses(i, started, "editor")
  BY DEF spawn_reporter
<1>2. started \in SUBSET Processes BY DEF Processes
<1>. QED BY <1>1, <1>2, StartsInv DEF spawn_reporter

LEMMA StartServerInv ==
  ASSUME IInv, NEW i \in Ids, StartServer(i) PROVE IInv'
<1>1. job[i].runtime \in {"local", "container", "ssh"} BY DEF IInv, TypeOK
<1>2. {Server(i)} \in SUBSET Processes BY <1>1 DEF Server, Processes
<1>3. job[i].runtime = "container" => Phase(i) = "prepare" /\ {Server(i)} = {"container"}
  BY DEF StartServer, Server
<1>. QED BY <1>2, <1>3, StartsInv DEF StartServer

LEMMA EditorFailsInv ==
  ASSUME IInv, NEW i \in Ids, EditorFails(i) PROVE IInv'
<1>1. /\ Phase(i) = "editor" /\ job' = [job EXCEPT ![i].phase = "failed", ![i].handles = {}]
      /\ UNCHANGED <<launch, up, counter, alive, children, containers, servers, renamed, removed, closing, closed, stuck>>
  BY DEF EditorFails
<1>2. TypeOK /\ Shape(i) /\ "failed" \in Phases
  BY DEF IInv, Phases
<1>3. /\ job' \in [Ids -> Record]
      /\ job'[i].phase = "failed" /\ job'[i].handles = {}
      /\ \A j \in Ids : j # i => job'[j] = job[j]
  BY <1>1, <1>2, DropStep
<1>4. TypeOK' BY <1>1, <1>2, <1>3 DEF TypeOK, Record
<1>5. Shape(i)' BY <1>1, <1>2, <1>3 DEF Shape, LeftBehind, Untracked, Phase
<1>6. \A j \in Ids : j # i => Kept(j) BY <1>1, <1>3 DEF Kept
<1>. QED BY <1>1, <1>4, <1>5, <1>6, OneInv

LEMMA TrackInv ==
  ASSUME IInv, NEW i \in Ids, Track(i) PROVE IInv'
<1>1. /\ Phase(i) = "track" /\ job' = [job EXCEPT ![i].phase = "list", ![i].handles = {}]
      /\ UNCHANGED <<launch, up, counter, alive, servers, renamed, removed, closing, closed, stuck>>
  BY DEF Track
<1>2. TypeOK /\ Shape(i) /\ "list" \in Phases
  BY DEF IInv, Phases
<1>3. /\ job' \in [Ids -> Record]
      /\ job'[i].phase = "list" /\ job'[i].handles = {}
      /\ \A j \in Ids : j # i => job'[j] = job[j]
  BY <1>1, <1>2, DropStep
<1>4. \/ /\ job[i].runtime = "container" /\ job[i].handles = {"container"}
         /\ containers' = containers \cup {i} /\ children' = children
      \/ /\ children' = [children EXCEPT ![i] = job[i].handles] /\ containers' = containers
  BY <1>1, <1>2 DEF Track, Shape, LeftBehind
<1>5. /\ children' \in [Ids -> SUBSET Processes] /\ containers' \subseteq Ids
      /\ \A j \in Ids : j # i => children'[j] = children[j] /\ (j \in containers' <=> j \in containers)
  BY <1>2, <1>4 DEF TypeOK
<1>6. /\ children[i] = {} /\ i \notin containers
      /\ \/ children'[i] = {} /\ i \in containers' /\ alive[i] \subseteq {"container"}
         \/ children'[i] = job[i].handles /\ i \notin containers' /\ alive[i] \subseteq job[i].handles
  BY <1>1, <1>2, <1>4 DEF TypeOK, Shape, LeftBehind, Untracked
<1>7. TypeOK'
  <2>1. \A j \in Ids : job'[j].handles # {} => children'[j] = {}
    BY <1>2, <1>3, <1>5 DEF TypeOK
  <2>. QED BY <1>1, <1>2, <1>3, <1>5, <2>1 DEF TypeOK, Record
<1>8. Shape(i)' BY <1>1, <1>2, <1>3, <1>6 DEF Shape, LeftBehind, Untracked, Phase
<1>9. \A j \in Ids : j # i => Kept(j) BY <1>1, <1>3, <1>5 DEF Kept
<1>. QED BY <1>1, <1>7, <1>8, <1>9, OneInv

LEMMA ListInv ==
  ASSUME IInv, NEW i \in Ids, List(i) PROVE IInv'
<1>1. /\ Phase(i) = "list" /\ To(i, "listed") /\ servers' = servers \cup {i}
      /\ UNCHANGED <<launch, up, counter, alive, children, containers, renamed, removed, closing, closed, stuck>>
  BY DEF List
<1>2. TypeOK /\ Shape(i) /\ "listed" \in Phases BY DEF IInv, Phases
<1>3. /\ job' \in [Ids -> Record]
      /\ job'[i].phase = "listed" /\ job'[i].handles = job[i].handles
      /\ \A j \in Ids : j # i => job'[j] = job[j]
  BY <1>1, <1>2, ToStep
<1>4. TypeOK' BY <1>1, <1>2, <1>3 DEF TypeOK, Record
<1>5. Shape(i)' BY <1>1, <1>2, <1>3 DEF Shape, LeftBehind, Untracked, Phase
<1>6. \A j \in Ids : j # i => Kept(j) BY <1>1, <1>3 DEF Kept
<1>. QED BY <1>1, <1>4, <1>5, <1>6, OneInv

LEMMA ExitsInv ==
  ASSUME IInv, NEW i \in Ids, NEW p \in Processes, Exits(i, p) PROVE IInv'
<1>1. /\ alive' = [alive EXCEPT ![i] = alive[i] \ {p}]
      /\ UNCHANGED <<launch, up, counter, job, children, containers, servers, renamed, removed, closing, closed, stuck>>
  BY DEF Exits
<1>2. TypeOK' BY <1>1 DEF IInv, TypeOK
<1>3. \A j \in Ids : Kept(j) BY <1>1 DEF Kept, IInv, TypeOK
<1>4. Unused' BY <1>1 DEF IInv, Unused, Phase
<1>5. \A j \in Ids : Shape(j)' BY <1>1, <1>3, KeptShape DEF IInv
<1>. QED BY <1>1, <1>2, <1>4, <1>5 DEF IInv

LEMMA PruneChildrenInv ==
  ASSUME IInv, NEW t \in Threads, PruneChildren(t) PROVE IInv'
<1>. DEFINE dead == {i \in Ids : primary_child_exited(i)}
<1>1. /\ up /\ removed[t] = {}
      /\ removed' = [removed EXCEPT ![t] = dead]
      /\ children' = [i \in Ids |-> IF i \in dead THEN {} ELSE children[i]]
      /\ alive' = [i \in Ids |-> IF i \in dead THEN alive[i] \ children[i] ELSE alive[i]]
      /\ UNCHANGED <<launch, up, counter, job, containers, servers, renamed, closing, closed, stuck>>
  BY DEF PruneChildren
<1>2. \A i \in dead : i \in Ids /\ children[i] # {} BY DEF primary_child_exited
<1>. HIDE DEF dead
<1>3. /\ removed' \in [Threads -> SUBSET Ids] /\ removed'[t] = dead
      /\ \A u \in Threads : u # t => removed'[u] = removed[u]
  BY <1>1, <1>2 DEF IInv, TypeOK
<1>4. \A i \in dead, u \in Threads : i \notin removed[u] BY <1>2 DEF IInv, Shape, LeftBehind
<1>5. TypeOK'
  <2>1. \A u, v \in Threads : u # v => removed'[u] \cap removed'[v] = {}
    BY <1>3, <1>4 DEF IInv, TypeOK
  <2>2. /\ children' \in [Ids -> SUBSET Processes] /\ alive' \in [Ids -> SUBSET Processes]
        /\ \A i \in Ids : job'[i].handles # {} => children'[i] = {}
    BY <1>1 DEF IInv, TypeOK
  <2>. QED BY <1>1, <1>3, <2>1, <2>2 DEF IInv, TypeOK
<1>6. Unused' BY <1>1 DEF IInv, Unused, Phase
<1>7. ASSUME NEW j \in Ids PROVE Shape(j)'
  <2>1. Shape(j) BY DEF IInv
  <2>2. CASE j \in dead
    <3>1. Phase(j) \in {"list", "listed"} /\ j \notin containers
      BY <1>2, <2>1, <2>2 DEF Shape, LeftBehind, Untracked, IInv, TypeOK, Phases, Phase
    <3>2. children'[j] = {} /\ alive'[j] = {}
      <4>1. children[j] # {} /\ j \notin stuck BY <1>2, <2>1, <2>2 DEF Shape
      <4>2. alive[j] \subseteq children[j] BY <2>1, <3>1, <4>1 DEF Shape, LeftBehind
      <4>. QED BY <1>1, <2>2, <4>2
    <3>. QED BY <1>1, <2>1, <3>1, <3>2 DEF Shape, LeftBehind, Untracked, Phase
  <2>3. CASE j \notin dead
    <3>1. Kept(j) BY <1>1, <1>3, <2>3 DEF Kept
    <3>. QED BY <1>1, <2>1, <3>1, KeptShape
  <2>. QED BY <2>2, <2>3
<1>. QED BY <1>1, <1>5, <1>6, <1>7 DEF IInv

LEMMA PruneServersInv ==
  ASSUME IInv, NEW t \in Threads, PruneServers(t) PROVE IInv'
<1>1. /\ servers' = servers \ removed[t] /\ renamed' = renamed \ removed[t]
      /\ removed' = [removed EXCEPT ![t] = {}]
      /\ UNCHANGED <<launch, up, counter, job, alive, children, containers, closing, closed, stuck>>
  BY DEF PruneServers
<1>2. TypeOK' BY <1>1 DEF IInv, TypeOK
<1>3. \A j \in Ids : Kept(j) BY <1>1 DEF Kept, IInv, TypeOK
<1>4. Unused' BY <1>1 DEF IInv, Unused, Phase
<1>5. \A j \in Ids : Shape(j)' BY <1>1, <1>3, KeptShape DEF IInv
<1>. QED BY <1>1, <1>2, <1>4, <1>5 DEF IInv

LEMMA RenameInv ==
  ASSUME IInv, NEW i \in Ids, rename(i) PROVE IInv'
<1>1. /\ i \in servers /\ renamed' = renamed \cup {i}
      /\ UNCHANGED <<launch, up, counter, job, alive, children, containers, servers, removed, closing, closed, stuck>>
  BY DEF rename
<1>2. TypeOK' BY <1>1 DEF IInv, TypeOK
<1>3. \A j \in Ids : Kept(j) BY <1>1 DEF Kept
<1>4. Unused' BY <1>1 DEF IInv, Unused, Phase
<1>5. \A j \in Ids : Shape(j)' BY <1>1, <1>3, KeptShape DEF IInv
<1>. QED BY <1>1, <1>2, <1>4, <1>5 DEF IInv

LEMMA CloseUnlistInv ==
  ASSUME IInv, NEW i \in Ids, CloseUnlist(i) PROVE IInv'
<1>1. /\ up /\ Phase(i) = "listed"
      /\ servers' = servers \ {i} /\ renamed' = renamed \ {i} /\ closing' = closing \cup {i}
      /\ UNCHANGED <<launch, up, counter, job, alive, children, containers, removed, closed, stuck>>
  BY DEF CloseUnlist
<1>2. TypeOK' BY <1>1 DEF IInv, TypeOK
<1>3. Shape(i)' BY <1>1 DEF IInv, Shape, LeftBehind, Untracked, Phase
<1>4. \A j \in Ids : j # i => Kept(j) BY <1>1 DEF Kept
<1>. QED BY <1>1, <1>2, <1>3, <1>4, OneInv

\* What close ends is all that runs of the server, unless docker fails it.
LEMMA CloseKillInv ==
  ASSUME IInv, NEW i \in Ids, CloseKill(i) PROVE IInv'
<1>1. /\ i \in closing /\ closing' = closing \ {i} /\ closed' = closed \cup {i}
      /\ UNCHANGED <<launch, up, counter, job, servers, renamed, removed>>
  BY DEF CloseKill
<1>2. TypeOK /\ Shape(i) /\ Phase(i) = "listed"
  BY <1>1 DEF IInv, TypeOK, Shape, LeftBehind, Untracked, Phases, Phase
<1>3. \/ /\ i \in containers /\ Killed(i) = {"container"}
         /\ containers' = containers \ {i} /\ children' = children
      \/ /\ i \notin containers /\ Killed(i) = children[i]
         /\ children' = [children EXCEPT ![i] = {}] /\ containers' = containers
  BY DEF CloseKill, Killed
<1>4. /\ children' \in [Ids -> SUBSET Processes] /\ children'[i] = {}
      /\ containers' \subseteq Ids /\ i \notin containers'
      /\ \A j \in Ids : j # i => /\ children'[j] = children[j]
                                 /\ (j \in containers' <=> j \in containers)
  BY <1>2, <1>3 DEF TypeOK, Shape
<1>5. /\ alive[i] \subseteq Killed(i) \cup LeftBehind(i)
      /\ i \in containers => alive[i] \subseteq {"container"}
  BY <1>2, <1>3 DEF Shape, LeftBehind
<1>6. /\ alive' \in [Ids -> SUBSET Processes] /\ stuck' \subseteq stuck \cup {i} /\ stuck \subseteq stuck'
      /\ alive'[i] \subseteq LeftBehind(i)'
      /\ \A j \in Ids : j # i => alive'[j] = alive[j]
  <2>1. CASE alive' = [alive EXCEPT ![i] = alive[i] \ Killed(i)] /\ stuck' = stuck
    BY <1>2, <1>5, <2>1 DEF TypeOK, LeftBehind
  <2>2. CASE i \in containers /\ stuck' = stuck \cup {i} /\ alive' = alive
    BY <1>2, <1>5, <2>2 DEF TypeOK, LeftBehind
  <2>. QED BY <2>1, <2>2 DEF CloseKill
<1>7. TypeOK' BY <1>1, <1>2, <1>4, <1>6 DEF TypeOK
<1>8. i \notin servers BY <1>1, <1>2 DEF Shape
<1>9. Shape(i)' BY <1>1, <1>2, <1>4, <1>6, <1>8 DEF Shape, Untracked, Phase
<1>10. \A j \in Ids : j # i => Kept(j) BY <1>1, <1>4, <1>6 DEF Kept
<1>. QED BY <1>1, <1>2, <1>7, <1>9, <1>10, OneInv

LEMMA StartInv == ASSUME IInv, Start PROVE IInv'
<1>1. /\ ~up /\ launch < MaxLaunches /\ launch' = launch + 1 /\ up' = TRUE /\ counter' = 0
      /\ UNCHANGED <<job, alive, children, containers, servers, renamed, removed, closing, closed, stuck>>
  BY DEF Start
<1>2. launch \in 0..MaxLaunches /\ launch' \in 1..MaxLaunches
  BY <1>1, SupervisorConstants DEF IInv, TypeOK
<1>3. TypeOK'
  <2>1. counter' \in 0..MaxSpawns /\ launch' \in 0..MaxLaunches
    BY <1>1, <1>2, SupervisorConstants
  <2>. QED BY <1>1, <2>1 DEF IInv, TypeOK
<1>4. \A j \in Ids : j[1] >= launch' => Phase(j) = "none"
  BY <1>1, <1>2 DEF IInv, Unused, Ids
<1>5. Unused' BY <1>1, <1>2, <1>4 DEF Unused, Phase, Ids
<1>6. ASSUME NEW j \in Ids PROVE Shape(j)'
  <2>1. Shape(j) /\ Phase(j) \in Phases BY DEF IInv, TypeOK, Phase
  <2>2. Phase(j) \in {"none", "failed"} BY <1>1, <2>1 DEF Shape, LeftBehind
  <2>3. j[1] = launch' => Phase(j) = "none" BY <1>1, <1>2, <1>4
  <2>. QED BY <1>1, <2>1, <2>2, <2>3 DEF Shape, LeftBehind, Untracked, Phase
<1>. QED BY <1>1, <1>2, <1>3, <1>5, <1>6 DEF IInv

LEMMA StopInv == ASSUME IInv, Stop PROVE IInv'
<1>1. /\ up' = FALSE
      /\ job' = [i \in Ids |-> [job[i] EXCEPT !.phase = IF @ = "none" THEN @ ELSE "failed", !.handles = {}]]
      /\ children' = [i \in Ids |-> {}] /\ containers' = {} /\ servers' = {} /\ renamed' = {}
      /\ removed' = [t \in Threads |-> {}] /\ closing' = {}
      /\ UNCHANGED <<launch, counter, alive, closed, stuck>>
  BY DEF Stop
<1>2. ASSUME NEW j \in Ids
      PROVE  /\ job'[j] \in Record /\ job'[j].handles = {}
             /\ job'[j].phase = IF Phase(j) = "none" THEN "none" ELSE "failed"
  <2>1. job[j] \in Record BY DEF IInv, TypeOK, Record
  <2>2. (IF Phase(j) = "none" THEN "none" ELSE "failed") \in Phases BY DEF Phases
  <2>3. job'[j] = [job[j] EXCEPT !.phase = IF Phase(j) = "none" THEN "none" ELSE "failed",
                                 !.handles = {}]
    BY <1>1, <2>1 DEF Phase, Record
  <2>. QED BY <2>1, <2>2, <2>3 DEF Record
<1>3. TypeOK'
  <2>1. job' \in [Ids -> Record] BY <1>1, <1>2
  <2>2. /\ children' \in [Ids -> SUBSET Processes] /\ removed' \in [Threads -> SUBSET Ids]
        /\ \A t \in Threads : removed'[t] = {}
    BY <1>1
  <2>. QED BY <1>1, <1>2, <2>1, <2>2 DEF IInv, TypeOK, Record
<1>4. Unused' BY <1>1, <1>2 DEF IInv, Unused, Phase
<1>5. ASSUME NEW j \in Ids PROVE Shape(j)'
  <2>1. Shape(j) BY DEF IInv
  <2>2. Untracked(j)' /\ job'[j].handles = {} /\ up' = FALSE BY <1>1, <1>2 DEF Untracked
  <2>3. CASE Phase(j) = "none" BY <1>1, <1>2, <2>1, <2>2, <2>3 DEF Shape, LeftBehind, Untracked, Phase
  <2>4. CASE Phase(j) # "none"
    <3>1. job'[j].phase = "failed" BY <1>2, <2>4
    <3>2. j \in closed' => alive'[j] \subseteq LeftBehind(j)' BY <1>1, <2>1 DEF Shape, LeftBehind
    <3>3. j \in stuck' => j \in closed' BY <1>1, <2>1 DEF Shape
    <3>. QED BY <2>2, <3>1, <3>2, <3>3 DEF Shape, LeftBehind, Untracked, Phase
  <2>. QED BY <2>3, <2>4
<1>. QED BY <1>1, <1>3, <1>4, <1>5 DEF IInv

LEMMA NextInv == IInv /\ [Next]_vars => IInv'
<1>. SUFFICES ASSUME IInv, [Next]_vars PROVE IInv' OBVIOUS
<1>1. CASE UNCHANGED vars
  <2>1. TypeOK' BY <1>1 DEF IInv, TypeOK, vars
  <2>2. Unused' BY <1>1 DEF IInv, Unused, Phase, vars
  <2>3. \A j \in Ids : Kept(j) BY <1>1 DEF Kept, vars
  <2>4. \A j \in Ids : Shape(j)' BY <1>1, <2>3, KeptShape DEF IInv, vars
  <2>. QED BY <1>1, <2>1, <2>2, <2>4 DEF IInv, vars
<1>2. CASE Next
  BY <1>2, SpawnInv, PrepareFailsInv, ReporterInv, StartServerInv, EditorFailsInv, TrackInv,
     ListInv, ExitsInv, PruneChildrenInv, PruneServersInv, RenameInv, CloseUnlistInv,
     CloseKillInv, StartInv, StopInv DEF Next
<1>. QED BY <1>1, <1>2

-----------------------------------------------------------------------------
(* The theorems.                                                           *)

\* The inductive invariant: which handles the supervisor holds at each point of a
\* server's life, and that ids are new.
THEOREM Invariance == Spec => []IInv
BY InitInv, NextInv, PTL DEF Spec

\* Types; that a handle is with one owner (spawn.rs:353); that a dead server is
\* taken out by one prune (spawn.rs:586); that a name goes with its entry.
THEOREM TypeCorrect == Spec => []TypeOK
<1>1. IInv => TypeOK BY DEF IInv
<1>. QED BY <1>1, Invariance, PTL

\* A closed server is on no list and has no process, whatever spawns, prunes and
\* dies beside the close, but for a container that docker failed to remove
\* (spawn.rs:565 ServerSupervisor::close, spawn.rs:642 remove_container).
THEOREM ClosedAreGone == Spec => []ClosedIsGone
<1>1. IInv => ClosedIsGone
  <2>. SUFFICES ASSUME IInv, NEW i \in Ids, i \in closed
                PROVE  /\ alive[i] \subseteq LeftBehind(i) /\ children[i] = {}
                       /\ i \notin containers /\ i \notin servers
    BY DEF ClosedIsGone, IInv, TypeOK
  <2>. QED BY DEF IInv, Shape
<1>. QED BY <1>1, Invariance, PTL

\* The running host can lose sight of two kinds of process of its own: the reporter
\* of a start that failed after it (spawn.rs:276, the early returns after it), and
\* the container of a close that docker failed (spawn.rs:642).
THEOREM NothingElseLeaks == Spec => []OnlyFailuresLeak
<1>1. IInv => OnlyFailuresLeak
  <2>. SUFFICES ASSUME IInv, NEW i \in Ids, up, i[1] = launch
                PROVE  alive[i] \subseteq children[i] \cup job[i].handles \cup LeftBehind(i)
                         \cup (IF i \in containers THEN {"container"} ELSE {})
                         \cup (IF Phase(i) = "failed" THEN {"reporter"} ELSE {})
    BY DEF OnlyFailuresLeak
  <2>1. Phase(i) \in Phases BY DEF IInv, TypeOK, Phase
  <2>. QED BY <2>1 DEF IInv, Shape, Phases
<1>. QED BY <1>1, Invariance, PTL

\* An id is given out once over all runs of the host (spawn.rs:557 with the launch
\* id of spawn.rs:831).
THEOREM IdsAreNew == Spec => IdsAreFresh
<1>1. IInv /\ [Next]_vars =>
        [\A i \in Ids : Phase(i) # "prepare" /\ job'[i].phase = "prepare" =>
           Phase(i) = "none" /\ alive[i] = {} /\ i \notin servers \cup closed]_vars
  <2>. SUFFICES ASSUME IInv, Next, NEW i \in Ids, Phase(i) # "prepare", job'[i].phase = "prepare"
                PROVE  Phase(i) = "none" /\ alive[i] = {} /\ i \notin servers \cup closed
    OBVIOUS
  <2>1. Phase(i) = "none" => alive[i] = {} /\ i \notin servers \cup closed
    BY DEF IInv, Shape, LeftBehind, Untracked
  <2>2. ASSUME NEW runtime \in Runtimes, spawn_with(runtime) PROVE Phase(i) = "none"
    <3>1. /\ up /\ counter < MaxSpawns
          /\ \E r : job' = [job EXCEPT ![allocate_server_id(counter + 1)] = r]
      BY <2>2 DEF spawn_with
    <3>2. i # allocate_server_id(counter + 1) => job'[i] = job[i]
      BY <3>1 DEF IInv, TypeOK
    <3>. QED BY <3>1, <3>2, NewId DEF Phase
  <2>3. ASSUME NEW j \in Ids, NEW p \in Phases \ {"prepare"}, NEW h \in SUBSET Processes,
               \/ job' = [job EXCEPT ![j].phase = p, ![j].handles = h]
               \/ job' = [job EXCEPT ![j].phase = p, ![j].handles = {}]
               \/ To(j, p)
        PROVE  FALSE
    <3>1. TypeOK BY DEF IInv
    <3>2. CASE job' = [job EXCEPT ![j].phase = p, ![j].handles = h] BY <3>1, <3>2, JobStep DEF Phase
    <3>3. CASE job' = [job EXCEPT ![j].phase = p, ![j].handles = {}] BY <3>1, <3>3, DropStep DEF Phase
    <3>4. CASE To(j, p) BY <3>1, <3>4, ToStep DEF Phase
    <3>. QED BY <2>3, <3>2, <3>3, <3>4
  <2>4. ASSUME NEW j \in Ids, PrepareFails(j) \/ List(j) PROVE FALSE
    BY <2>3, <2>4 DEF PrepareFails, List, Phases
  <2>5. ASSUME NEW j \in Ids, EditorFails(j) \/ Track(j) PROVE FALSE
    <3>1. {} \in SUBSET Processes OBVIOUS
    <3>. QED BY <2>3, <2>5, <3>1 DEF EditorFails, Track, Phases
  <2>6. ASSUME NEW j \in Ids, spawn_reporter(j) \/ StartServer(j) PROVE FALSE
    <3>1. PICK started \in SUBSET Processes, p \in {"editor", "track"} : StartProcesses(j, started, p)
      <4>1. CASE spawn_reporter(j) BY <4>1 DEF spawn_reporter, Processes
      <4>2. CASE StartServer(j)
        <5>1. {Server(j)} \in SUBSET Processes
          BY DEF Server, Processes, IInv, TypeOK
        <5>. QED BY <4>2, <5>1 DEF StartServer
      <4>. QED BY <2>6, <4>1, <4>2
    <3>2. job[j].handles \cup started \in SUBSET Processes BY DEF IInv, TypeOK
    <3>3. job' = [job EXCEPT ![j].phase = p, ![j].handles = job[j].handles \cup started]
      BY <3>1 DEF StartProcesses
    <3>. QED BY <2>3, <3>2, <3>3 DEF Phases
  <2>7. ASSUME Stop PROVE FALSE
    <3>1. job'[i].phase = IF Phase(i) = "none" THEN "none" ELSE "failed"
      BY <2>7 DEF Stop, Phase, IInv, TypeOK
    <3>. QED BY <3>1
  <2>8. CASE UNCHANGED job BY <2>8 DEF Phase
  <2>9. \/ \E p \in Processes, j \in Ids : Exits(j, p)
        \/ \E t \in Threads : PruneChildren(t) \/ PruneServers(t)
        \/ \E j \in Ids : rename(j) \/ CloseUnlist(j) \/ CloseKill(j)
        \/ Start
        => UNCHANGED job
    BY DEF Exits, PruneChildren, PruneServers, rename, CloseUnlist, CloseKill, Start
  <2>. QED BY <2>1, <2>2, <2>4, <2>5, <2>6, <2>7, <2>8, <2>9 DEF Next
<1>. QED BY <1>1, Invariance, PTL DEF Spec, IdsAreFresh

\* Looking at the list ends no editor that runs and unlists none (spawn.rs:586
\* prune_dead_local_servers, which asks after the last process of a group).
THEOREM PruneSpares == Spec => PruneSparesTheLiving
<1>1. IInv /\ [Next]_vars =>
        [\A t \in Threads :
           /\ PruneChildren(t) => \A i \in Ids : alive[i] \cap Primary \subseteq alive'[i]
           /\ PruneServers(t) => \A i \in servers \ servers' : alive[i] \cap Primary = {}]_vars
  <2>. SUFFICES ASSUME IInv, NEW t \in Threads
                PROVE  /\ PruneChildren(t) => \A i \in Ids : alive[i] \cap Primary \subseteq alive'[i]
                       /\ PruneServers(t) => \A i \in servers \ servers' : alive[i] \cap Primary = {}
    OBVIOUS
  <2>1. ASSUME PruneChildren(t), NEW i \in Ids PROVE alive[i] \cap Primary \subseteq alive'[i]
    <3>1. \/ primary_child_exited(i) /\ alive'[i] = alive[i] \ children[i]
          \/ alive'[i] = alive[i]
      BY <2>1 DEF PruneChildren
    <3>. QED BY <3>1 DEF primary_child_exited
  <2>2. ASSUME PruneServers(t), NEW i \in servers \ servers' PROVE alive[i] \cap Primary = {}
    <3>1. i \in Ids /\ i \in removed[t] /\ i \in servers
      BY <2>2 DEF PruneServers, IInv, TypeOK
    <3>2. Phase(i) = "listed"
      BY <3>1 DEF IInv, Shape, LeftBehind, Untracked, TypeOK, Phases, Phase
    <3>. QED BY <3>1, <3>2 DEF IInv, Shape, LeftBehind
  <2>. QED BY <2>1, <2>2
<1>. QED BY <1>1, Invariance, PTL DEF Spec, PruneSparesTheLiving
=============================================================================
