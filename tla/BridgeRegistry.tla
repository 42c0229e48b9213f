---------------------------- MODULE BridgeRegistry ----------------------------
(***************************************************************************)
(* The servers that phone home: the registry of crates/fleet-host/src/     *)
(* bridge.rs with its connection tasks, their grace and the liveness GC,   *)
(* and the windows of VS Code on the other end of the sockets              *)
(* (packages/fleet-bridge/src/extension.ts).                               *)
(*                                                                         *)
(* Time is discrete: every delay of the code is a number of ticks that     *)
(* runs down, and a tick passes when nothing is due.  What a task does     *)
(* under the registry's lock is one step, with what it does to its own     *)
(* socket; the event that tells the rail of a change comes later, in any   *)
(* order with the events of other tasks.                                   *)
(***************************************************************************)
EXTENDS Integers

CONSTANTS
  Windows,         \* the windows whose extension may phone home
  ServerOf,        \* the server id each of them was launched with
  LabelOf,         \* the label each of them was launched with
  None,            \* no entry, no socket, no retry
  BackoffStart,    \* BACKOFF_START_MS
  BackoffMax,      \* BACKOFF_MAX_MS
  PingInterval,    \* PING_INTERVAL_MS
  DropGrace,       \* BRIDGE_DROP_GRACE
  LivenessTimeout, \* LIVENESS_TIMEOUT
  MaxOpens,        \* bound on windows opened
  MaxBreaks,       \* bound on links that break, fall silent or lose their window
  MaxStarts,       \* bound on starts of the host
  MaxEdits         \* bound on what the person does to the list: renames, closes

ServerIds == {ServerOf[w] : w \in Windows}

\* Retries double, so from the start they reach the maximum; the grace outlasts
\* the first retry and the timeout the time between two pings.
ASSUME BridgeConstants ==
  /\ BackoffStart \in Nat \ {0} /\ BackoffMax \in Nat /\ BackoffStart <= BackoffMax
  /\ PingInterval \in Nat \ {0} /\ DropGrace \in Nat /\ LivenessTimeout \in Nat
  /\ BackoffStart < DropGrace
  /\ PingInterval <= LivenessTimeout
  /\ {MaxOpens, MaxBreaks, MaxStarts, MaxEdits} \subseteq Nat
  /\ DOMAIN ServerOf = Windows /\ DOMAIN LabelOf = Windows

VARIABLES
  host,       \* the host: [up, token, file], file the token the disk holds
  registry,   \* BridgeRegistry.inner: [ServerIds -> entry or None]
  next_generation,
  tasks,      \* run_bridge_connection of every link, until its grace is over
  win,        \* the extension of every window
  rail,       \* the rail: [list, unheard], the list it last asked for, and how many
              \* changes there are whose servers-changed it has not heard
  spent       \* the bounded actions so far

vars == <<host, registry, next_generation, tasks, win, rail, spent>>

\* A label is one an extension reports or the one the person gives.
Labels == {LabelOf[w] : w \in Windows} \cup {"renamed"}

\* quiet counts the ticks since last_seen, up to one that is too many.
Entry == [label : Labels, renamed : BOOLEAN, quiet : 0..(LivenessTimeout + 1),
          conns : SUBSET Nat]

\* A task serves its link, or its link has ended and it waits to unregister.
\* A link that does not hear brings no frame any more, not even its end.
Task == [gen : Nat, win : Windows, id : ServerIds, phase : {"serving", "grace"},
         wait : 0..DropGrace, hears : BOOLEAN]

\* homed is history: the window has registered with the entry there is.
Window == [open : BOOLEAN, token : Nat, socket : Nat \cup {None},
           retry : 0..BackoffMax, backoff : 1..BackoffMax, due : 0..PingInterval, homed : BOOLEAN]

\* None is none of the values it stands in for.
ASSUME NoneIsNew == None \notin Nat \cup Entry \cup Labels

Empty == [s \in ServerIds |-> None]

Closed == [open |-> FALSE, token |-> 0, socket |-> None, retry |-> 0,
           backoff |-> BackoffStart, due |-> PingInterval, homed |-> FALSE]

Init ==
  /\ host = [up |-> FALSE, token |-> 0, file |-> 0]
  /\ registry = Empty
  /\ next_generation = 0
  /\ tasks = {}
  /\ win = [w \in Windows |-> Closed]
  /\ rail = [list |-> Empty, unheard |-> 0]
  /\ spent = [opens |-> 0, breaks |-> 0, starts |-> 0, edits |-> 0]

Spend(what, bound) ==
  /\ spent[what] < bound
  /\ spent' = [spent EXCEPT ![what] = @ + 1]

Listed(s) == registry[s] # None

Conns(s) == IF Listed(s) THEN registry[s].conns ELSE {}

\* What the rail is shown of the registry.
servers(reg) ==
  [s \in ServerIds |-> IF reg[s] = None THEN None ELSE reg[s].label]

-----------------------------------------------------------------------------
(* The registry.                                                           *)

\* A label the person gave is pinned.
register(s, gen, label) ==
  IF Listed(s)
  THEN [registry[s] EXCEPT !.label = IF registry[s].renamed THEN @ ELSE label,
                           !.quiet = 0, !.conns = @ \cup {gen}]
  ELSE [label |-> label, renamed |-> FALSE, quiet |-> 0, conns |-> {gen}]

\* A faulty drop that takes the entry with any of its connections.
UnregisterEntry(s, gen) == IF gen \in Conns(s) THEN None ELSE registry[s]

\* The entry goes with its last connection; a generation it does not have is stale.
unregister(s, gen) ==
  IF gen \notin Conns(s) THEN registry[s]
  ELSE IF Conns(s) = {gen} THEN None ELSE [registry[s] EXCEPT !.conns = @ \ {gen}]

\* A faulty touch that keeps last_seen at the registration.
TouchNothing(s) == registry[s]

touch(s) == IF Listed(s) THEN [registry[s] EXCEPT !.quiet = 0] ELSE None

\* What register and unregister say of the list: that it is another one.
register_changes(s, label) == ~Listed(s) \/ (~registry[s].renamed /\ registry[s].label # label)

unregister_changes(s, gen) == Conns(s) = {gen}

\* The registry changes under its lock, and if that changes the list the task will
\* send an event when it has let the lock go.
Becomes(after, changed) ==
  /\ registry' = after
  /\ rail' = IF changed THEN [rail EXCEPT !.unheard = @ + 1] ELSE rail

\* The event is sent and heard, whenever its task gets there.  The list it carries
\* may be an old one: the rail passes it over and asks for the list there is.
RailHears ==
  /\ rail.unheard > 0
  /\ rail' = [list |-> servers(registry), unheard |-> rail.unheard - 1]
  /\ UNCHANGED <<host, registry, next_generation, tasks, win, spent>>

-----------------------------------------------------------------------------
(* The windows.                                                            *)

nextBackoff(delay) == IF 2 * delay <= BackoffMax THEN 2 * delay ELSE BackoffMax

\* reconnect: the socket is gone, the next attempt is set and its successor
\* takes longer.
reconnect(window) ==
  [window EXCEPT !.socket = None, !.retry = window.backoff, !.backoff = nextBackoff(@)]

\* The windows whose live socket is among gens see it close.
SeeClose(gens) ==
  [w \in Windows |-> IF win[w].open /\ win[w].socket \in gens THEN reconnect(win[w]) ELSE win[w]]

\* run_bridge_connection after its loop: the grace begins.
Ended(t) == [t EXCEPT !.phase = "grace", !.wait = DropGrace]

TasksEnd(ended) == (tasks \ ended) \cup {Ended(t) : t \in ended}

ServingOf(w) == {t \in tasks : t.phase = "serving" /\ t.gen = win[w].socket}

Open(w) ==
  /\ host.up /\ ~win[w].open
  /\ Spend("opens", MaxOpens)
  /\ win' = [win EXCEPT ![w] = [Closed EXCEPT !.open = TRUE, !.token = host.token]]
  /\ UNCHANGED <<host, registry, next_generation, tasks, rail>>

\* dispose, or the end of the process: the host sees the socket close.
Close(w) ==
  /\ win[w].open
  /\ win' = [win EXCEPT ![w] = Closed]
  /\ tasks' = TasksEnd({t \in ServingOf(w) : t.hears})
  /\ UNCHANGED <<host, registry, next_generation, rail, spent>>

Due(w) == win[w].open /\ win[w].socket = None /\ win[w].retry = 0

\* connect, the hello on open, and the host's registration of it.  A window of
\* another token is turned away, and its socket had been open.
Connect(w) ==
  LET s == ServerOf[w]
  IN  /\ host.up /\ Due(w)
      /\ IF win[w].token = host.token
         THEN /\ win' = [win EXCEPT ![w].socket = next_generation, ![w].backoff = BackoffStart,
                                    ![w].due = PingInterval, ![w].homed = TRUE]
              /\ tasks' = tasks \cup {[gen |-> next_generation, win |-> w, id |-> s,
                                       phase |-> "serving", wait |-> 0, hears |-> TRUE]}
              /\ next_generation' = next_generation + 1
              /\ Becomes([registry EXCEPT ![s] = register(s, next_generation, LabelOf[w])],
                         register_changes(s, LabelOf[w]))
         ELSE /\ win' = [win EXCEPT ![w] = reconnect([@ EXCEPT !.backoff = BackoffStart])]
              /\ UNCHANGED <<registry, next_generation, tasks, rail>>
      /\ UNCHANGED <<host, spent>>

ConnectFails(w) ==
  /\ ~host.up /\ Due(w)
  /\ win' = [win EXCEPT ![w] = reconnect(@)]
  /\ UNCHANGED <<host, registry, next_generation, tasks, rail, spent>>

PingDue(w) == win[w].open /\ win[w].socket # None /\ win[w].due = 0

\* The heartbeat; the host hears it unless the link has fallen silent.
Ping(w) ==
  LET heard == {t.id : t \in {x \in ServingOf(w) : x.hears}}
  IN  /\ PingDue(w)
      /\ win' = [win EXCEPT ![w].due = PingInterval]
      /\ registry' = [s \in ServerIds |-> IF s \in heard THEN touch(s) ELSE registry[s]]
      /\ UNCHANGED <<host, next_generation, tasks, rail, spent>>

-----------------------------------------------------------------------------
(* The links.                                                              *)

\* A link breaks and both its ends see it.
Drop(t) ==
  /\ t.phase = "serving" /\ t.hears
  /\ Spend("breaks", MaxBreaks)
  /\ tasks' = TasksEnd({t})
  /\ win' = SeeClose({t.gen})
  /\ UNCHANGED <<host, registry, next_generation, rail>>

\* A link falls silent: half-open, or a machine that sleeps.
Silence(t) ==
  /\ t.phase = "serving" /\ t.hears
  /\ Spend("breaks", MaxBreaks)
  /\ tasks' = (tasks \ {t}) \cup {[t EXCEPT !.hears = FALSE]}
  /\ UNCHANGED <<host, registry, next_generation, win, rail>>

\* The window finds its silent link, or the host it has lost, gone.
Notice(w) ==
  /\ win[w].open /\ win[w].socket # None
  /\ ~\E t \in ServingOf(w) : t.hears
  /\ win' = [win EXCEPT ![w] = reconnect(@)]
  /\ UNCHANGED <<host, registry, next_generation, tasks, rail, spent>>

\* The registry has dropped the sender of a link: its loop ends.
Orphaned(t) == t.phase = "serving" /\ t.gen \notin Conns(t.id)

OrphanEnds(t) ==
  /\ Orphaned(t)
  /\ tasks' = TasksEnd({t})
  /\ win' = IF t.hears THEN SeeClose({t.gen}) ELSE win
  /\ UNCHANGED <<host, registry, next_generation, rail, spent>>

\* The grace of a link is over.
GraceOver(t) ==
  /\ t.phase = "grace" /\ t.wait = 0
  /\ tasks' = tasks \ {t}
  /\ Becomes([registry EXCEPT ![t.id] = unregister(t.id, t.gen)], unregister_changes(t.id, t.gen))
  /\ UNCHANGED <<host, next_generation, win, spent>>

-----------------------------------------------------------------------------
(* The host.                                                               *)

\* A faulty GC that trusts a connection while its task serves it.
StaleIfUnserved(s) ==
  /\ Listed(s) /\ registry[s].quiet > LivenessTimeout
  /\ ~\E t \in tasks : t.id = s /\ t.phase = "serving"

Stale(s) == Listed(s) /\ registry[s].quiet > LivenessTimeout

\* The windows of the servers gone have to come home again.
Homeless(gone) ==
  [w \in Windows |-> IF ServerOf[w] \in gone THEN [win[w] EXCEPT !.homed = FALSE] ELSE win[w]]

reap_stale ==
  /\ \E s \in ServerIds : Stale(s)
  /\ Becomes([s \in ServerIds |-> IF Stale(s) THEN None ELSE registry[s]], TRUE)
  /\ win' = Homeless({s \in ServerIds : Stale(s)})
  /\ UNCHANGED <<host, next_generation, tasks, spent>>

forget(s) ==
  /\ host.up /\ Listed(s)
  /\ Spend("edits", MaxEdits)
  /\ Becomes([registry EXCEPT ![s] = None], TRUE)
  /\ win' = Homeless({s})
  /\ UNCHANGED <<host, next_generation, tasks>>

rename(s) ==
  /\ host.up /\ Listed(s)
  /\ Spend("edits", MaxEdits)
  /\ Becomes([registry EXCEPT ![s].label = "renamed", ![s].renamed = TRUE], TRUE)
  /\ UNCHANGED <<host, next_generation, tasks, win>>

\* A faulty start that makes a token of its own every time.
FreshToken == spent.starts + 1

launch_token_from_path == IF host.file = 0 THEN spent.starts + 1 ELSE host.file

Start ==
  /\ ~host.up
  /\ Spend("starts", MaxStarts)
  /\ host' = [up |-> TRUE, token |-> launch_token_from_path, file |-> launch_token_from_path]
  /\ UNCHANGED <<registry, next_generation, tasks, win, rail>>

\* The host ends with its registry and every task; the sockets close.
Stop ==
  /\ host.up
  /\ host' = [host EXCEPT !.up = FALSE]
  /\ registry' = Empty /\ tasks' = {} /\ rail' = [list |-> Empty, unheard |-> 0]
  /\ win' = [w \in Windows |->
       [SeeClose({t.gen : t \in {x \in tasks : x.hears}})[w] EXCEPT !.homed = FALSE]]
  /\ UNCHANGED <<next_generation, spent>>

Down(n) == IF n = 0 THEN 0 ELSE n - 1

\* Time passes when nothing is due: timers of a process fire, then the next run.
Tick ==
  /\ ~\E w \in Windows : Due(w) \/ PingDue(w)
  /\ ~\E t \in tasks : Orphaned(t) \/ (t.phase = "grace" /\ t.wait = 0)
  /\ rail.unheard = 0
  /\ win' = [w \in Windows |->
       IF ~win[w].open THEN win[w]
       ELSE [win[w] EXCEPT !.retry = Down(@), !.due = IF win[w].socket = None THEN @ ELSE Down(@)]]
  /\ tasks' = {[t EXCEPT !.wait = Down(@)] : t \in tasks}
  /\ registry' = [s \in ServerIds |->
       IF Listed(s) /\ registry[s].quiet <= LivenessTimeout
       THEN [registry[s] EXCEPT !.quiet = @ + 1] ELSE registry[s]]
  /\ UNCHANGED <<host, next_generation, rail, spent>>

Next ==
  \/ \E w \in Windows : Open(w)
  \/ \E w \in Windows : Close(w)
  \/ \E w \in Windows : Connect(w)
  \/ \E w \in Windows : ConnectFails(w)
  \/ \E w \in Windows : Ping(w)
  \/ \E w \in Windows : Notice(w)
  \/ \E t \in tasks : Drop(t)
  \/ \E t \in tasks : Silence(t)
  \/ \E t \in tasks : OrphanEnds(t)
  \/ \E t \in tasks : GraceOver(t)
  \/ RailHears
  \/ reap_stale
  \/ \E s \in ServerIds : forget(s)
  \/ \E s \in ServerIds : rename(s)
  \/ Start
  \/ Stop
  \/ Tick

Spec == Init /\ [][Next]_vars

\* Timers and tasks run, time passes, the GC comes round, and a window whose
\* heartbeat goes nowhere finds out in the end.
Fairness ==
  /\ WF_vars(Tick \/ (\E w \in Windows : Connect(w) \/ ConnectFails(w) \/ Ping(w))
                  \/ (\E t \in tasks : OrphanEnds(t) \/ GraceOver(t)) \/ RailHears)
  /\ WF_vars(reap_stale)
  /\ \A w \in Windows : WF_vars(Notice(w))

FairSpec == Spec /\ Fairness
-----------------------------------------------------------------------------
(* Properties.                                                             *)

\* Every variable holds what its type can hold.
TypeOK ==
  /\ host \in [up : BOOLEAN, token : Nat, file : Nat]
  /\ registry \in [ServerIds -> Entry \cup {None}]
  /\ next_generation \in Nat
  /\ tasks \in SUBSET Task
  /\ win \in [Windows -> Window]
  /\ spent \in [opens : Nat, breaks : Nat, starts : Nat, edits : Nat]
  /\ rail \in [list : [ServerIds -> Labels \cup {None}], unheard : Nat]

\* No entry outlives its tasks: every connection of an entry has one task that
\* serves it or will unregister it, and an entry has a connection.
EntriesHaveTasks ==
  \A s \in ServerIds :
    Listed(s) =>
      /\ Conns(s) # {}
      /\ \A g \in Conns(s) : \E t \in tasks : t.gen = g /\ t.id = s
      /\ \A t, u \in tasks : t.gen = u.gen => t = u

\* While the host runs, a server with a window that has registered and is still
\* open leaves the list, or loses the name it was given, only by a silence longer
\* than the timeout or by the person's hand: no reconnect shows.
ReconnectsDoNotShow ==
  [][\A s \in ServerIds :
       /\ Listed(s) /\ host.up /\ host'.up
       /\ ~forget(s) /\ ~rename(s) /\ registry[s].quiet <= LivenessTimeout
       /\ \E w \in Windows : ServerOf[w] = s /\ win[w].open /\ win[w].homed
       => registry'[s] # None /\ (registry[s].renamed => registry'[s].label = registry[s].label)]_vars

\* The GC forgets no server of which a window has a link that works.
WorkingLinksAreNotReaped ==
  [][reap_stale =>
       \A w \in Windows : (\E t \in ServingOf(w) : t.hears /\ ~Orphaned(t)) =>
         registry'[ServerOf[w]] # None]_vars

\* However the tasks that change the registry overtake each other on the way to
\* their events, once the rail has heard of every change it has the list there is:
\* what register, unregister and the rest say of a change misses none that shows.
RailIsTold == rail.unheard = 0 => rail.list = servers(registry)

\* A server of which every window is gone is forgotten, half-open links or not.
GoneServersGo ==
  \A s \in ServerIds :
    <>[](\A w \in Windows : ServerOf[w] = s => ~win[w].open) => <>[](registry[s] = None)

\* A window that stays open is listed, after any restart of the host that leaves
\* the token's file in place.
OpenWindowsAreListed ==
  \A w \in Windows : <>[](win[w].open /\ host.up) => <>[](registry[ServerOf[w]] # None)
=============================================================================
