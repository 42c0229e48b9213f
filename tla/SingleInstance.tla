--------------------------- MODULE SingleInstance ---------------------------
(***************************************************************************)
(* The guards that keep a second Hub and a second hook receiver from       *)
(* starting: the lockfile of lockfile.rs, the order in which lib.rs takes  *)
(* the lock, the port and the socket, and bind_reclaiming of serve.rs.     *)
(*                                                                         *)
(* Processes start once, at any time, and may be killed between any two    *)
(* steps; what they leave in the file system stays.  No process id is      *)
(* given out twice.                                                        *)
(***************************************************************************)
EXTENDS FiniteSets

CONSTANTS
  Hubs,       \* processes that run a Hub, alone or inside the host
  Receivers,  \* processes of fleet-reporter --serve, all for one socket
  None

Processes == Hubs \cup Receivers

ASSUME InstanceConstants == Hubs \cap Receivers = {} /\ None \notin Processes

VARIABLES
  pc,       \* where each process is
  retried,  \* the Hubs in the second of the two attempts
  alive,
  lock,     \* the lockfile at its path, by the process that created it
  written,  \* the lockfiles, wherever they are, that record a pid
  port,     \* who listens on the WebSocket port
  socket,   \* the Hub's socket file, by the process that bound it
  hooks,    \* the receiver's socket file, likewise
  raced,    \* history: two starts have overlapped
  met       \* history: Hubs that another Hub was there with while they started

files == <<lock, written, port, socket, hooks>>
history == <<raced, met>>
vars == <<pc, retried, alive, lock, written, port, socket, hooks, raced, met>>

Starting == {"create", "examine", "remove", "write", "open", "listen", "unlink", "bind",
             "drop", "drop_remove", "hook_bind", "hook_probe", "hook_remove", "hook_rebind"}
Holding == {"open", "listen", "unlink", "bind", "serving"}

\* An InstanceLock is held.
Holders == {p \in Hubs : pc[p] \in Holding}

\* Something of the Hub is there.
Present == {p \in Hubs \cap alive : pc[p] \in Starting \cup {"serving"}}

Init ==
  /\ pc = [p \in Processes |-> "new"] /\ retried = {} /\ alive = {}
  /\ lock = None /\ written = {} /\ port = None /\ socket = None /\ hooks = None
  /\ raced = FALSE /\ met = {}

Goes(p, there) == pc' = [pc EXCEPT ![p] = there]

Start(p, peers, there) ==
  /\ pc[p] = "new" /\ alive' = alive \cup {p}
  /\ Goes(p, there)
  /\ raced' = (raced \/ \E q \in peers : pc[q] \in Starting)
  /\ UNCHANGED <<retried, files>>

Steps(p, from) == p \in alive /\ pc[p] = from /\ UNCHANGED <<alive, raced, met>>
-----------------------------------------------------------------------------
(* A Hub: the lock.                                                        *)

StartHub(p) ==
  /\ Start(p, Hubs, "create")
  /\ met' = IF Present = {} THEN met ELSE met \cup Present \cup {p}

\* create_new: the file is there from here on, and empty.
Create(p) ==
  /\ Steps(p, "create")
  /\ IF lock = None THEN lock' = p /\ Goes(p, "write") ELSE UNCHANGED lock /\ Goes(p, "examine")
  /\ UNCHANGED <<retried, written, port, socket, hooks>>

\* The pid goes into the file that was created, which may be gone from its path.
Write(p) ==
  /\ Steps(p, "write") /\ Goes(p, "open") /\ written' = written \cup {p}
  /\ UNCHANGED <<retried, lock, port, socket, hooks>>

\* A faulty look that takes an unreadable lock for a running Hub's.
UnreadableRuns == IF lock \in written \cap alive THEN lock
                  ELSE IF lock # None /\ lock \notin written THEN lock ELSE None

\* read_pid and pid_is_alive: who is known to run.
Running == IF lock \in written \cap alive THEN lock ELSE None

\* The holder runs, or has given way to another once already: refuse.
Examine(p) ==
  /\ Steps(p, "examine")
  /\ Goes(p, IF Running = None /\ p \notin retried THEN "remove" ELSE "refused")
  /\ UNCHANGED <<retried, files>>

Reclaim(p) ==
  /\ Steps(p, "remove") /\ Goes(p, "create")
  /\ lock' = None /\ retried' = retried \cup {p}
  /\ UNCHANGED <<written, port, socket, hooks>>
-----------------------------------------------------------------------------
(* A Hub: the port and the socket.                                         *)

\* The log is opened and replayed.
Open(p) ==
  /\ Steps(p, "open") /\ (Goes(p, "listen") \/ Goes(p, "drop"))
  /\ UNCHANGED <<retried, files>>

\* A faulty start that clears the socket whether or not it got the port.
ListenAnyway(p) ==
  /\ Steps(p, "listen") /\ Goes(p, "unlink")
  /\ port' = IF port = None THEN p ELSE port
  /\ UNCHANGED <<retried, lock, written, socket, hooks>>

Listen(p) ==
  /\ Steps(p, "listen")
  /\ IF port = None THEN port' = p /\ Goes(p, "unlink") ELSE UNCHANGED port /\ Goes(p, "drop")
  /\ UNCHANGED <<retried, lock, written, socket, hooks>>

Unlink(p) ==
  /\ Steps(p, "unlink") /\ Goes(p, "bind") /\ socket' = None
  /\ UNCHANGED <<retried, lock, written, port, hooks>>

Bind(p) ==
  /\ Steps(p, "bind")
  /\ IF socket = None THEN socket' = p /\ UNCHANGED port /\ Goes(p, "serving")
     ELSE UNCHANGED socket /\ port' = None /\ Goes(p, "drop")
  /\ UNCHANGED <<retried, lock, written, hooks>>

\* The lock is dropped: removed if it records this pid still.
DropReads(p) ==
  /\ Steps(p, "drop")
  /\ Goes(p, IF lock = p THEN "drop_remove" ELSE "ended")
  /\ UNCHANGED <<retried, files>>

DropRemoves(p) ==
  /\ Steps(p, "drop_remove") /\ Goes(p, "ended") /\ lock' = None
  /\ UNCHANGED <<retried, written, port, socket, hooks>>
-----------------------------------------------------------------------------
(* A receiver.                                                             *)

StartReceiver(p) == Start(p, Receivers, "hook_bind") /\ UNCHANGED met

HookBind(p) ==
  /\ Steps(p, "hook_bind")
  /\ IF hooks = None THEN hooks' = p /\ Goes(p, "serving") ELSE UNCHANGED hooks /\ Goes(p, "hook_probe")
  /\ UNCHANGED <<retried, lock, written, port, socket>>

\* A faulty probe that only looks for the file.
ProbeFile(p) ==
  /\ Steps(p, "hook_probe") /\ Goes(p, "hook_remove")
  /\ UNCHANGED <<retried, files>>

HookProbe(p) ==
  /\ Steps(p, "hook_probe")
  /\ Goes(p, IF hooks \in alive THEN "refused" ELSE "hook_remove")
  /\ UNCHANGED <<retried, files>>

HookRemove(p) ==
  /\ Steps(p, "hook_remove") /\ Goes(p, "hook_rebind") /\ hooks' = None
  /\ UNCHANGED <<retried, lock, written, port, socket>>

HookRebind(p) ==
  /\ Steps(p, "hook_rebind")
  /\ IF hooks = None THEN hooks' = p /\ Goes(p, "serving") ELSE UNCHANGED hooks /\ Goes(p, "ended")
  /\ UNCHANGED <<retried, lock, written, port, socket>>
-----------------------------------------------------------------------------
\* Killed; what it listened on is free.
Killed(p) ==
  /\ p \in alive /\ alive' = alive \ {p}
  /\ Goes(p, "dead")
  /\ port' = IF port = p THEN None ELSE port
  /\ UNCHANGED <<retried, lock, written, socket, hooks, history>>

HubStep(p) ==
  \/ StartHub(p) \/ Create(p) \/ Write(p) \/ Examine(p) \/ Reclaim(p)
  \/ Open(p) \/ Listen(p) \/ Unlink(p) \/ Bind(p) \/ DropReads(p) \/ DropRemoves(p)

ReceiverStep(p) == StartReceiver(p) \/ HookBind(p) \/ HookProbe(p) \/ HookRemove(p) \/ HookRebind(p)

Next ==
  \/ \E p \in Hubs : HubStep(p)
  \/ \E p \in Receivers : ReceiverStep(p)
  \/ \E p \in Processes : Killed(p)

Spec == Init /\ [][Next]_vars
-----------------------------------------------------------------------------
TypeOK ==
  /\ pc \in [Processes -> Starting \cup {"new", "serving", "refused", "ended", "dead"}]
  /\ retried \subseteq Hubs /\ alive \subseteq Processes
  /\ lock \in Hubs \cup {None} /\ written \subseteq Hubs
  /\ port \in Hubs \cup {None} /\ socket \in Hubs \cup {None} /\ hooks \in Receivers \cup {None}
  /\ raced \in BOOLEAN /\ met \subseteq Hubs

\* No start, however it races with others and wherever it fails, takes the port or the
\* socket file from a Hub that serves: the socket is cleared only by the process that
\* got the port (run_unix_listener, after run_ws_listener).
ServingHubKeepsItsSocket ==
  \A p \in Hubs : pc[p] = "serving" => port = p /\ socket = p

\* Unless two starts have overlapped, one process at most holds the lock, the lockfile
\* records it, and a receiver that serves is the one the socket leads to.
OneOfEachUnlessRaced ==
  ~raced =>
    /\ \A p \in Holders : Holders = {p} /\ lock = p /\ p \in written
    /\ \A r \in Receivers : pc[r] = "serving" => hooks = r

\* A Hub is refused only if another one was there while it started: what a killed Hub
\* leaves, whole or half-written, wedges nobody out (lockfile.rs, the reclaim).
RefusedByTheLiving == \A p \in Hubs : pc[p] = "refused" => p \in met

\* "Holding this value means this process is the sole Hub." (InstanceLock)
SoleHub == \A p, q \in Holders : p = q
=============================================================================
