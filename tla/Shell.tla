-------------------------------- MODULE Shell --------------------------------
(***************************************************************************)
(* The rail and the shell: the server list and the selection of            *)
(* ui/main.js, the selection and the editor surfaces of mux.rs and         *)
(* surface.rs, and what passes between them.                               *)
(*                                                                         *)
(* The rail's script asks the host by calls that the main thread answers   *)
(* in their order, and goes on when the answer is there; the host tells    *)
(* the rail by scripts it evaluates in it, which are not ordered with the  *)
(* answers.  Spawns run on workers.                                        *)
(***************************************************************************)
EXTENDS Integers, Sequences, FiniteSets, SequencesExt

CONSTANTS
  External,    \* servers that phone home by themselves
  Spawnable,   \* ids the supervisor will give out
  MaxActs,     \* bound on what the person does
  MaxChanges   \* bound on servers and inbox tabs that come and go

Ids == External \cup Spawnable

None == 0

ASSUME ShellConstants ==
  /\ Ids \subseteq Nat \ {None} /\ External \cap Spawnable = {}
  /\ MaxActs \in Nat /\ MaxChanges \in Nat

VARIABLES
  listed,    \* merged_servers: the ids of the supervisor and the bridge registry
  selected,  \* ShellState.selected
  surfaces,  \* the ids of SurfaceRegistry.persistent
  work,      \* how far the spawn of each id is
  ui,        \* the rail's state
  tabs,      \* the session ids of the rail's inbox
  answers,   \* given by the host, not yet taken up by the rail
  scripts,   \* evaluated in the rail, not yet run
  acts, changes,  \* for the bounds
  silent,    \* history: ids that went without a word
  missed     \* history: a server that the rail wanted to open was gone

backend == <<listed, selected, surfaces>>
bounds == <<acts, changes, silent>>
shellVars == <<listed, selected, surfaces, work, ui, tabs, answers, scripts, acts, changes, silent, missed>>

Least(set) == CHOOSE i \in set : \A j \in set : i <= j
-----------------------------------------------------------------------------
(* The host.  Whatever it does ends with the backend's state, the scripts  *)
(* it evaluates in the rail, and an answer.                                *)

Host(l, sel, surf, says, value) ==
  [listed |-> l, selected |-> sel, surfaces |-> surf, says |-> says, value |-> value]

Nothing(value) == Host(listed, selected, surfaces, <<>>, value)

\* A faulty selection of a shown server that leaves the selection alone.
SelectOnce(i, l, surf, says) ==
  IF i \in l \ surf THEN Host(l, i, surf \cup {i}, Append(says, "sync"), TRUE)
  ELSE Host(l, selected, surf, says, i \in l)

\* select_impl: what is not listed is not selected.
select(i, l, surf, says) ==
  IF i \in l THEN Host(l, i, surf \cup {i}, Append(says, "sync"), TRUE)
  ELSE Host(l, selected, surf, says, FALSE)

close_server_by_id(i) ==
  LET rest == listed \ {i}
      surf == surfaces \ {i}
  IN  IF selected # i THEN Host(rest, selected, surf, <<"changed">>, TRUE)
      ELSE IF rest = {} THEN Host(rest, None, surf, <<"changed", "sync">>, TRUE)
      ELSE select(Least(rest), rest, surf, <<"changed">>)

Handle(call) ==
  CASE call.cmd = "get_servers" -> Nothing(listed)
    [] call.cmd = "selected_server" -> Nothing(selected)
    [] call.cmd = "select_server" -> select(call.id, listed, surfaces, <<>>)
    [] call.cmd = "close_server" -> close_server_by_id(call.id)
    [] call.cmd = "none" -> Nothing(None)
-----------------------------------------------------------------------------
(* The rail.  A stretch of script between two awaits takes its state u to  *)
(* a new one, and may make a call or ask for a spawn.  A call is handled   *)
(* when it is made: what the host does between the two could as well have  *)
(* come before, for the rail only learns of it from answers and scripts.   *)

\* Where the script goes on with an answer, and what it has kept until then.
Then == [at |-> "nowhere", id |-> None, last |-> TRUE, list |-> {},
         previous |-> [selected |-> None, desired |-> None], after |-> "nothing"]

NoCall == [cmd |-> "none", id |-> None, then |-> Then]

ShellInit ==
  /\ listed \in SUBSET External /\ selected = None /\ surfaces = {}
  /\ work = [i \in Spawnable |-> "none"]
  /\ ui = [servers |-> {}, pending |-> {}, selected |-> None, desired |-> None,
           spawning |-> FALSE, closing |-> {}]
  /\ tabs \in SUBSET External
  /\ answers = <<[then |-> [Then EXCEPT !.at = "servers"], value |-> listed]>>
  /\ scripts = <<>>
  /\ acts = 0 /\ changes = 0 /\ silent = {} /\ missed = FALSE

Calling(u, call) == [ui |-> u, call |-> call, spawn |-> FALSE]

Ends(u) == Calling(u, NoCall)

displayed(u, t) == u.servers \cup u.pending \cup t

selectServer(u, i, then) ==
  Calling([u EXCEPT !.selected = i, !.desired = None],
       [cmd |-> "select_server", id |-> i,
        then |-> [then EXCEPT !.at = "opened",
                              !.previous = [selected |-> u.selected, desired |-> u.desired]]])

\* A faulty refresh that does not start while another is under way.
RefreshIfNone(u, after, i) ==
  Calling(u, IF \E k \in DOMAIN answers : answers[k].then.at \in {"servers", "which"} THEN NoCall
          ELSE [cmd |-> "get_servers", id |-> None,
                then |-> [Then EXCEPT !.at = "servers", !.after = after, !.id = i]])

refreshServers(u, after, i) ==
  Calling(u, [cmd |-> "get_servers", id |-> None,
           then |-> [Then EXCEPT !.at = "servers", !.after = after, !.id = i]])

clearLocalSelection(u, i) ==
  [u EXCEPT !.selected = IF @ = i THEN None ELSE @, !.desired = IF @ = i THEN None ELSE @]

spawnServer(u) == [ui |-> [u EXCEPT !.spawning = TRUE], call |-> NoCall, spawn |-> ~u.spawning]

\* What comes after a refresh, or after the selection a spawn makes.
Done(u, then) ==
  CASE then.after = "spawn" -> Ends([u EXCEPT !.spawning = FALSE])
    [] then.after = "close" -> Ends([u EXCEPT !.closing = @ \ {then.id}])
    [] then.after = "retry" -> spawnServer(u)
    [] then.after = "nothing" -> Ends(u)

\* Whether the editor of the row is to be opened: it was asked for before it was
\* there, or the host shows another one.
NeedsOpen(u, next, backendSelected) ==
  next \in u.servers /\ (u.desired = next \/ backendSelected # next)

\* The rest of refreshServers, unless a later refresh has been started.
Refreshed(u, then, backendSelected) ==
  LET v == [u EXCEPT !.servers = then.list, !.pending = @ \ then.list]
      ids == displayed(v, tabs)
      preferred == IF v.desired # None THEN v.desired ELSE v.selected
      next == IF preferred \in ids THEN preferred
              ELSE IF backendSelected \in ids THEN backendSelected ELSE None
      w == [v EXCEPT !.selected = next]
  IN  CASE ~then.last -> Done(u, then)
        [] then.last /\ next = None /\ w.servers # {} ->
             selectServer([w EXCEPT !.desired = None], Least(w.servers), then)
        [] then.last /\ NeedsOpen(w, next, backendSelected) ->
             selectServer(w, next, then)
        [] OTHER -> Done(w, then)

\* The script goes on with an answer.
Resume(u, then, value) ==
  CASE then.at = "servers" ->
         Calling(u, [cmd |-> "selected_server", id |-> None,
                  then |-> [then EXCEPT !.at = "which", !.list = value]])
    [] then.at = "which" -> Refreshed(u, then, value)
    [] then.at = "opened" ->
         Done(IF value THEN u ELSE [u EXCEPT !.selected = then.previous.selected,
                                             !.desired = then.previous.desired], then)
    [] then.at = "spawned" ->
         IF value = None THEN Ends([u EXCEPT !.spawning = FALSE])
         ELSE selectServer([u EXCEPT !.pending = @ \cup {value}], value, [Then EXCEPT !.after = "spawn"])
    [] then.at = "closed" ->
         IF then.after = "retry"
         THEN refreshServers([clearLocalSelection(u, then.id) EXCEPT !.closing = @ \ {then.id}], "retry", then.id)
         ELSE refreshServers(u, "close", then.id)
    [] then.at = "synced" -> Ends([u EXCEPT !.selected = value, !.desired = None])

Unused == {i \in Spawnable : work[i] = "none"}

\* A refresh makes those before it give way.
Superseded(seq, call) ==
  IF call.cmd # "get_servers" THEN seq
  ELSE [k \in DOMAIN seq |-> [seq[k] EXCEPT !.then.last = FALSE]]

\* The answer to a spawn: its id, or none if it failed.
Started(value) == [then |-> [Then EXCEPT !.at = "spawned"], value |-> value]

\* A stretch has run, with these answers and scripts still to come; a spawn it
\* asked for starts on a worker, or fails if the ids are used up.
Ran(run, answersLeft, scriptsLeft) ==
  /\ ui' = run.ui
  /\ \E host \in {Handle(run.call)} :
       /\ listed' = host.listed /\ selected' = host.selected /\ surfaces' = host.surfaces
       /\ scripts' = scriptsLeft \o host.says
       /\ missed' = (missed \/ (run.call.cmd = "select_server" /\ host.value = FALSE))
       /\ answers' = CASE run.spawn /\ Unused = {} -> Append(answersLeft, Started(None))
                       [] run.call = NoCall /\ (run.spawn => Unused # {}) -> answersLeft
                       [] run.call # NoCall -> Append(Superseded(answersLeft, run.call),
                                                      [then |-> run.call.then, value |-> host.value])
  /\ work' = IF run.spawn /\ Unused # {} THEN [work EXCEPT ![Least(Unused)] = "start"] ELSE work

TakeAnswer ==
  /\ answers # <<>>
  /\ Ran(Resume(ui, Head(answers).then, Head(answers).value), Tail(answers), scripts)
  /\ UNCHANGED <<tabs, bounds>>

\* What the host evaluates: the listener of servers-changed, or the hook that asks
\* for the selection again.
RunScript ==
  /\ scripts # <<>>
  /\ Ran(IF Head(scripts) = "changed" THEN refreshServers(ui, "nothing", None)
         ELSE Calling(ui, [cmd |-> "selected_server", id |-> None, then |-> [Then EXCEPT !.at = "synced"]]),
         answers, Tail(scripts))
  /\ UNCHANGED <<tabs, bounds>>

Acts == acts < MaxActs /\ acts' = acts + 1 /\ UNCHANGED <<changes, silent>>

\* A row of the inbox alone is remembered until its editor is there.
activateServer(i) ==
  /\ i \in displayed(ui, tabs)
  /\ Ran(IF i \in ui.servers \cup ui.pending THEN selectServer(ui, i, Then)
         ELSE Ends([ui EXCEPT !.selected = i, !.desired = i]), answers, scripts)
  /\ UNCHANGED tabs
  /\ Acts

spawn ==
  /\ ~ui.spawning /\ Unused # {}
  /\ Ran(spawnServer(ui), answers, scripts)
  /\ UNCHANGED tabs
  /\ Acts

Closing(u, i, after) ==
  Calling(u, [cmd |-> "close_server", id |-> i, then |-> [Then EXCEPT !.at = "closed", !.id = i, !.after = after]])

\* The row goes at once.
closeServer(i) ==
  /\ i \in (ui.servers \cup ui.pending) \ ui.closing
  /\ Ran(Closing([clearLocalSelection(ui, i) EXCEPT !.servers = @ \ {i}, !.pending = @ \ {i},
                                                    !.closing = @ \cup {i}], i, "close"), answers, scripts)
  /\ tabs' = tabs \ {i}
  /\ Acts

\* Of a row whose start has timed out.
retryServer(i) ==
  /\ i \in ui.pending \ (ui.servers \cup ui.closing) /\ ~ui.spawning
  /\ Ran(Closing([ui EXCEPT !.pending = @ \ {i}, !.closing = @ \cup {i}], i, "retry"), answers, scripts)
  /\ UNCHANGED tabs
  /\ Acts

-----------------------------------------------------------------------------
(* Workers, bridges, the Hub's client.                                     *)

Spawned(value) == answers' = Append(answers, Started(value))

SpawnFails(i) ==
  /\ work[i] = "start" /\ work' = [work EXCEPT ![i] = "done"]
  /\ Spawned(None)
  /\ UNCHANGED <<listed, selected, surfaces, ui, tabs, scripts, bounds, missed>>

\* spawn_server_with_options: the server is listed, ...
SpawnLists(i) ==
  /\ work[i] = "start" /\ work' = [work EXCEPT ![i] = "listed"]
  /\ listed' = listed \cup {i} /\ scripts' = Append(scripts, "changed")
  /\ UNCHANGED <<selected, surfaces, ui, tabs, answers, bounds, missed>>

\* ... looked up, ...
SpawnFinds(i) ==
  /\ work[i] = "listed" /\ i \in listed /\ work' = [work EXCEPT ![i] = "found"]
  /\ UNCHANGED <<backend, ui, tabs, answers, scripts, bounds, missed>>

\* ... selected, ...
SpawnSelects(i) ==
  /\ work[i] = "found" /\ work' = [work EXCEPT ![i] = "selected"]
  /\ selected' = i
  /\ UNCHANGED <<listed, surfaces, ui, tabs, answers, scripts, bounds, missed>>

\* ... shown, and the rail has its answer; ...
SpawnShows(i) ==
  /\ work[i] = "selected" /\ work' = [work EXCEPT ![i] = "done"]
  /\ surfaces' = surfaces \cup {i} /\ scripts' = Append(scripts, "sync")
  /\ Spawned(i)
  /\ UNCHANGED <<listed, selected, ui, tabs, bounds, missed>>

\* ... or it is not there any more.
SpawnMisses(i) ==
  /\ work[i] = "listed" /\ i \notin listed /\ work' = [work EXCEPT ![i] = "done"]
  /\ Spawned(i)
  /\ UNCHANGED <<backend, ui, tabs, scripts, bounds, missed>>

Changes == changes < MaxChanges /\ changes' = changes + 1 /\ UNCHANGED <<selected, surfaces, work, ui, answers, acts, missed>>

\* A faulty registration that the rail is not told of.
ArrivesUnsaid(i) ==
  /\ i \in External \/ i \in listed
  /\ listed' = listed \cup {i}
  /\ UNCHANGED <<tabs, silent, scripts>>
  /\ Changes

\* The bridge of a server registers, and goes.
Arrives(i) ==
  /\ i \in External \/ i \in listed
  /\ listed' = listed \cup {i} /\ scripts' = Append(scripts, "changed")
  /\ UNCHANGED <<tabs, silent>>
  /\ Changes

Goes(i) ==
  /\ i \in listed
  /\ listed' = listed \ {i} /\ scripts' = Append(scripts, "changed")
  /\ UNCHANGED <<tabs, silent>>
  /\ Changes

\* A server of Fleet that dies before its bridge has registered.
Dies(i) ==
  /\ i \in listed
  /\ listed' = listed \ {i} /\ silent' = silent \cup {i}
  /\ UNCHANGED <<tabs, scripts>>
  /\ Changes

\* The inbox the Hub's client sends has one session more or less.
InboxMoves(i) ==
  /\ i \in External \/ i \notin Unused
  /\ tabs' = IF i \in tabs THEN tabs \ {i} ELSE tabs \cup {i}
  /\ UNCHANGED <<listed, scripts, silent>>
  /\ Changes

ShellNext ==
  \/ TakeAnswer \/ RunScript \/ spawn
  \/ \E i \in Ids : activateServer(i)
  \/ \E i \in Ids : closeServer(i)
  \/ \E i \in Ids : retryServer(i)
  \/ \E i \in Spawnable : SpawnFails(i) \/ SpawnLists(i) \/ SpawnFinds(i) \/ SpawnSelects(i) \/ SpawnShows(i) \/ SpawnMisses(i) \/ Dies(i)
  \/ \E i \in Ids : Arrives(i) \/ Goes(i) \/ InboxMoves(i)

ShellSpec == ShellInit /\ [][ShellNext]_shellVars
-----------------------------------------------------------------------------
\* Nothing is under way.
Quiet ==
  /\ answers = <<>> /\ scripts = <<>>
  /\ \A i \in Spawnable : work[i] \in {"none", "done"}

\* When nothing is under way the rail lists the servers there are, however refreshes,
\* closes, spawns and retries have overtaken each other; only those that went without
\* a word may be listed still (get_servers, SERVERS_CHANGED and refreshServers).
RailListsServers ==
  Quiet => listed \subseteq ui.servers /\ ui.servers \ listed \subseteq silent

\* When nothing is under way the row that is highlighted is the one whose editor the
\* host shows, and one is highlighted if there are any, unless the rail has tried to
\* open a server that was gone (selectServer, refreshServers, __fleetSyncSelection and
\* select_impl; OpensSomething is what comes of such a try).
SelectionAgrees ==
  Quiet /\ ~missed =>
    /\ ui.selected \in ui.servers \ silent => selected = ui.selected
    /\ ui.servers # {} => ui.selected # None

\* A row that was clicked before its editor was there is opened once it is: no click
\* is still kept when nothing is under way and its server is listed (activateServer,
\* desiredSelection, refreshServers).
DeferredOpens == Quiet /\ ~missed => ui.desired \notin listed

\* "Auto-select the first server once any exist and nothing valid is selected."
\* (refreshServers)
OpensSomething == Quiet /\ ui.servers # {} => ui.selected # None
=============================================================================
