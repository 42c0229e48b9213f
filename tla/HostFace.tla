------------------------------- MODULE HostFace -------------------------------
(***************************************************************************)
(* The desktop host as a face of the Hub, from the socket to the rail:     *)
(* the link and its reducer, notifications and window indicators           *)
(* (crates/fleet-host/src/hub_client.rs), the projection it shares with    *)
(* the shell (attention.rs), and the rail, a webview with a copy of its    *)
(* own that it changes before the Hub answers (ui/main.js).                *)
(*                                                                         *)
(* The Hub is MergeEngine here; a mutation broadcasts its events to the    *)
(* wire at once, and the wire loses nothing while the link is up           *)
(* (HubServer has the lag).  Calls of the rail to the host and the host's  *)
(* events to the rail travel apart: an answer may be overtaken.            *)
(***************************************************************************)
EXTENDS FaceModel, HostCore

CONSTANTS
  Fleets,       \* what the Hub may have when the host starts
  RunInputs,    \* the runs agents report
  HubFlags,     \* the flag commands other faces give
  Clicks,       \* the actions of the rail: "mute", "solo", "focus", "dismiss"
  Served,       \* the sessions whose row has a server to close
  MaxCommits,   \* bound on what reporters and other faces do
  MaxClicks,    \* bound on the rail's actions
  MaxCloses,    \* bound on the servers closed from the rail
  MaxBreaks     \* bound on broken links

FlagCommands == {"mute", "unmute", "solo", "focus", "dismiss"}

\* A run waits exactly while it asks its person for something.
AsksIfWaiting(run) == run.state = "waiting" <=> run.urgency \in {"approval", "question"}

\* What a whole log leaves: rollups and badges are true, no solo is muted.
Replayed(e) ==
  /\ e \in Engine /\ Ordered(e) /\ IsFiniteSet(Present(e))
  /\ \A s \in Present(e) :
       /\ recompute_rollups(e.sessions[s]) = e.sessions[s]
       /\ ~(e.sessions[s].muted /\ e.sessions[s].soloed)
       /\ e.sessions[s].unread => Notifies(e, s)
       /\ \A r \in RunIds :
            e.sessions[s].runs[r] # Absent => AsksIfWaiting(e.sessions[s].runs[r])

ASSUME FaceConstants ==
  /\ \A fleet \in Fleets : Replayed(fleet)
  /\ RunInputs \subseteq AgentRun /\ \A run \in RunInputs : AsksIfWaiting(run)
  /\ HubFlags \subseteq FlagCommands /\ Clicks \subseteq {"mute", "solo", "focus", "dismiss"}
  /\ Served \subseteq SessionIds
  /\ MaxCommits \in Nat /\ MaxClicks \in Nat /\ MaxCloses \in Nat /\ MaxBreaks \in Nat

VARIABLES
  engine,    \* what the Hub has published
  hub,       \* the socket: [up, wire, commands], wire to the face, commands from it
  channel,   \* HubCommandSender's queue, which outlives a link
  face,      \* the link task: [model, seen_snapshot]
  shared,    \* SharedAttention: [tabs, connected]
  window,    \* the native window: [title, badge, attention]
  pinged,    \* history: sessions with a notification fired and not resolved
  known,     \* history: sessions that pinged when the host first looked, still
  emitted,   \* inbox events on their way to the rail
  rail,      \* the webview: [boot, inbox, ops]
  late,      \* history: an answer that is not guarded was overtaken by an event
  gone,      \* history: rows the rail closed since it last took a whole inbox
  spent      \* the actions so far: [commits, clicks, closes, breaks]

vars == <<engine, hub, channel, face, shared, window, pinged, known, emitted, rail, late, gone, spent>>

NoInbox == [tabs |-> NoRows, connected |-> FALSE]

Init ==
  /\ engine \in Fleets
  /\ hub = [up |-> FALSE, wire |-> <<>>, commands |-> <<>>]
  /\ channel = <<>>
  /\ face = [model |-> EmptyEngine, seen_snapshot |-> FALSE]
  /\ shared = NoInbox
  /\ window = [title |-> <<0, TRUE>>, badge |-> 0, attention |-> FALSE]
  /\ pinged = {}
  /\ known = {}
  /\ emitted = <<>>
  /\ rail = [boot |-> [phase |-> "starting", inbox |-> NoInbox, newer |-> FALSE],
             inbox |-> NoInbox, ops |-> {}]
  /\ late = FALSE
  /\ gone = {}
  /\ spent = [commits |-> 0, clicks |-> 0, closes |-> 0, breaks |-> 0]

-----------------------------------------------------------------------------
(* The Hub.                                                                *)

Publishes(after, events) ==
  /\ engine' = after
  /\ hub' = [hub EXCEPT !.wire = IF hub.up THEN @ \o events ELSE @]

Commits(after, events) ==
  /\ spent.commits < MaxCommits
  /\ spent' = [spent EXCEPT !.commits = @ + 1]
  /\ Publishes(after, events)
  /\ UNCHANGED <<channel, face, shared, window, pinged, known, emitted, rail, late, gone>>

NewSession(runs) ==
  [runs |-> runs, rollup_state |-> "idle", rollup_urgency |-> "none",
   muted |-> FALSE, soloed |-> FALSE, unread |-> FALSE, updated_at |-> 0]

HubRegister(id, rid, run) ==
  LET after == upsert_session(engine, id, NewSession([NoRuns EXCEPT ![rid] = run]))
  IN  /\ id \notin Present(engine)
      /\ Commits(after, session_upsert_events(after, id))

HubRun(id, rid, run) ==
  LET after == upsert_run(engine, id, rid, run)
  IN  /\ id \in Present(engine)
      /\ Commits(after, run_upsert_events(after, id, rid))

HubRemove(id) ==
  LET after == remove_session(engine, id)
  IN  /\ id \in Present(engine)
      /\ Commits(after, session_remove_events(engine, after, id))

\* What a flag command of any face does to the engine.
Obey(command, id) ==
  CASE command = "mute"   -> apply_mute(engine, id)
    [] command = "unmute" -> apply_unmute(engine, id)
    [] command = "solo"   -> apply_solo(engine, id)
    [] command = "focus"  -> apply_focus(engine, id)
    [] OTHER -> remove_session(engine, id)

FlagEvents(command, id) ==
  LET after == Obey(command, id)
  IN  IF command = "dismiss"
      THEN IF id \in Present(engine) THEN session_remove_events(engine, after, id) ELSE <<>>
      ELSE updated_events_for(after, Changed(engine, after))

HubFlag(command, id) ==
  /\ command \in HubFlags
  /\ Commits(Obey(command, id), FlagEvents(command, id))

HubHearsCommand ==
  LET c == Head(hub.commands)
  IN  /\ hub.commands # <<>>
      /\ engine' = Obey(c.command, c.id)
      /\ hub' = [hub EXCEPT !.commands = Tail(@), !.wire = @ \o FlagEvents(c.command, c.id)]
      /\ UNCHANGED <<channel, face, shared, window, pinged, known, emitted, rail, late, gone, spent>>

-----------------------------------------------------------------------------
(* The link task: run, connect_once, push.                                 *)

Connect ==
  /\ ~hub.up
  /\ hub' = [up |-> TRUE, wire |-> <<Snapshot(engine)>>, commands |-> <<>>]
  /\ UNCHANGED <<engine, channel, face, shared, window, pinged, known, emitted, rail, late, gone, spent>>

Rendered(model, connected) == [tabs |-> view(model), connected |-> connected]

\* The title tells the sessions that ping and whether the link is up.
fleet_window_title(inbox) == <<waiting_count(inbox.tabs), inbox.connected>>

\* A faulty update that renews the title only with the badge.
TitleWithBadge(previous, rendered, fires, focused) ==
  LET before == waiting_count(previous.tabs)
      now    == waiting_count(rendered.tabs)
  IN  [title     |-> IF now = before THEN window.title ELSE fleet_window_title(rendered),
       badge     |-> IF now = before THEN window.badge ELSE now,
       attention |-> window.attention]

\* Title and badge are set if they differ from what the inbox before gave;
\* attention is asked for unless the window has the focus.
window_indicator_update(previous, rendered, fires, focused) ==
  LET before == waiting_count(previous.tabs)
      now    == waiting_count(rendered.tabs)
      title  == fleet_window_title(rendered)
  IN  [title     |-> IF title = fleet_window_title(previous) THEN window.title ELSE title,
       badge     |-> IF now = before THEN window.badge ELSE now,
       attention |-> CASE now = 0 /\ before > 0 -> FALSE
                       [] now > 0 /\ (fires # {} \/ now > before) /\ ~focused -> TRUE
                       [] OTHER -> window.attention]

\* A payload that changes nothing is not pushed.  The rail hears what is
\* emitted once it listens.
push(rendered, fires, resolves) ==
  IF rendered = shared /\ fires = {} /\ resolves = {}
  THEN UNCHANGED <<shared, window, emitted>>
  ELSE /\ \E focused \in BOOLEAN :
            window' = window_indicator_update(shared, rendered, fires, focused)
       /\ shared' = rendered
       /\ emitted' = IF rail.boot.phase = "starting" THEN emitted ELSE Append(emitted, rendered)

\* A faulty gate that derives notifications from deltas only.
DerivesFromDeltas(ev) == ev.type # "fleet.snapshot"

event_derives_notifications(ev) == ev.type # "fleet.snapshot" \/ face.seen_snapshot

\* What the face makes of event ev, which takes its model from old to new.
Reduces(ev, model, old, new) ==
  LET derive   == event_derives_notifications(ev)
      fires    == IF derive THEN Fires(old, new) ELSE {}
      resolves == IF derive THEN AutoResolves(old, new) ELSE {}
  IN  /\ face' = [model |-> model,
                  seen_snapshot |-> face.seen_snapshot \/ ev.type = "fleet.snapshot"]
      /\ pinged' = (pinged \ resolves) \cup fires
      /\ known' = IF derive THEN (known \ resolves) \ fires ELSE Pending(new)
      /\ push([tabs |-> new, connected |-> TRUE], fires, resolves)

FaceReceives ==
  /\ hub.wire # <<>>
  /\ hub' = [hub EXCEPT !.wire = Tail(@)]
  /\ UNCHANGED <<engine, channel, rail, late, gone, spent>>
  /\ \E model \in {InboxModel_apply(face.model, Head(hub.wire))} :
       \E old \in {view(face.model)}, new \in {view(model)} :
         Reduces(Head(hub.wire), model, old, new)

\* A command goes from the channel to the socket.
LinkSends ==
  /\ hub.up /\ channel # <<>>
  /\ hub' = [hub EXCEPT !.commands = Append(@, Head(channel))]
  /\ channel' = Tail(channel)
  /\ UNCHANGED <<engine, face, shared, window, pinged, known, emitted, rail, late, gone, spent>>

\* The link breaks with all that is on it, and mark_disconnected runs.
Break ==
  /\ hub.up /\ spent.breaks < MaxBreaks
  /\ spent' = [spent EXCEPT !.breaks = @ + 1]
  /\ hub' = [up |-> FALSE, wire |-> <<>>, commands |-> <<>>]
  /\ push([shared EXCEPT !.connected = FALSE], {}, {})
  /\ UNCHANGED <<engine, channel, face, pinged, known, rail, late, gone>>

-----------------------------------------------------------------------------
(* The rail.                                                               *)

\* setInbox: a new copy, newer than what every answer under way is about.
WithInbox(next) ==
  [rail EXCEPT !.inbox = next,
               !.boot.newer = rail.boot.phase = "answered",
               !.ops = {[o EXCEPT !.newer = TRUE] : o \in @}]

\* init of the rail: it listens, then asks for the inbox, and in the end takes
\* the answer, which is not guarded by a revision.
RailListens ==
  /\ rail.boot.phase = "starting"
  /\ rail' = [rail EXCEPT !.boot.phase = "loading"]
  /\ UNCHANGED <<engine, hub, channel, face, shared, window, pinged, known, emitted, late, gone, spent>>

get_inbox ==
  /\ rail.boot.phase = "loading"
  /\ rail' = [rail EXCEPT !.boot = [phase |-> "answered", inbox |-> shared, newer |-> FALSE]]
  /\ UNCHANGED <<engine, hub, channel, face, shared, window, pinged, known, emitted, late, gone, spent>>

RailBoots ==
  /\ rail.boot.phase = "answered"
  /\ rail' = [WithInbox(rail.boot.inbox) EXCEPT
              !.boot = [phase |-> "loaded", inbox |-> NoInbox, newer |-> FALSE]]
  /\ late' = (late \/ rail.boot.newer)
  /\ gone' = {}
  /\ UNCHANGED <<engine, hub, channel, face, shared, window, pinged, known, emitted, spent>>

RailHears ==
  /\ emitted # <<>>
  /\ rail' = WithInbox(Head(emitted))
  /\ emitted' = Tail(emitted)
  /\ gone' = {}
  /\ UNCHANGED <<engine, hub, channel, face, shared, window, pinged, known, late, spent>>

Busy(id) == \E o \in rail.ops : o.id = id

Op(id, action, value) ==
  [id |-> id, action |-> action, value |-> value,
   prev |-> rail.inbox, newer |-> FALSE, answer |-> "none"]

\* localMutate of each action; a dismissal changes nothing yet.
Optimism(tabs, id, action, value) ==
  CASE action = "mute"  -> applyLocalMute(tabs, id, value)
    [] action = "solo"  -> applyLocalSolo(tabs, id, value)
    [] action = "focus" -> applyLocalFocus(tabs, id)
    [] OTHER -> tabs

RowAllows(tab, action, value) ==
  CASE action = "mute" -> value = ~tab.muted
    [] action = "solo" -> value = ~tab.soloed
    [] action = "dismiss" -> value = FALSE /\ tab.state \in {"dead", "error"}
    [] OTHER -> value = FALSE

\* toggleMuteRow, toggleSoloRow, dismissRow, focusSession with their guards,
\* and the first half of runOptimistic.
RailClicks(id, action, value) ==
  LET tabs == rail.inbox.tabs
  IN  /\ action \in Clicks
      /\ spent.clicks < MaxClicks
      /\ spent' = [spent EXCEPT !.clicks = @ + 1]
      /\ rail.boot.phase = "loaded" /\ rail.inbox.connected
      /\ id \in Shown(tabs) /\ RowAllows(tabs[id], action, value)
      /\ IF action = "focus" THEN ~\E o \in rail.ops : o.id = id /\ o.action = "focus"
         ELSE ~Busy(id)
      /\ LET changed == [rail.inbox EXCEPT !.tabs = Optimism(tabs, id, action, value)]
             after == IF action = "dismiss" THEN rail ELSE WithInbox(changed)
         IN  rail' = [after EXCEPT !.ops = @ \cup {Op(id, action, value)}]
      /\ UNCHANGED <<engine, hub, channel, face, shared, window, pinged, known, emitted, late, gone>>

\* closeServer, from the menu of a row that has a server or waits for one: its
\* row leaves the rail's inbox too, with no command to the Hub and no way back
\* but the next inbox.  An answer that would roll back finds a newer inbox.
RailCloses(id) ==
  /\ spent.closes < MaxCloses
  /\ spent' = [spent EXCEPT !.closes = @ + 1]
  /\ rail.boot.phase # "starting" /\ ~Busy(id)
  /\ rail' = [rail EXCEPT
       !.inbox.tabs = removeInboxSession(@, id),
       !.ops = {[o EXCEPT !.newer = @ \/ o.action # "dismiss"] : o \in @}]
  /\ gone' = gone \cup ({id} \cap Shown(rail.inbox.tabs))
  /\ UNCHANGED <<engine, hub, channel, face, shared, window, pinged, known, emitted, late>>

CommandOf(o) ==
  CASE o.action = "mute" -> IF o.value THEN "mute" ELSE "unmute"
    [] o.action = "solo" -> IF o.value THEN "solo" ELSE "unmute"
    [] OTHER -> o.action

\* The invoked command of the host: ensure_connected, then the channel.
HostAnswers(o) ==
  /\ o \in rail.ops /\ o.answer = "none"
  /\ channel' = IF shared.connected THEN Append(channel, [command |-> CommandOf(o), id |-> o.id])
                ELSE channel
  /\ rail' = [rail EXCEPT !.ops =
       (@ \ {o}) \cup {[o EXCEPT !.answer = IF shared.connected THEN "ok" ELSE "failed"]}]
  /\ UNCHANGED <<engine, hub, face, shared, window, pinged, known, emitted, late, gone, spent>>

\* A faulty rollback that does not look whether a newer inbox has come.
RollsBackAlways(o) ==
  IF o.answer = "failed" /\ o.action # "dismiss" THEN WithInbox(o.prev)
  ELSE IF o.answer = "ok" /\ o.action = "dismiss"
       THEN WithInbox([rail.inbox EXCEPT !.tabs = removeInboxSession(@, o.id)])
       ELSE rail

\* What the rail does with the answer: roll back unless a newer inbox came;
\* take the dismissed row away.
Outcome(o) ==
  IF o.answer = "failed" /\ o.action # "dismiss" /\ ~o.newer THEN WithInbox(o.prev)
  ELSE IF o.answer = "ok" /\ o.action = "dismiss"
       THEN WithInbox([rail.inbox EXCEPT !.tabs = removeInboxSession(@, o.id)])
       ELSE rail

RailSettlesOp(o) ==
  /\ o \in rail.ops /\ o.answer # "none"
  /\ rail' = [Outcome(o) EXCEPT !.ops = {p \in @ : ~(p.id = o.id /\ p.action = o.action)}]
  /\ late' = (late \/ (o.action = "dismiss" /\ o.answer = "ok" /\ o.newer))
  /\ UNCHANGED <<engine, hub, channel, face, shared, window, pinged, known, emitted, gone, spent>>

Next ==
  \/ \E id \in SessionIds, rid \in RunIds, run \in RunInputs : HubRegister(id, rid, run)
  \/ \E id \in SessionIds, rid \in RunIds, run \in RunInputs : HubRun(id, rid, run)
  \/ \E id \in SessionIds : HubRemove(id)
  \/ \E command \in HubFlags, id \in SessionIds : HubFlag(command, id)
  \/ HubHearsCommand
  \/ Connect
  \/ FaceReceives
  \/ LinkSends
  \/ Break
  \/ RailListens
  \/ get_inbox
  \/ RailBoots
  \/ RailHears
  \/ \E id \in SessionIds, action \in Clicks, value \in BOOLEAN : RailClicks(id, action, value)
  \/ \E id \in Served : RailCloses(id)
  \/ \E o \in rail.ops : HostAnswers(o)
  \/ \E o \in rail.ops : RailSettlesOp(o)

Spec == Init /\ [][Next]_vars

\* What the tasks of the Hub, the host and the webview do of themselves: never
\* what agents and people do, and no break.
Works ==
  \/ RailListens \/ get_inbox \/ RailBoots \/ RailHears
  \/ Connect \/ LinkSends \/ FaceReceives \/ HubHearsCommand
  \/ \E o \in rail.ops : HostAnswers(o) \/ RailSettlesOp(o)

\* As long as one of them has something to do, one goes on; each ends.
Fairness == WF_vars(Works)

FairSpec == Spec /\ Fairness
-----------------------------------------------------------------------------
(* Properties.                                                             *)

\* Every variable holds what its type can hold, and a broken link nothing.
TypeOK ==
  /\ engine \in Engine /\ face.model \in Engine /\ face.seen_snapshot \in BOOLEAN
  /\ hub.up \in BOOLEAN /\ hub.wire \in Seq(Event)
  /\ hub.up \/ (hub.wire = <<>> /\ hub.commands = <<>>)
  /\ shared \in [tabs : View, connected : BOOLEAN]
  /\ rail.inbox \in [tabs : View, connected : BOOLEAN]
  /\ pinged \subseteq SessionIds /\ known \subseteq SessionIds

\* Over deltas, reconnects and the snapshots they bring, the sessions with a
\* notification fired and not resolved are those the host shows as pinging,
\* but for those that pinged already when it first looked
\* (hub_client.rs 122-137): no ping is missed and none is left over.
PingsFollowTheInbox ==
  /\ pinged \cup known = Pending(view(face.model))
  /\ pinged \cap known = {}

\* Each indicator is set only when it differs from the inbox before, and the
\* window still tells the inbox that is shared: its count, its link, and no
\* call for attention that nothing asks for (hub_client.rs 357-390).
WindowTellsInbox ==
  /\ face.seen_snapshot => shared.tabs = view(face.model) /\ window.title = fleet_window_title(shared)
  /\ shared.connected => hub.up
  /\ window.badge = waiting_count(shared.tabs)
  /\ window.attention => waiting_count(shared.tabs) > 0

\* Hub, host and rail each have a rule of their own for what pings, and the
\* three agree on every inbox there can be (merge.rs, mute.rs, ui/main.js).
PingRulesAgree ==
  \A s \in SessionIds :
    /\ should_notify(view(engine), s) <=> Notifies(engine, s)
    /\ shouldNotifyTab(view(engine), s) <=> Notifies(engine, s)

\* What a click or an answered dismissal leaves of a rail that shows what the
\* Hub has is what the Hub will have when it obeys, the badges of the other
\* sessions among it (ui/main.js 184-261 against merge.rs).
OptimismIsExact ==
  [][rail.inbox.tabs = view(engine) =>
       /\ \A o \in rail'.ops \ rail.ops :
            o.answer = "none" /\ ~o.newer /\ o.action # "dismiss" =>
              rail'.inbox.tabs = view(Obey(CommandOf(o), o.id))
       /\ \A o \in rail.ops :
            o.answer = "ok" /\ o.action = "dismiss" /\ RailSettlesOp(o) =>
              rail'.inbox.tabs = view(remove_session(engine, o.id))]_vars

\* A waiting session is listed above every one that does not wait, once the
\* host has read what the Hub has sent (sort.rs: "a waiting tab rises to top").
WaitingOnTop ==
  hub.up /\ hub.wire = <<>> =>
    \A s, t \in Shown(view(face.model)) :
      LET v == view(face.model)
      IN  is_attention(v[s]) /\ ~is_attention(v[t]) =>
            \A now \in 0..2 : Above(v, face.model.older, now, s, t)

\* The rail judges an inbox as the Hub does: it pings for the same sessions and
\* ranks those that wait first, whatever state the parts are in.
RailInv == TypeOK /\ PingRulesAgree /\ WaitingOnTop

\* The rail shows what the Hub has, and all of it, but for the rows it has taken
\* away with a server it closed, which the Hub may still have; while such a row is
\* away, the badges of the others are those of a fleet without it.
RailAgrees ==
  /\ gone = {} => rail.inbox = Rendered(engine, TRUE)
  /\ rail.inbox.connected
  /\ \A s \in SessionIds :
       LET shown == rail.inbox.tabs[s]
           has   == view(engine)[s]
       IN  IF s \in gone \/ has = Absent THEN shown = Absent
           ELSE shown # Absent /\ [shown EXCEPT !.unread = has.unread] = has

\* However clicks, their failures, closed servers, lost commands, broken links and
\* events race, the rail ends with what the Hub has, up to the rows of the servers
\* it closed, which stay away till the Hub has anything new to say; unless an answer
\* that no revision guards, get_inbox at the start or a dismissal, came too late.
RailSettles == <>[](late \/ RailAgrees)

=============================================================================
