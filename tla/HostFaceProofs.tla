---------------------------- MODULE HostFaceProofs ----------------------------
(***************************************************************************)
(* What holds of the desktop host as a face of the Hub for every set of    *)
(* sessions and runs, every fleet the host finds, and every number of      *)
(* commits, clicks and broken links: the sessions that have pinged, the    *)
(* window's indicators and the rules for pings follow the inbox, and the   *)
(* rail foresees exactly what the Hub will make of a click.                *)
(* And of its shell, for every set of servers that arrive and that the     *)
(* user spawns: when nothing is under way the rail lists the servers there *)
(* are and highlights the one that is shown.                               *)
(***************************************************************************)
EXTENDS HostFace, Shell, MergeEngineProofs

-----------------------------------------------------------------------------
(* Views.                                                                  *)

\* A session waits since a time, or since none.
LEMMA WaitingSince ==
  ASSUME NEW x \in Session
  PROVE  /\ waiting_since(x) \in Nat \cup {NoWait}
         /\ "waiting" \notin RunStates(x.runs) => waiting_since(x) = NoWait
<1>1. \A r \in RunIds : x.runs[r] # Absent => x.runs[r] \in AgentRun BY DEF Session, Runs
<1>2. WaitStamps(x) \in SUBSET Nat BY <1>1 DEF WaitStamps, AgentRun
<1>3. CASE WaitStamps(x) = {} BY <1>3 DEF waiting_since
<1>4. CASE WaitStamps(x) # {}
  <2>1. \E t \in WaitStamps(x) : \A u \in WaitStamps(x) : t <= u BY <1>2, <1>4, LeastNat
  <2>2. waiting_since(x) \in WaitStamps(x) BY <1>4, <2>1 DEF waiting_since
  <2>3. "waiting" \in RunStates(x.runs) BY <1>4 DEF WaitStamps, RunStates
  <2>. QED BY <1>2, <2>2, <2>3
<1>. QED BY <1>3, <1>4

LEMMA TabType ==
  ASSUME NEW x \in Session
  PROVE  /\ session_to_tab(x) \in Row /\ session_to_tab(x) # Absent
         /\ session_to_tab(x).since = waiting_since(x)
<1>1. waiting_since(x) \in Nat \cup {NoWait} BY WaitingSince
<1>2. session_to_tab(x) \in Row BY <1>1 DEF session_to_tab, Row, Session
<1>. QED BY <1>2, AbsentIsNoRow DEF session_to_tab

\* A view shows the sessions of the engine, each as its row.
LEMMA ViewType ==
  ASSUME NEW e \in Engine
  PROVE  /\ view(e) \in View
         /\ Shown(view(e)) = Present(e)
         /\ \A s \in Present(e) : view(e)[s] = session_to_tab(e.sessions[s])
         /\ \A s \in SessionIds \ Present(e) : view(e)[s] = Absent
<1>1. \A s \in Present(e) : s \in SessionIds /\ e.sessions[s] \in Session BY PresentType
<1>2. \A s \in Present(e) : session_to_tab(e.sessions[s]) \in Row /\ session_to_tab(e.sessions[s]) # Absent
  BY <1>1, TabType
<1>. QED BY <1>1, <1>2 DEF view, View, Shown

LEMMA EmptyView ==
  /\ view(EmptyEngine) = NoRows /\ NoRows \in View
  /\ Pending(NoRows) = {} /\ waiting_count(NoRows) = 0
<1>1. Present(EmptyEngine) = {} BY EmptySound
<1>2. view(EmptyEngine) = NoRows BY <1>1 DEF view, NoRows
<1>3. Pending(NoRows) = {} BY DEF Pending, should_notify, Shown, NoRows
<1>. QED BY <1>2, <1>3, FS_EmptySet DEF waiting_count, NoRows, View

\* The flags and the state of a row are the session's.
LEMMA RowFields ==
  ASSUME NEW x
  PROVE  LET tab == session_to_tab(x)
         IN  /\ tab.state = x.rollup_state /\ tab.urgency = x.rollup_urgency
             /\ tab.muted = x.muted /\ tab.soloed = x.soloed /\ tab.unread = x.unread
BY DEF session_to_tab

LEMMA SoloShown ==
  ASSUME NEW e \in Engine
  PROVE  SoloInView(view(e)) <=> any_soloed(e)
<1>1. /\ Shown(view(e)) = Present(e)
      /\ \A s \in Present(e) : view(e)[s] = session_to_tab(e.sessions[s])
  BY ViewType
<1>2. \A s \in Present(e) : view(e)[s].soloed = e.sessions[s].soloed BY <1>1, RowFields
<1>. QED BY <1>1, <1>2 DEF SoloInView, any_soloed

\* The rail's rule for pings is the Hub's.
LEMMA RailRule ==
  ASSUME NEW e \in Engine, NEW s \in SessionIds
  PROVE  shouldNotifyTab(view(e), s) <=> Notifies(e, s)
<1>1. /\ Shown(view(e)) = Present(e)
      /\ s \in Present(e) => view(e)[s] = session_to_tab(e.sessions[s])
  BY ViewType
<1>2. SoloInView(view(e)) <=> any_soloed(e) BY SoloShown
<1>. QED BY <1>1, <1>2 DEF shouldNotifyTab, Notifies, should_notify_session, is_attention, session_to_tab

-----------------------------------------------------------------------------
(* The inductive invariant.                                                *)

Inbox == [tabs : View, connected : BOOLEAN]

Command == [command : FlagCommands, id : SessionIds]

Operation == [id : SessionIds, action : {"mute", "solo", "focus", "dismiss"}, value : BOOLEAN,
              prev : Inbox, newer : BOOLEAN, answer : {"none", "ok", "failed"}]

\* What the socket carries: what is broadcast, and snapshots of the store.
Frame == Sent \cup {ev \in Event : ev.type = "fleet.snapshot" /\ Well(ev.inbox)}

\* A store that agents and faces have made: no solo is muted, no badge is on a
\* session that does not ping, and a run asks exactly while it waits.
Polite(x) ==
  /\ ~(x.muted /\ x.soloed)
  /\ \A r \in RunIds : x.runs[r] # Absent => AsksIfWaiting(x.runs[r])

Fit(e) == Well(e) /\ BadgesTrue(e) /\ \A s \in Present(e) : Polite(e.sessions[s])

\* While the link is up, what is on it takes the face's model to the store.
LinkOK ==
  /\ hub \in [up : BOOLEAN, wire : Seq(Frame), commands : Seq(Command)]
  /\ channel \in Seq(Command)
  /\ ~hub.up => hub.wire = <<>> /\ hub.commands = <<>>
  /\ hub.up => apply_all(face.model, hub.wire) = engine

\* Until its first snapshot the host has nothing to show, and a snapshot is the
\* first thing it will read.
Unread ==
  /\ face.model = EmptyEngine /\ shared = NoInbox /\ pinged = {} /\ known = {}
  /\ hub.up => hub.wire # <<>> /\ Head(hub.wire).type = "fleet.snapshot"

FaceOK ==
  /\ face \in [model : Engine, seen_snapshot : BOOLEAN]
  /\ IsFiniteSet(Present(face.model))
  /\ shared \in Inbox
  /\ ~face.seen_snapshot => Unread

RailOK ==
  /\ rail \in [boot  : [phase : {"starting", "loading", "answered", "loaded"},
                        inbox : Inbox, newer : BOOLEAN],
               inbox : Inbox, ops : SUBSET Operation]
  /\ emitted \in Seq(Inbox)

IInv ==
  /\ Fit(engine) /\ LinkOK /\ FaceOK /\ RailOK
  /\ PingsFollowTheInbox /\ WindowTellsInbox

-----------------------------------------------------------------------------
(* What the Hub does is fit, and told.                                     *)

\* A change of the store and the events that tell all of it.
Told(e, f, events) == Fit(f) /\ events \in Seq(Sent) /\ apply_all(e, events) = f

\* The host's rule for pings is the Hub's where no solo is muted.
LEMMA HostRule ==
  ASSUME NEW e, Fit(e), NEW s \in SessionIds
  PROVE  should_notify(view(e), s) <=> Notifies(e, s)
<1>0. e \in Engine BY DEF Fit, Well, Sound
<1>1. /\ Shown(view(e)) = Present(e)
      /\ s \in Present(e) => view(e)[s] = session_to_tab(e.sessions[s])
  BY <1>0, ViewType
<1>2. SoloInView(view(e)) <=> any_soloed(e) BY <1>0, SoloShown
<1>3. s \in Present(e) => ~(e.sessions[s].muted /\ e.sessions[s].soloed) BY DEF Fit, Polite
<1>4. s \in Present(e) /\ e.sessions[s].soloed => any_soloed(e) BY DEF any_soloed
<1>. QED BY <1>1, <1>2, <1>3, <1>4
         DEF should_notify, ping_suppressed, Notifies, should_notify_session, is_attention, session_to_tab

LEMMA PoliteAlike ==
  ASSUME NEW x, NEW y, Alike(x, y), Polite(y)
  PROVE  Polite(x)
BY DEF Alike, Polite

\* New rollups touch neither flags nor runs.
LEMMA PoliteRecomputed ==
  ASSUME NEW x \in Session, Polite(x)
  PROVE  Polite(recompute_rollups(x))
BY Recomputed DEF Polite

\* A session that is new, without flags or badge.
LEMMA NewTold ==
  ASSUME NEW e, Fit(e), NEW id \in SessionIds, id \notin Present(e),
         NEW x \in Session, Polite(x), ~x.soloed, ~x.unread
  PROVE  LET g == upsert_session(e, id, x)
         IN  Told(e, g, session_upsert_events(g, id))
<1>. DEFINE g == upsert_session(e, id, x)
            events == session_upsert_events(g, id)
<1>0. Well(e) /\ e \in Engine /\ BadgesTrue(e) BY DEF Fit, Well, Sound
<1>1. Well(g) /\ events \in Seq(Sent) /\ apply_all(e, events) = g BY <1>0, UpsertTold
<1>2. BadgeStep(e, g) BY <1>0, RegisterBadges
<1>3. /\ g \in Engine
      /\ Present(g) = Present(e) \cup {id}
      /\ g.older = IF id \in Present(e) THEN e.older
                   ELSE e.older \cup {<<y, id>> : y \in Present(e)}
      /\ Alike(g.sessions[id], recompute_rollups(x))
      /\ \A s \in SessionIds \ {id} : g.sessions[s] = e.sessions[s]
  BY <1>0, Upserted, ZenonT(60)
<1>. HIDE DEF g, events
<1>4. Polite(g.sessions[id]) BY <1>3, PoliteRecomputed, PoliteAlike
<1>5. \A s \in Present(g) : Polite(g.sessions[s]) BY <1>0, <1>3, <1>4, PresentType DEF Fit
<1>6. Told(e, g, events) BY <1>1, <1>2, <1>5 DEF Told, Fit, BadgeStep
<1>. QED BY <1>6 DEF g, events

LEMMA RegisterTold ==
  ASSUME NEW e, Fit(e), NEW id \in SessionIds, id \notin Present(e), NEW rid \in RunIds,
         NEW run \in RunInputs
  PROVE  LET g == upsert_session(e, id, NewSession([NoRuns EXCEPT ![rid] = run]))
         IN  Told(e, g, session_upsert_events(g, id))
<1>. DEFINE x == NewSession([NoRuns EXCEPT ![rid] = run])
<1>1. run \in AgentRun /\ AsksIfWaiting(run) BY FaceConstants
<1>2. x \in Session /\ ~x.muted /\ ~x.soloed /\ ~x.unread
  BY <1>1 DEF NewSession, Session, Runs, NoRuns, State, Urgency
<1>3. Polite(x) BY <1>1, <1>2 DEF Polite, NewSession, NoRuns
<1>. HIDE DEF x
<1>. QED BY <1>2, <1>3, NewTold DEF x

LEMMA RunTold ==
  ASSUME NEW e, Fit(e), NEW id \in Present(e), NEW rid \in RunIds, NEW run \in RunInputs
  PROVE  LET g == upsert_run(e, id, rid, run)
         IN  Told(e, g, run_upsert_events(g, id, rid))
<1>. DEFINE runs == [e.sessions[id].runs EXCEPT ![rid] = run]
            x == [e.sessions[id] EXCEPT !.runs = runs]
            g == upsert_run(e, id, rid, run)
            events == run_upsert_events(g, id, rid)
<1>0. Well(e) /\ e \in Engine /\ BadgesTrue(e) /\ id \in SessionIds /\ e.sessions[id] \in Session
  BY PresentType DEF Fit, Well, Sound
<1>1. run \in AgentRun /\ AsksIfWaiting(run) BY FaceConstants
<1>2. runs \in Runs BY <1>0, <1>1 DEF Session, Runs
<1>3. x \in Session /\ Polite(x)
  <2>1. e.sessions[id] \in Session /\ Polite(e.sessions[id]) BY <1>0 DEF Fit
  <2>2. x \in Session /\ x.runs = runs BY <1>2, <2>1 DEF Session
  <2>3. x.muted = e.sessions[id].muted /\ x.soloed = e.sessions[id].soloed BY <2>1 DEF Session
  <2>4. \A r \in RunIds : runs[r] = run \/ runs[r] = e.sessions[id].runs[r] BY <2>1 DEF Session, Runs
  <2>. HIDE DEF x, runs
  <2>. QED BY <1>1, <2>1, <2>2, <2>3, <2>4 DEF Polite
<1>4. Well(g) /\ events \in Seq(Sent) /\ apply_all(e, events) = g BY <1>0, <1>1, UpsertRunTold
<1>5. g = WithRuns(e, id, runs) BY DEF upsert_run
<1>. HIDE DEF g, events, runs
<1>6. BadgeStep(e, g) BY <1>0, <1>2, <1>5, RerunBadges
<1>7. /\ Present(g) = Present(e)
      /\ Alike(g.sessions[id], recompute_rollups(x))
      /\ \A s \in SessionIds \ {id} : g.sessions[s] = e.sessions[s]
  BY <1>0, <1>2, <1>5, Rerun
<1>. HIDE DEF x
<1>8. Polite(g.sessions[id]) BY <1>3, <1>7, PoliteRecomputed, PoliteAlike
<1>9. \A s \in Present(g) : Polite(g.sessions[s]) BY <1>0, <1>7, <1>8, PresentType DEF Fit
<1>10. Told(e, g, events) BY <1>4, <1>6, <1>9 DEF Told, Fit, BadgeStep
<1>. QED BY <1>10 DEF g, events

LEMMA RemovalTold ==
  ASSUME NEW e, Fit(e), NEW id \in Present(e)
  PROVE  LET g == remove_session(e, id)
         IN  Told(e, g, session_remove_events(e, g, id))
<1>. DEFINE g == remove_session(e, id)
            events == session_remove_events(e, g, id)
<1>0. Well(e) /\ e \in Engine /\ BadgesTrue(e) BY DEF Fit, Well, Sound
<1>1. Well(g) /\ events \in Seq(Sent) /\ apply_all(e, events) = g BY <1>0, RemoveTold
<1>2. BadgeStep(e, g) BY <1>0, RemovalBadges
<1>3. Present(g) = Present(e) \ {id} /\ \A s \in Present(g) : Alike(g.sessions[s], e.sessions[s])
  BY <1>0, Removed
<1>. HIDE DEF g, events
<1>4. \A s \in Present(g) : Polite(g.sessions[s]) BY <1>3, PoliteAlike DEF Fit
<1>5. Told(e, g, events) BY <1>1, <1>2, <1>4 DEF Told, Fit, BadgeStep
<1>. QED BY <1>5 DEF g, events

\* A command that sets flags or clears a badge.
LEMMA FlagCommandTold ==
  ASSUME NEW e, Fit(e), NEW g, Sound(g), g.older = e.older, Present(g) = Present(e),
         BadgesTrue(g), \A s \in Present(e) : Polite(g.sessions[s])
  PROVE  Told(e, g, updated_events_for(g, Changed(e, g)))
<1>. DEFINE events == updated_events_for(g, Changed(e, g))
<1>1. Well(e) BY DEF Fit
<1>2. Well(g) /\ events \in Seq(Sent) /\ apply_all(e, events) = g BY <1>1, FlagsTold
<1>. HIDE DEF events
<1>3. Told(e, g, events) BY <1>2 DEF Told, Fit
<1>. QED BY <1>3 DEF events

\* A command of flags m and o, none both muted and soloed.
LEMMA ReflagTold ==
  ASSUME NEW e, Fit(e), NEW g, NEW m, NEW o, Reflagged(e, g, m, o), BadgeStep(e, g),
         \A s \in Present(e) : ~(m[s] /\ o[s])
  PROVE  Told(e, g, updated_events_for(g, Changed(e, g)))
<1>1. Sound(e) BY DEF Fit, Well
<1>2. Sound(g) BY <1>1, ReflaggedSound
<1>3. g.older = e.older /\ Present(g) = Present(e) BY DEF Reflagged
<1>4. \A s \in Present(e) : Polite(g.sessions[s]) BY DEF Reflagged, Polite, Fit
<1>. QED BY <1>2, <1>3, <1>4, FlagCommandTold DEF BadgeStep

\* Whatever a face commands.
LEMMA CommandTold ==
  ASSUME NEW e, Fit(e), NEW command \in FlagCommands, NEW id \in SessionIds, engine = e
  PROVE  Told(e, Obey(command, id), FlagEvents(command, id))
<1>. DEFINE g == Obey(command, id)
<1>0. e \in Engine /\ Sound(e) /\ BadgesTrue(e) BY DEF Fit, Well, Sound
<1>1. \A s \in Present(e) : Polite(e.sessions[s]) BY DEF Fit
<1>2. CASE command = "dismiss"
  <2>1. g = remove_session(e, id) BY <1>2 DEF Obey
  <2>2. CASE id \in Present(e)
    <3>1. FlagEvents(command, id) = session_remove_events(e, g, id) BY <1>2, <2>2 DEF FlagEvents
    <3>. QED BY <2>1, <2>2, <3>1, RemovalTold
  <2>3. CASE id \notin Present(e)
    <3>1. g = e BY <2>1, <2>3 DEF remove_session
    <3>2. FlagEvents(command, id) = <<>> BY <1>2, <2>3 DEF FlagEvents
    <3>3. apply_all(e, <<>>) = e BY AppliedNone
    <3>. QED BY <3>1, <3>2, <3>3 DEF Told
  <2>. QED BY <2>2, <2>3
<1>3. CASE command # "dismiss"
  <2>1. FlagEvents(command, id) = updated_events_for(g, Changed(e, g)) BY <1>3 DEF FlagEvents
  <2>2. CASE id \notin Present(e)
    <3>1. g = e
      BY <1>3, <2>2 DEF Obey, FlagCommands, apply_mute, apply_unmute, apply_solo, apply_focus
    <3>. QED BY <1>0, <1>1, <2>1, <3>1, FlagCommandTold
  <2>3. CASE id \in Present(e) /\ command = "mute"
    <3>1. g = apply_mute(e, id) BY <2>3 DEF Obey
    <3>2. BadgeStep(e, g) BY <1>0, <2>3, <3>1, CommandBadges
    <3>. DEFINE m == [s \in Present(e) |-> IF s = id THEN TRUE ELSE e.sessions[s].muted]
                o == [s \in Present(e) |-> IF s = id THEN FALSE ELSE e.sessions[s].soloed]
    <3>3. Reflagged(e, g, m, o) BY <1>0, <2>3, <3>1, MuteReflags
    <3>4. \A s \in Present(e) : ~(m[s] /\ o[s]) BY <1>1 DEF Polite
    <3>. HIDE DEF g, m, o
    <3>5. Told(e, g, updated_events_for(g, Changed(e, g))) BY <3>2, <3>3, <3>4, ReflagTold
    <3>. QED BY <2>1, <3>5 DEF g
  <2>4. CASE id \in Present(e) /\ command = "unmute"
    <3>1. g = apply_unmute(e, id) BY <2>4 DEF Obey
    <3>2. BadgeStep(e, g) BY <1>0, <2>4, <3>1, CommandBadges
    <3>. DEFINE m == [s \in Present(e) |-> IF s = id THEN FALSE ELSE e.sessions[s].muted]
                o == [s \in Present(e) |-> IF s = id THEN FALSE ELSE e.sessions[s].soloed]
    <3>3. Reflagged(e, g, m, o) BY <1>0, <2>4, <3>1, UnmuteReflags
    <3>4. \A s \in Present(e) : ~(m[s] /\ o[s]) BY <1>1 DEF Polite
    <3>. HIDE DEF g, m, o
    <3>5. Told(e, g, updated_events_for(g, Changed(e, g))) BY <3>2, <3>3, <3>4, ReflagTold
    <3>. QED BY <2>1, <3>5 DEF g
  <2>5. CASE id \in Present(e) /\ command = "solo"
    <3>1. g = apply_solo(e, id) BY <2>5 DEF Obey
    <3>2. BadgeStep(e, g) BY <1>0, <2>5, <3>1, CommandBadges
    <3>. DEFINE m == [s \in Present(e) |-> e.sessions[s].muted /\ s # id]
                o == [s \in Present(e) |-> s = id]
    <3>3. Reflagged(e, g, m, o) BY <1>0, <2>5, <3>1, SoloReflags
    <3>4. \A s \in Present(e) : ~(m[s] /\ o[s]) BY <1>1 DEF Polite
    <3>. HIDE DEF g, m, o
    <3>5. Told(e, g, updated_events_for(g, Changed(e, g))) BY <3>2, <3>3, <3>4, ReflagTold
    <3>. QED BY <2>1, <3>5 DEF g
  <2>6. CASE id \in Present(e) /\ command = "focus"
    <3>1. g = apply_focus(e, id) BY <2>6 DEF Obey
    <3>2. BadgeStep(e, g) BY <1>0, <3>1, FocusBadges
    <3>3. /\ Present(g) = Present(e) /\ g.older = e.older
          /\ \A s \in Present(e) : Alike(g.sessions[s], e.sessions[s])
      BY <1>0, <3>1, Focused
    <3>4. Sound(g) BY <1>0, <3>1, FocusSound
    <3>. HIDE DEF g
    <3>5. \A s \in Present(e) : Polite(g.sessions[s]) BY <1>1, <3>3, PoliteAlike
    <3>6. Told(e, g, updated_events_for(g, Changed(e, g)))
      BY <3>2, <3>3, <3>4, <3>5, FlagCommandTold DEF BadgeStep
    <3>. QED BY <2>1, <3>6 DEF g
  <2>. QED BY <1>3, <2>2, <2>3, <2>4, <2>5, <2>6 DEF FlagCommands
<1>. QED BY <1>2, <1>3

-----------------------------------------------------------------------------
(* The Hub and the socket keep the invariant.                              *)

LEMMA FrameTypes ==
  /\ Sent \subseteq Frame /\ Frame \subseteq Event
  /\ Seq(Sent) \subseteq Seq(Frame) /\ Seq(Frame) \subseteq Seq(Event)
<1>1. Sent \subseteq Frame /\ Frame \subseteq Event BY DEF Frame, Sent
<1>2. ASSUME NEW S, NEW T, S \subseteq T, NEW q \in Seq(S) PROVE q \in Seq(T)
  <2>1. Len(q) \in Nat /\ q = [i \in 1..Len(q) |-> q[i]] /\ \A i \in 1..Len(q) : q[i] \in S
    OBVIOUS
  <2>2. \A i \in 1..Len(q) : q[i] \in T BY <1>2, <2>1
  <2>. QED BY <2>1, <2>2
<1>. QED BY <1>1, <1>2

\* A store that a log leaves is fit.
LEMMA ReplayedFit ==
  ASSUME NEW e, Replayed(e)
  PROVE  Fit(e)
<1>1. e \in Engine /\ \A s \in Present(e) : e.sessions[s] \in Session BY PresentType DEF Replayed
<1>2. ASSUME NEW s \in Present(e) PROVE RolledUp(e.sessions[s])
  <2>1. RolledUp(recompute_rollups(e.sessions[s])) BY <1>1, Recomputed
  <2>2. recompute_rollups(e.sessions[s]) = e.sessions[s] BY DEF Replayed
  <2>. QED BY <2>1, <2>2
<1>. QED BY <1>1, <1>2 DEF Replayed, Fit, Well, Sound, AllRolledUp, BadgesTrue, Polite

LEMMA InitInv == Init => IInv
<1>. SUFFICES ASSUME Init PROVE IInv
  OBVIOUS
<1>1. Fit(engine) BY ReplayedFit, FaceConstants DEF Init
<1>2. /\ view(EmptyEngine) = NoRows /\ NoRows \in View
      /\ Pending(NoRows) = {} /\ waiting_count(NoRows) = 0
  BY EmptyView
<1>3. EmptyEngine \in Engine /\ Present(EmptyEngine) = {} BY EmptySound DEF Sound
<1>4. IsFiniteSet(Present(EmptyEngine)) BY <1>3, FS_EmptySet
<1>5. NoInbox \in Inbox /\ NoInbox.tabs = NoRows /\ NoInbox.connected = FALSE
  BY <1>2 DEF NoInbox, Inbox
<1>. HIDE DEF NoRows, NoInbox, EmptyEngine
<1>6. LinkOK BY DEF Init, LinkOK
<1>7. FaceOK BY <1>3, <1>4, <1>5 DEF Init, FaceOK, Unread
<1>8. RailOK BY <1>5 DEF Init, RailOK
<1>9. PingsFollowTheInbox BY <1>2 DEF Init, PingsFollowTheInbox
<1>10. WindowTellsInbox BY <1>2, <1>5 DEF Init, WindowTellsInbox
<1>. QED BY <1>1, <1>6, <1>7, <1>8, <1>9, <1>10 DEF IInv

\* The Hub goes from one store to the next and tells all of it.
LEMMA HubMoves ==
  ASSUME IInv, NEW after, NEW events, Told(engine, after, events),
         NEW commands \in Seq(Command), ~hub.up => commands = <<>>,
         engine' = after,
         hub' = [up |-> hub.up, wire |-> IF hub.up THEN hub.wire \o events ELSE hub.wire,
                 commands |-> commands],
         UNCHANGED <<channel, face, shared, window, pinged, known, emitted, rail>>
  PROVE  IInv'
<1>. DEFINE wire == IF hub.up THEN hub.wire \o events ELSE hub.wire
<1>1. /\ Fit(after) /\ events \in Seq(Sent) /\ events \in Seq(Frame)
      /\ apply_all(engine, events) = after
  BY FrameTypes DEF Told
<1>2. hub.wire \in Seq(Frame) /\ hub.up \in BOOLEAN BY DEF IInv, LinkOK
<1>3. wire \in Seq(Frame) BY <1>1, <1>2
<1>4. hub'.up = hub.up /\ hub'.wire = wire /\ hub'.commands = commands OBVIOUS
<1>5. hub.up => apply_all(face.model, wire) = after
  <2>. SUFFICES ASSUME hub.up PROVE apply_all(face.model, wire) = after
    OBVIOUS
  <2>1. apply_all(face.model, hub.wire) = engine BY DEF IInv, LinkOK
  <2>2. wire = hub.wire \o events OBVIOUS
  <2>3. apply_all(face.model, hub.wire \o events) = apply_all(apply_all(face.model, hub.wire), events)
    BY <1>1, <1>2, AppliedConcat
  <2>. QED BY <1>1, <2>1, <2>2, <2>3
<1>6. ASSUME hub.wire # <<>> PROVE wire # <<>> /\ Head(wire) = Head(hub.wire)
  <2>1. CASE ~hub.up BY <1>6, <2>1
  <2>2. CASE hub.up
    <3>1. wire = hub.wire \o events BY <2>2
    <3>. HIDE DEF wire
    <3>2. Len(wire) = Len(hub.wire) + Len(events) /\ Len(hub.wire) > 0 /\ wire[1] = hub.wire[1]
      BY <1>1, <1>2, <1>6, <3>1
    <3>. QED BY <1>1, <1>2, <1>6, <3>2
  <2>. QED BY <1>2, <2>1, <2>2
<1>7. ~hub.up => wire = <<>> BY DEF IInv, LinkOK
<1>. HIDE DEF wire
<1>8. LinkOK' BY <1>2, <1>3, <1>4, <1>5, <1>7 DEF IInv, LinkOK
<1>9. FaceOK' BY <1>4, <1>6 DEF IInv, FaceOK, Unread
<1>10. RailOK' BY DEF IInv, RailOK
<1>11. PingsFollowTheInbox' BY DEF IInv, PingsFollowTheInbox
<1>12. WindowTellsInbox' BY <1>4 DEF IInv, WindowTellsInbox
<1>. QED BY <1>1, <1>8, <1>9, <1>10, <1>11, <1>12 DEF IInv

LEMMA CommitStep ==
  ASSUME IInv, NEW after, NEW events, Told(engine, after, events), Commits(after, events)
  PROVE  IInv'
<1>1. /\ engine' = after
      /\ hub' = [hub EXCEPT !.wire = IF hub.up THEN @ \o events ELSE @]
      /\ UNCHANGED <<channel, face, shared, window, pinged, known, emitted, rail>>
  BY DEF Commits, Publishes
<1>2. /\ hub = [up |-> hub.up, wire |-> hub.wire, commands |-> hub.commands]
      /\ hub.commands \in Seq(Command) /\ (~hub.up => hub.commands = <<>>)
  BY DEF IInv, LinkOK
<1>3. hub' = [up |-> hub.up, wire |-> IF hub.up THEN hub.wire \o events ELSE hub.wire,
              commands |-> hub.commands]
  BY <1>1, <1>2
<1>. QED BY <1>1, <1>2, <1>3, HubMoves

LEMMA HubRegisterStep ==
  ASSUME IInv, NEW id \in SessionIds, NEW rid \in RunIds, NEW run \in RunInputs,
         HubRegister(id, rid, run)
  PROVE  IInv'
<1>. DEFINE after == upsert_session(engine, id, NewSession([NoRuns EXCEPT ![rid] = run]))
            events == session_upsert_events(after, id)
<1>1. id \notin Present(engine) /\ Commits(after, events) /\ Fit(engine) BY DEF HubRegister, IInv
<1>2. Told(engine, after, events) BY <1>1, RegisterTold
<1>. HIDE DEF after, events
<1>. QED BY <1>1, <1>2, CommitStep

LEMMA HubRunStep ==
  ASSUME IInv, NEW id \in SessionIds, NEW rid \in RunIds, NEW run \in RunInputs,
         HubRun(id, rid, run)
  PROVE  IInv'
<1>. DEFINE after == upsert_run(engine, id, rid, run)
            events == run_upsert_events(after, id, rid)
<1>1. id \in Present(engine) /\ Commits(after, events) /\ Fit(engine) BY DEF HubRun, IInv
<1>2. Told(engine, after, events) BY <1>1, RunTold
<1>. HIDE DEF after, events
<1>. QED BY <1>1, <1>2, CommitStep

LEMMA HubRemoveStep ==
  ASSUME IInv, NEW id \in SessionIds, HubRemove(id)
  PROVE  IInv'
<1>. DEFINE after == remove_session(engine, id)
            events == session_remove_events(engine, after, id)
<1>1. id \in Present(engine) /\ Commits(after, events) /\ Fit(engine) BY DEF HubRemove, IInv
<1>2. Told(engine, after, events) BY <1>1, RemovalTold
<1>. HIDE DEF after, events
<1>. QED BY <1>1, <1>2, CommitStep

LEMMA HubFlagStep ==
  ASSUME IInv, NEW command \in HubFlags, NEW id \in SessionIds, HubFlag(command, id)
  PROVE  IInv'
<1>1. command \in FlagCommands /\ Fit(engine) BY FaceConstants DEF IInv
<1>2. Told(engine, Obey(command, id), FlagEvents(command, id)) BY <1>1, CommandTold
<1>. QED BY <1>2, CommitStep DEF HubFlag

LEMMA HubHearsStep ==
  ASSUME IInv, HubHearsCommand
  PROVE  IInv'
<1>. DEFINE c == Head(hub.commands)
            after == Obey(c.command, c.id)
            events == FlagEvents(c.command, c.id)
<1>1. /\ hub = [up |-> hub.up, wire |-> hub.wire, commands |-> hub.commands]
      /\ hub.commands \in Seq(Command) /\ (~hub.up => hub.commands = <<>>) /\ hub.up \in BOOLEAN
  BY DEF IInv, LinkOK
<1>2. /\ hub.commands # <<>> /\ engine' = after
      /\ hub' = [hub EXCEPT !.commands = Tail(@), !.wire = @ \o events]
      /\ UNCHANGED <<channel, face, shared, window, pinged, known, emitted, rail>>
  BY DEF HubHearsCommand
<1>3. c \in Command /\ Tail(hub.commands) \in Seq(Command) BY <1>1, <1>2
<1>4. hub.up BY <1>1, <1>2
<1>5. c.command \in FlagCommands /\ c.id \in SessionIds BY <1>3 DEF Command
<1>6. Told(engine, after, events) BY <1>5, CommandTold DEF IInv
<1>. HIDE DEF after, events
<1>7. hub' = [up |-> hub.up, wire |-> IF hub.up THEN hub.wire \o events ELSE hub.wire,
              commands |-> Tail(hub.commands)]
  BY <1>1, <1>2, <1>4
<1>. QED BY <1>2, <1>3, <1>4, <1>6, <1>7, HubMoves

LEMMA ConnectStep ==
  ASSUME IInv, Connect
  PROVE  IInv'
<1>. DEFINE ev == Snapshot(engine)
<1>1. Fit(engine) /\ Well(engine) /\ engine \in Engine BY DEF IInv, Fit, Well, Sound
<1>2. ev \in Frame /\ ev.type = "fleet.snapshot" /\ ev.inbox = engine
  BY <1>1 DEF Snapshot, Frame, Event
<1>3. InboxModel_apply(face.model, ev) = engine BY <1>2 DEF InboxModel_apply
<1>4. apply_all(face.model, <<ev>>) = engine BY <1>3, AppliedOne
<1>. HIDE DEF ev
<1>5. <<ev>> \in Seq(Frame) /\ <<ev>> # <<>> /\ Head(<<ev>>) = ev BY <1>2
<1>6. /\ hub' = [up |-> TRUE, wire |-> <<ev>>, commands |-> <<>>] /\ ~hub.up
      /\ UNCHANGED <<engine, channel, face, shared, window, pinged, known, emitted, rail>>
  BY DEF Connect, ev
<1>7. LinkOK' BY <1>4, <1>5, <1>6 DEF IInv, LinkOK
<1>8. FaceOK' BY <1>2, <1>5, <1>6 DEF IInv, FaceOK, Unread
<1>9. RailOK' BY <1>6 DEF IInv, RailOK
<1>10. PingsFollowTheInbox' BY <1>6 DEF IInv, PingsFollowTheInbox
<1>11. WindowTellsInbox' BY <1>6 DEF IInv, WindowTellsInbox
<1>. QED BY <1>1, <1>6, <1>7, <1>8, <1>9, <1>10, <1>11 DEF IInv

LEMMA LinkSendsStep ==
  ASSUME IInv, LinkSends
  PROVE  IInv'
<1>1. /\ hub = [up |-> hub.up, wire |-> hub.wire, commands |-> hub.commands]
      /\ hub.commands \in Seq(Command) /\ channel \in Seq(Command)
      /\ hub.wire \in Seq(Frame) /\ hub.up \in BOOLEAN
  BY DEF IInv, LinkOK
<1>2. /\ hub.up /\ channel # <<>>
      /\ hub' = [hub EXCEPT !.commands = Append(@, Head(channel))]
      /\ channel' = Tail(channel)
      /\ UNCHANGED <<engine, face, shared, window, pinged, known, emitted, rail>>
  BY DEF LinkSends
<1>3. /\ Append(hub.commands, Head(channel)) \in Seq(Command)
      /\ Tail(channel) \in Seq(Command)
  BY <1>1, <1>2
<1>4. hub' = [up |-> hub.up, wire |-> hub.wire, commands |-> Append(hub.commands, Head(channel))]
  BY <1>1, <1>2
<1>5. LinkOK'
  <2>. HIDE DEF Command
  <2>. QED BY <1>1, <1>2, <1>3, <1>4 DEF IInv, LinkOK
<1>6. FaceOK' BY <1>2, <1>4 DEF IInv, FaceOK, Unread
<1>7. RailOK' BY <1>2 DEF IInv, RailOK
<1>8. PingsFollowTheInbox' BY <1>2 DEF IInv, PingsFollowTheInbox
<1>9. WindowTellsInbox' BY <1>2, <1>4 DEF IInv, WindowTellsInbox
<1>. QED BY <1>2, <1>5, <1>6, <1>7, <1>8, <1>9 DEF IInv

-----------------------------------------------------------------------------
(* The link task keeps the invariant.                                      *)

\* A view of an engine with finitely many sessions has a count.
LEMMA CountType ==
  ASSUME NEW e \in Engine, IsFiniteSet(Present(e))
  PROVE  waiting_count(view(e)) \in Nat
<1>1. Shown(view(e)) = Present(e) BY ViewType
<1>2. Pending(view(e)) \subseteq Present(e) BY <1>1 DEF Pending, should_notify
<1>. QED BY <1>2, FS_Subset, FS_CardinalityType DEF waiting_count

\* Pushed or not, the inbox is shared and the window tells what it told before
\* of the new one.
LEMMA Pushed ==
  ASSUME NEW rendered \in Inbox, NEW fires, NEW resolves, push(rendered, fires, resolves),
         emitted \in Seq(Inbox),
         waiting_count(shared.tabs) \in Nat, waiting_count(rendered.tabs) \in Nat,
         window.badge = waiting_count(shared.tabs),
         window.attention => waiting_count(shared.tabs) > 0
  PROVE  /\ shared' = rendered /\ emitted' \in Seq(Inbox)
         /\ window'.badge = waiting_count(rendered.tabs)
         /\ window'.attention => waiting_count(rendered.tabs) > 0
         /\ window.title = fleet_window_title(shared)
              \/ fleet_window_title(rendered) # fleet_window_title(shared)
            => window'.title = fleet_window_title(rendered)
<1>1. CASE rendered = shared /\ fires = {} /\ resolves = {}
  BY <1>1 DEF push
<1>2. CASE ~(rendered = shared /\ fires = {} /\ resolves = {})
  <2>1. /\ \E focused \in BOOLEAN :
             window' = window_indicator_update(shared, rendered, fires, focused)
        /\ shared' = rendered
        /\ emitted' = IF rail.boot.phase = "starting" THEN emitted ELSE Append(emitted, rendered)
    BY <1>2 DEF push
  <2>2. PICK focused \in BOOLEAN : window' = window_indicator_update(shared, rendered, fires, focused)
    BY <2>1
  <2>. DEFINE before == waiting_count(shared.tabs)
              now    == waiting_count(rendered.tabs)
              title  == fleet_window_title(rendered)
  <2>3. window' = [title     |-> IF title = fleet_window_title(shared) THEN window.title ELSE title,
                   badge     |-> IF now = before THEN window.badge ELSE now,
                   attention |-> CASE now = 0 /\ before > 0 -> FALSE
                                   [] now > 0 /\ (fires # {} \/ now > before) /\ ~focused -> TRUE
                                   [] OTHER -> window.attention]
    BY <2>2 DEF window_indicator_update
  <2>4. emitted' \in Seq(Inbox)
    <3>. HIDE DEF Inbox
    <3>. QED BY <2>1
  <2>. HIDE DEF before, now, title
  <2>5. before \in Nat /\ now \in Nat BY DEF before, now
  <2>6. window'.badge = now /\ (window.title = fleet_window_title(shared)
                                  \/ title # fleet_window_title(shared) => window'.title = title)
    BY <2>3 DEF before
  <2>7. window'.attention => now > 0
    <3>1. window.attention => before > 0 BY DEF before
    <3>2. CASE now > 0 BY <3>2
    <3>3. CASE now = 0 /\ before > 0 BY <2>3, <2>5, <3>3
    <3>4. CASE now = 0 /\ ~(before > 0)
      <4>1. window'.attention = window.attention BY <2>3, <2>5, <3>4
      <4>. QED BY <3>1, <3>4, <4>1
    <3>. QED BY <2>5, <3>2, <3>3, <3>4
  <2>. QED BY <2>1, <2>4, <2>6, <2>7 DEF now, title
<1>. QED BY <1>1, <1>2

\* What the host shows is what its model says, from the first.
LEMMA SharedTabs ==
  ASSUME IInv
  PROVE  /\ shared.tabs = view(face.model)
         /\ waiting_count(shared.tabs) \in Nat
<1>1. face.model \in Engine /\ IsFiniteSet(Present(face.model)) BY DEF IInv, FaceOK
<1>2. face.seen_snapshot => shared.tabs = view(face.model) BY DEF IInv, WindowTellsInbox
<1>3. ~face.seen_snapshot => shared.tabs = view(face.model)
  <2>1. ~face.seen_snapshot => shared = NoInbox /\ face.model = EmptyEngine BY DEF IInv, FaceOK, Unread
  <2>2. NoInbox.tabs = view(EmptyEngine) BY EmptyView DEF NoInbox
  <2>. QED BY <2>1, <2>2
<1>4. shared.tabs = view(face.model) BY <1>2, <1>3
<1>. QED BY <1>1, <1>4, CountType

\* The pings that fire and resolve take one set of pending pings to the next.
LEMMA PingsMove ==
  ASSUME NEW old, NEW new, NEW p, NEW k, p \cup k = Pending(old), p \cap k = {}
  PROVE  LET fires    == Fires(old, new)
             resolves == AutoResolves(old, new)
         IN  /\ ((p \ resolves) \cup fires) \cup ((k \ resolves) \ fires) = Pending(new)
             /\ ((p \ resolves) \cup fires) \cap ((k \ resolves) \ fires) = {}
<1>1. Fires(old, new) \subseteq Pending(new) /\ Pending(new) \ Pending(old) \subseteq Fires(old, new)
  BY DEF Fires
<1>. QED BY <1>1 DEF AutoResolves

LEMMA FaceReceivesStep ==
  ASSUME IInv, FaceReceives
  PROVE  IInv'
<1>. DEFINE w     == hub.wire
            ev    == Head(w)
            model == InboxModel_apply(face.model, ev)
            old   == view(face.model)
            new   == view(model)
            next  == [tabs |-> new, connected |-> TRUE]
            derive   == event_derives_notifications(ev)
            fires    == IF derive THEN Fires(old, new) ELSE {}
            resolves == IF derive THEN AutoResolves(old, new) ELSE {}
<1>1. /\ w # <<>> /\ Reduces(ev, model, old, new)
      /\ hub' = [hub EXCEPT !.wire = Tail(@)]
      /\ UNCHANGED <<engine, channel, rail>>
  BY DEF FaceReceives
<1>2. /\ hub = [up |-> hub.up, wire |-> w, commands |-> hub.commands]
      /\ hub.commands \in Seq(Command) /\ w \in Seq(Frame) /\ hub.up \in BOOLEAN
      /\ face = [model |-> face.model, seen_snapshot |-> face.seen_snapshot]
      /\ face.model \in Engine /\ IsFiniteSet(Present(face.model)) /\ face.seen_snapshot \in BOOLEAN
      /\ shared \in Inbox
  BY DEF IInv, LinkOK, FaceOK
<1>3. hub.up BY <1>1, <1>2 DEF IInv, LinkOK
<1>4. ev \in Frame /\ Tail(w) \in Seq(Frame)
  <2>. HIDE DEF w
  <2>. QED BY <1>1, <1>2
<1>5. ev \in Event /\ (ev.type = "fleet.snapshot" => IsFiniteSet(Present(ev.inbox)))
  BY <1>4 DEF Frame, Sent, Well
<1>. HIDE DEF ev
<1>6. model \in Engine /\ IsFiniteSet(Present(model)) BY <1>2, <1>5, ReducerType
<1>7. apply_all(model, Tail(w)) = engine
  <2>1. apply_all(face.model, w) = engine BY <1>3 DEF IInv, LinkOK
  <2>2. apply_all(face.model, w) = apply_all(model, Tail(w)) BY <1>1, <1>2, AppliedHead DEF ev
  <2>. QED BY <2>1, <2>2
<1>8. hub' = [up |-> hub.up, wire |-> Tail(w), commands |-> hub.commands] BY <1>1, <1>2
<1>9. ~face.seen_snapshot => ev.type = "fleet.snapshot" /\ pinged = {} /\ known = {}
  BY <1>3 DEF IInv, FaceOK, Unread, ev
<1>10. /\ face' = [model |-> model,
                   seen_snapshot |-> face.seen_snapshot \/ ev.type = "fleet.snapshot"]
       /\ pinged' = (pinged \ resolves) \cup fires
       /\ known' = IF derive THEN (known \ resolves) \ fires ELSE Pending(new)
       /\ push(next, fires, resolves)
  BY <1>1 DEF Reduces
<1>11. face'.model = model /\ face'.seen_snapshot = TRUE /\ face' \in [model : Engine, seen_snapshot : BOOLEAN]
  BY <1>2, <1>6, <1>9, <1>10
<1>12. derive <=> face.seen_snapshot BY <1>9 DEF event_derives_notifications
<1>13. new \in View /\ next \in Inbox /\ next.tabs = new /\ next.connected = TRUE
  <2>1. new \in View BY <1>6, ViewType
  <2>. HIDE DEF new
  <2>. QED BY <2>1 DEF Inbox
<1>14. waiting_count(new) \in Nat BY <1>6, CountType
<1>. HIDE DEF model, derive
<1>15. PingsFollowTheInbox'
  <2>0. pinged \cup known = Pending(old) /\ pinged \cap known = {}
    BY DEF IInv, PingsFollowTheInbox
  <2>. HIDE DEF old, new
  <2>1. pinged' \cup known' = Pending(new) /\ pinged' \cap known' = {}
    <3>1. CASE derive
      <4>1. /\ pinged' = (pinged \ AutoResolves(old, new)) \cup Fires(old, new)
            /\ known' = (known \ AutoResolves(old, new)) \ Fires(old, new)
        BY <1>10, <3>1
      <4>. QED BY <2>0, <4>1, PingsMove
    <3>2. CASE ~derive
      <4>1. pinged' = {} /\ known' = Pending(new) BY <1>9, <1>10, <1>12, <3>2
      <4>. QED BY <4>1
    <3>. QED BY <3>1, <3>2
  <2>2. view(face'.model) = new BY <1>11 DEF new
  <2>. QED BY <2>1, <2>2 DEF PingsFollowTheInbox
<1>. HIDE DEF new, fires, resolves
<1>16. /\ shared' = next /\ emitted' \in Seq(Inbox)
       /\ window'.badge = waiting_count(next.tabs)
       /\ window'.attention => waiting_count(next.tabs) > 0
       /\ window.title = fleet_window_title(shared)
            \/ fleet_window_title(next) # fleet_window_title(shared)
          => window'.title = fleet_window_title(next)
  <2>1. emitted \in Seq(Inbox) BY DEF IInv, RailOK
  <2>2. waiting_count(shared.tabs) \in Nat BY SharedTabs
  <2>3. window.badge = waiting_count(shared.tabs) /\ (window.attention => waiting_count(shared.tabs) > 0)
    BY DEF IInv, WindowTellsInbox
  <2>4. waiting_count(next.tabs) \in Nat BY <1>13, <1>14
  <2>. HIDE DEF next
  <2>. QED BY <1>10, <1>13, <2>1, <2>2, <2>3, <2>4, Pushed
<1>17. window'.title = fleet_window_title(next)
  <2>1. CASE face.seen_snapshot BY <1>16, <2>1 DEF IInv, WindowTellsInbox
  <2>2. CASE ~face.seen_snapshot
    <3>1. shared.connected = FALSE BY <2>2 DEF IInv, FaceOK, Unread, NoInbox
    <3>2. fleet_window_title(next) # fleet_window_title(shared) BY <1>13, <3>1 DEF fleet_window_title
    <3>. QED BY <1>16, <3>2
  <2>. QED BY <2>1, <2>2
<1>18. WindowTellsInbox'
  <2>1. view(face'.model) = new BY <1>11 DEF new
  <2>2. hub'.up = TRUE BY <1>3, <1>8
  <2>. HIDE DEF next
  <2>. QED BY <1>13, <1>16, <1>17, <2>1, <2>2 DEF WindowTellsInbox
<1>19. LinkOK' BY <1>1, <1>2, <1>3, <1>4, <1>7, <1>8, <1>11 DEF IInv, LinkOK
<1>20. FaceOK' BY <1>6, <1>11, <1>13, <1>16 DEF FaceOK
<1>21. RailOK' BY <1>1, <1>16 DEF IInv, RailOK
<1>. QED BY <1>1, <1>15, <1>18, <1>19, <1>20, <1>21 DEF IInv

LEMMA BreakStep ==
  ASSUME IInv, Break
  PROVE  IInv'
<1>. DEFINE next == [shared EXCEPT !.connected = FALSE]
<1>1. /\ hub' = [up |-> FALSE, wire |-> <<>>, commands |-> <<>>]
      /\ push(next, {}, {})
      /\ UNCHANGED <<engine, channel, face, pinged, known, rail>>
  BY DEF Break
<1>2. shared \in Inbox BY DEF IInv, FaceOK
<1>3. next \in Inbox /\ next.tabs = shared.tabs /\ next.connected = FALSE
  BY <1>2 DEF Inbox
<1>. HIDE DEF next
<1>4. ASSUME shared = NoInbox PROVE next = NoInbox
  <2>1. NoInbox.tabs = NoRows /\ NoInbox.connected = FALSE BY DEF NoInbox
  <2>2. next.tabs = NoRows BY <1>3, <1>4, <2>1
  <2>3. next = [tabs |-> next.tabs, connected |-> next.connected] BY <1>3 DEF Inbox
  <2>. QED BY <1>3, <2>2, <2>3 DEF NoInbox
<1>5. shared.tabs = view(face.model) /\ waiting_count(shared.tabs) \in Nat BY SharedTabs
<1>6. /\ emitted \in Seq(Inbox)
      /\ window.badge = waiting_count(shared.tabs)
      /\ window.attention => waiting_count(shared.tabs) > 0
      /\ face.seen_snapshot => window.title = fleet_window_title(shared)
  BY DEF IInv, RailOK, WindowTellsInbox
<1>7. /\ shared' = next /\ emitted' \in Seq(Inbox)
      /\ window'.badge = waiting_count(next.tabs)
      /\ window'.attention => waiting_count(next.tabs) > 0
      /\ window.title = fleet_window_title(shared)
           \/ fleet_window_title(next) # fleet_window_title(shared)
         => window'.title = fleet_window_title(next)
  BY <1>1, <1>3, <1>5, <1>6, Pushed
<1>8. WindowTellsInbox' BY <1>1, <1>3, <1>5, <1>6, <1>7 DEF WindowTellsInbox
<1>9. LinkOK' BY <1>1 DEF IInv, LinkOK
<1>10. FaceOK' BY <1>1, <1>3, <1>4, <1>7 DEF IInv, FaceOK, Unread
<1>11. RailOK' BY <1>1, <1>7 DEF IInv, RailOK
<1>12. PingsFollowTheInbox' BY <1>1 DEF IInv, PingsFollowTheInbox
<1>. QED BY <1>1, <1>8, <1>9, <1>10, <1>11, <1>12 DEF IInv

-----------------------------------------------------------------------------
(* The rail keeps the invariant.                                           *)

\* A step of the rail that keeps its types.
LEMMA RailMoves ==
  ASSUME IInv, RailOK', channel' \in Seq(Command),
         UNCHANGED <<engine, hub, face, shared, window, pinged, known>>
  PROVE  IInv'
<1>1. LinkOK' BY DEF IInv, LinkOK
<1>2. FaceOK' BY DEF IInv, FaceOK, Unread
<1>3. PingsFollowTheInbox' BY DEF IInv, PingsFollowTheInbox
<1>4. WindowTellsInbox' BY DEF IInv, WindowTellsInbox
<1>. QED BY <1>1, <1>2, <1>3, <1>4 DEF IInv

Rail == [boot  : [phase : {"starting", "loading", "answered", "loaded"},
                  inbox : Inbox, newer : BOOLEAN],
         inbox : Inbox, ops : SUBSET Operation]

\* A new copy of the inbox; whatever is under way has been overtaken.
LEMMA NewCopy ==
  ASSUME rail \in Rail, NEW next \in Inbox
  PROVE  /\ WithInbox(next) \in Rail
         /\ WithInbox(next).inbox = next
         /\ WithInbox(next).boot.phase = rail.boot.phase
         /\ WithInbox(next).boot.inbox = rail.boot.inbox
         /\ \A o \in WithInbox(next).ops : o.newer
<1>. DEFINE ops == {[o EXCEPT !.newer = TRUE] : o \in rail.ops}
            newer == rail.boot.phase = "answered"
<1>1. rail.ops \subseteq Operation BY DEF Rail
<1>2. ops \subseteq Operation /\ \A o \in ops : o.newer
  <2>1. ASSUME NEW o \in rail.ops
        PROVE  [o EXCEPT !.newer = TRUE] \in Operation /\ [o EXCEPT !.newer = TRUE].newer
    <3>1. o \in Operation BY <1>1
    <3>. QED BY <3>1 DEF Operation
  <2>. QED BY <2>1
<1>3. newer \in BOOLEAN OBVIOUS
<1>4. /\ rail = [boot |-> rail.boot, inbox |-> rail.inbox, ops |-> rail.ops]
      /\ rail.boot = [phase |-> rail.boot.phase, inbox |-> rail.boot.inbox, newer |-> rail.boot.newer]
  BY DEF Rail
<1>5. WithInbox(next) = [rail EXCEPT !.inbox = next, !.boot.newer = newer, !.ops = ops]
  BY DEF WithInbox
<1>. HIDE DEF ops, newer
<1>6. WithInbox(next) = [boot  |-> [phase |-> rail.boot.phase, inbox |-> rail.boot.inbox, newer |-> newer],
                         inbox |-> next, ops |-> ops]
  BY <1>4, <1>5
<1>7. rail.boot.phase \in {"starting", "loading", "answered", "loaded"} /\ rail.boot.inbox \in Inbox
  BY DEF Rail
<1>. QED BY <1>2, <1>3, <1>6, <1>7 DEF Rail

LEMMA RailType ==
  ASSUME IInv
  PROVE  rail \in Rail /\ emitted \in Seq(Inbox) /\ shared \in Inbox /\ channel \in Seq(Command)
BY DEF IInv, RailOK, FaceOK, LinkOK, Rail

LEMMA RailTyped ==
  ASSUME rail' \in Rail, emitted' \in Seq(Inbox)
  PROVE  RailOK'
BY DEF RailOK, Rail

\* Reconciled rows are rows.
LEMMA DerivedType ==
  ASSUME NEW v, NEW w \in View
  PROVE  deriveInboxTabs(v, w) \in View
<1>1. \A s \in Shown(w) : w[s] \in Row BY DEF Shown, View
<1>2. ASSUME NEW s \in Shown(w), NEW b \in BOOLEAN PROVE [w[s] EXCEPT !.unread = b] \in Row
  BY <1>1 DEF Row
<1>3. ASSUME NEW s \in Shown(w)
      PROVE  [w[s] EXCEPT !.unread =
               CASE ~shouldNotifyTab(v, s) /\ shouldNotifyTab(w, s) -> TRUE
                 [] shouldNotifyTab(v, s) /\ ~shouldNotifyTab(w, s) -> FALSE
                 [] OTHER -> @] \in Row
  <2>1. w[s].unread \in BOOLEAN BY <1>1 DEF Row
  <2>2. (CASE ~shouldNotifyTab(v, s) /\ shouldNotifyTab(w, s) -> TRUE
           [] shouldNotifyTab(v, s) /\ ~shouldNotifyTab(w, s) -> FALSE
           [] OTHER -> w[s].unread) \in BOOLEAN
    BY <2>1
  <2>. QED BY <1>2, <2>2
<1>. QED BY <1>3 DEF deriveInboxTabs, View

LEMMA FlaggedType ==
  ASSUME NEW tab \in Row, NEW a \in BOOLEAN, NEW b \in BOOLEAN
  PROVE  /\ Flagged(tab, a, b) \in Row
         /\ [tab EXCEPT !.unread = FALSE] \in Row
BY DEF Flagged, Row

LEMMA OptimismType ==
  ASSUME NEW v \in View, NEW id \in SessionIds, NEW action, NEW value \in BOOLEAN
  PROVE  Optimism(v, id, action, value) \in View
<1>1. \A s \in Shown(v) : v[s] \in Row BY DEF Shown, View
<1>2. applyLocalMute(v, id, value) \in View
  <2>. DEFINE w == [s \in SessionIds |-> IF s = id /\ s \in Shown(v) THEN Flagged(v[s], value, FALSE) ELSE v[s]]
  <2>1. w \in View BY <1>1, FlaggedType DEF View
  <2>. HIDE DEF w
  <2>. QED BY <2>1, DerivedType DEF applyLocalMute, w
<1>3. applyLocalSolo(v, id, value) \in View
  <2>. DEFINE row(s) == CASE s \notin Shown(v) -> Absent
                          [] s \in Shown(v) /\ s = id -> Flagged(v[s], FALSE, value)
                          [] s \in Shown(v) /\ s # id /\ value -> Flagged(v[s], v[s].muted, FALSE)
                          [] OTHER -> v[s]
              w == [s \in SessionIds |-> row(s)]
  <2>1. ASSUME NEW s \in SessionIds PROVE row(s) \in Row \cup {Absent}
    <3>1. CASE s \notin Shown(v) BY <3>1
    <3>2. CASE s \in Shown(v) /\ s = id
      <4>1. row(s) = Flagged(v[s], FALSE, value) BY <3>2
      <4>. QED BY <1>1, <3>2, <4>1, FlaggedType
    <3>3. CASE s \in Shown(v) /\ s # id /\ value
      <4>1. row(s) = Flagged(v[s], v[s].muted, FALSE) BY <3>3
      <4>2. v[s].muted \in BOOLEAN BY <1>1, <3>3 DEF Row
      <4>. QED BY <1>1, <3>3, <4>1, <4>2, FlaggedType
    <3>4. CASE s \in Shown(v) /\ s # id /\ ~value BY <1>1, <3>4
    <3>. QED BY <3>1, <3>2, <3>3, <3>4
  <2>. HIDE DEF row
  <2>2. w \in View BY <2>1 DEF View
  <2>3. applyLocalSolo(v, id, value) = deriveInboxTabs(v, w) BY DEF applyLocalSolo, row
  <2>. HIDE DEF w
  <2>. QED BY <2>2, <2>3, DerivedType
<1>4. applyLocalFocus(v, id) \in View
  <2>. DEFINE w == [s \in SessionIds |-> IF s = id /\ s \in Shown(v) THEN [v[s] EXCEPT !.unread = FALSE] ELSE v[s]]
  <2>1. w \in View BY <1>1, FlaggedType DEF View
  <2>. HIDE DEF w
  <2>. QED BY <2>1, DerivedType DEF applyLocalFocus, w
<1>. QED BY <1>2, <1>3, <1>4 DEF Optimism

LEMMA RemovalType ==
  ASSUME NEW v \in View, NEW id \in SessionIds
  PROVE  removeInboxSession(v, id) \in View
<1>1. [v EXCEPT ![id] = Absent] \in View BY DEF View
<1>. QED BY <1>1, DerivedType DEF removeInboxSession

LEMMA RailListensStep ==
  ASSUME IInv, RailListens
  PROVE  IInv'
<1>1. /\ rail \in Rail /\ emitted \in Seq(Inbox) /\ channel \in Seq(Command) BY RailType
<1>2. /\ rail' = [rail EXCEPT !.boot.phase = "loading"]
      /\ UNCHANGED <<engine, hub, channel, face, shared, window, pinged, known, emitted>>
  BY DEF RailListens
<1>3. rail' \in Rail BY <1>1, <1>2 DEF Rail
<1>4. RailOK' BY <1>1, <1>2, <1>3, RailTyped
<1>. QED BY <1>1, <1>2, <1>4, RailMoves

LEMMA GetInboxStep ==
  ASSUME IInv, get_inbox
  PROVE  IInv'
<1>1. /\ rail \in Rail /\ emitted \in Seq(Inbox) /\ channel \in Seq(Command) /\ shared \in Inbox
  BY RailType
<1>2. /\ rail' = [rail EXCEPT !.boot = [phase |-> "answered", inbox |-> shared, newer |-> FALSE]]
      /\ UNCHANGED <<engine, hub, channel, face, shared, window, pinged, known, emitted>>
  BY DEF get_inbox
<1>. HIDE DEF Inbox
<1>3. rail' \in Rail BY <1>1, <1>2 DEF Rail
<1>4. RailOK' BY <1>1, <1>2, <1>3, RailTyped
<1>. QED BY <1>1, <1>2, <1>4, RailMoves

LEMMA RailBootsStep ==
  ASSUME IInv, RailBoots
  PROVE  IInv'
<1>. DEFINE copy == WithInbox(rail.boot.inbox)
<1>1. /\ rail \in Rail /\ emitted \in Seq(Inbox) /\ channel \in Seq(Command) BY RailType
<1>2. /\ rail' = [copy EXCEPT !.boot = [phase |-> "loaded", inbox |-> NoInbox, newer |-> FALSE]]
      /\ UNCHANGED <<engine, hub, channel, face, shared, window, pinged, known, emitted>>
  BY DEF RailBoots
<1>3. NoInbox \in Inbox BY EmptyView DEF NoInbox, Inbox
<1>4. rail.boot.inbox \in Inbox BY <1>1 DEF Rail
<1>5. copy \in Rail BY <1>1, <1>4, NewCopy
<1>. HIDE DEF copy, Inbox
<1>6. rail' \in Rail BY <1>2, <1>3, <1>5 DEF Rail
<1>7. RailOK' BY <1>1, <1>2, <1>6, RailTyped
<1>. QED BY <1>1, <1>2, <1>7, RailMoves

LEMMA RailHearsStep ==
  ASSUME IInv, RailHears
  PROVE  IInv'
<1>1. /\ rail \in Rail /\ emitted \in Seq(Inbox) /\ channel \in Seq(Command) BY RailType
<1>2. /\ emitted # <<>> /\ rail' = WithInbox(Head(emitted)) /\ emitted' = Tail(emitted)
      /\ UNCHANGED <<engine, hub, channel, face, shared, window, pinged, known>>
  BY DEF RailHears
<1>3. Head(emitted) \in Inbox /\ Tail(emitted) \in Seq(Inbox) BY <1>1, <1>2
<1>4. rail' \in Rail BY <1>1, <1>2, <1>3, NewCopy
<1>5. RailOK' BY <1>2, <1>3, <1>4, RailTyped
<1>. QED BY <1>1, <1>2, <1>5, RailMoves

\* A click leaves the copy its optimism makes, and an operation under way.
LEMMA ClickedRail ==
  ASSUME rail \in Rail, NEW id \in SessionIds, NEW action \in Clicks, NEW value \in BOOLEAN,
         RailClicks(id, action, value)
  PROVE  /\ rail' \in Rail
         /\ rail'.inbox.tabs = Optimism(rail.inbox.tabs, id, action, value)
         /\ Op(id, action, value) \in Operation
         /\ \A o \in rail'.ops \ rail.ops : o = Op(id, action, value) \/ o.newer
<1>. DEFINE op      == Op(id, action, value)
            shown   == Optimism(rail.inbox.tabs, id, action, value)
            changed == [rail.inbox EXCEPT !.tabs = shown]
            after   == IF action = "dismiss" THEN rail ELSE WithInbox(changed)
<1>1. action \in {"mute", "solo", "focus", "dismiss"} BY FaceConstants
<1>2. rail.inbox \in Inbox BY DEF Rail
<1>3. op \in Operation BY <1>1, <1>2 DEF Op, Operation
<1>4. rail' = [after EXCEPT !.ops = @ \cup {op}] BY DEF RailClicks
<1>5. shown \in View BY <1>2, OptimismType DEF Inbox
<1>. HIDE DEF shown, op
<1>6. changed \in Inbox /\ changed.tabs = shown BY <1>2, <1>5 DEF Inbox
<1>7. CASE action = "dismiss"
  <2>1. after = rail BY <1>7
  <2>2. shown = rail.inbox.tabs BY <1>7 DEF shown, Optimism
  <2>3. rail' \in Rail /\ rail'.inbox = rail.inbox /\ rail'.ops = rail.ops \cup {op}
    <3>. HIDE DEF after, Inbox, Operation
    <3>. QED BY <1>3, <1>4, <2>1 DEF Rail
  <2>. QED BY <1>3, <2>2, <2>3 DEF shown, op
<1>8. CASE action # "dismiss"
  <2>1. after = WithInbox(changed) BY <1>8
  <2>. HIDE DEF after, changed
  <2>2. after \in Rail /\ after.inbox = changed /\ \A o \in after.ops : o.newer
    BY <1>6, <2>1, NewCopy
  <2>3. rail' \in Rail /\ rail'.inbox = after.inbox /\ rail'.ops = after.ops \cup {op}
    <3>. HIDE DEF Inbox, Operation
    <3>. QED BY <1>3, <1>4, <2>2 DEF Rail
  <2>. QED BY <1>3, <1>6, <2>2, <2>3 DEF shown, op
<1>. QED BY <1>7, <1>8

LEMMA RailClicksStep ==
  ASSUME IInv, NEW id \in SessionIds, NEW action \in Clicks, NEW value \in BOOLEAN,
         RailClicks(id, action, value)
  PROVE  IInv'
<1>1. /\ rail \in Rail /\ emitted \in Seq(Inbox) /\ channel \in Seq(Command) BY RailType
<1>2. UNCHANGED <<engine, hub, channel, face, shared, window, pinged, known, emitted>>
  BY DEF RailClicks
<1>3. rail' \in Rail BY <1>1, ClickedRail
<1>4. RailOK' BY <1>1, <1>2, <1>3, RailTyped
<1>. QED BY <1>1, <1>2, <1>4, RailMoves

\* A row that goes with its server: the copy loses it, and an answer that would
\* roll back finds a newer inbox.
LEMMA ClosedRow ==
  ASSUME rail \in Rail, NEW id \in SessionIds, RailCloses(id)
  PROVE  rail' \in Rail /\ \A o \in rail'.ops \ rail.ops : o.newer
<1>. DEFINE fewer    == removeInboxSession(rail.inbox.tabs, id)
            aged(o)  == [o EXCEPT !.newer = @ \/ o.action # "dismiss"]
            ops      == {aged(o) : o \in rail.ops}
<1>1. rail' = [rail EXCEPT !.inbox.tabs = fewer, !.ops = ops] BY DEF RailCloses
<1>2. rail.inbox \in Inbox /\ rail.ops \subseteq Operation BY DEF Rail
<1>3. fewer \in View BY <1>2, RemovalType DEF Inbox
<1>4. ASSUME NEW o \in rail.ops
      PROVE  aged(o) \in Operation /\ (aged(o) = o \/ aged(o).newer)
  <2>1. o \in Operation BY <1>2
  <2>2. o.newer \in BOOLEAN BY <2>1 DEF Operation
  <2>3. CASE o.action = "dismiss"
    <3>1. aged(o) = [o EXCEPT !.newer = o.newer] BY <2>2, <2>3
    <3>. QED BY <2>1, <3>1 DEF Operation
  <2>4. CASE o.action # "dismiss"
    <3>1. aged(o) = [o EXCEPT !.newer = TRUE] BY <2>4
    <3>. QED BY <2>1, <3>1 DEF Operation
  <2>. QED BY <2>3, <2>4
<1>. HIDE DEF fewer, aged
<1>5. ops \subseteq Operation BY <1>4
<1>6. \A o \in ops : o \in rail.ops \/ o.newer BY <1>4
<1>7. [rail.inbox EXCEPT !.tabs = fewer] \in Inbox BY <1>2, <1>3 DEF Inbox
<1>. HIDE DEF ops
<1>8. rail' = [[rail EXCEPT !.inbox = [rail.inbox EXCEPT !.tabs = fewer]] EXCEPT !.ops = ops]
  BY <1>1 DEF Rail
<1>9. rail' \in Rail /\ rail'.ops = ops
  <2>. HIDE DEF Inbox, Operation
  <2>. QED BY <1>5, <1>7, <1>8 DEF Rail
<1>. QED BY <1>6, <1>9

LEMMA RailClosesStep ==
  ASSUME IInv, NEW id \in Served, RailCloses(id)
  PROVE  IInv'
<1>1. /\ rail \in Rail /\ emitted \in Seq(Inbox) /\ channel \in Seq(Command) BY RailType
<1>2. UNCHANGED <<engine, hub, channel, face, shared, window, pinged, known, emitted>>
  BY DEF RailCloses
<1>3. id \in SessionIds BY FaceConstants
<1>4. rail' \in Rail BY <1>1, <1>3, ClosedRow
<1>5. RailOK' BY <1>1, <1>2, <1>4, RailTyped
<1>. QED BY <1>1, <1>2, <1>5, RailMoves

LEMMA HostAnswersStep ==
  ASSUME IInv, NEW o \in rail.ops, HostAnswers(o)
  PROVE  IInv'
<1>. DEFINE answer == IF shared.connected THEN "ok" ELSE "failed"
            c == [command |-> CommandOf(o), id |-> o.id]
            done == [o EXCEPT !.answer = answer]
            ops == (rail.ops \ {o}) \cup {done}
<1>1. /\ rail \in Rail /\ emitted \in Seq(Inbox) /\ channel \in Seq(Command) BY RailType
<1>2. /\ channel' = IF shared.connected THEN Append(channel, c) ELSE channel
      /\ rail' = [rail EXCEPT !.ops = ops]
      /\ UNCHANGED <<engine, hub, face, shared, window, pinged, known, emitted>>
  BY DEF HostAnswers
<1>3. rail.ops \subseteq Operation BY <1>1 DEF Rail
<1>4. o \in Operation BY <1>3
<1>5. c \in Command BY <1>4 DEF Operation, Command, CommandOf, FlagCommands
<1>6. answer \in {"none", "ok", "failed"} OBVIOUS
<1>. HIDE DEF answer, c
<1>7. done \in Operation BY <1>4, <1>6 DEF Operation
<1>8. ops \subseteq Operation BY <1>3, <1>7
<1>. HIDE DEF ops
<1>9. channel' \in Seq(Command)
  <2>. HIDE DEF Command
  <2>. QED BY <1>1, <1>2, <1>5
<1>10. rail' \in Rail
  <2>. HIDE DEF Inbox, Operation
  <2>. QED BY <1>1, <1>2, <1>8 DEF Rail
<1>11. RailOK' BY <1>1, <1>2, <1>10, RailTyped
<1>. QED BY <1>2, <1>9, <1>11, RailMoves

\* What an answer leaves.
LEMMA OutcomeType ==
  ASSUME rail \in Rail, NEW o \in Operation
  PROVE  /\ Outcome(o) \in Rail
         /\ o.answer = "ok" /\ o.action = "dismiss" =>
              Outcome(o).inbox.tabs = removeInboxSession(rail.inbox.tabs, o.id)
<1>. DEFINE without == [rail.inbox EXCEPT !.tabs = removeInboxSession(@, o.id)]
<1>1. rail.inbox \in Inbox BY DEF Rail
<1>2. o.prev \in Inbox /\ o.id \in SessionIds BY DEF Operation
<1>3. removeInboxSession(rail.inbox.tabs, o.id) \in View BY <1>1, <1>2, RemovalType DEF Inbox
<1>4. without \in Inbox /\ without.tabs = removeInboxSession(rail.inbox.tabs, o.id)
  BY <1>1, <1>3 DEF Inbox
<1>5. CASE o.answer = "failed" /\ o.action # "dismiss" /\ ~o.newer
  <2>1. Outcome(o) = WithInbox(o.prev) BY <1>5 DEF Outcome
  <2>. QED BY <1>2, <1>5, <2>1, NewCopy
<1>6. CASE o.answer = "ok" /\ o.action = "dismiss"
  <2>1. Outcome(o) = WithInbox(without) BY <1>6 DEF Outcome
  <2>. HIDE DEF without
  <2>. QED BY <1>4, <1>6, <2>1, NewCopy
<1>7. CASE /\ ~(o.answer = "failed" /\ o.action # "dismiss" /\ ~o.newer)
           /\ ~(o.answer = "ok" /\ o.action = "dismiss")
  BY <1>7 DEF Outcome
<1>. QED BY <1>5, <1>6, <1>7

\* An answered operation goes, and leaves its outcome.
LEMMA SettledRail ==
  ASSUME rail \in Rail, NEW o \in rail.ops, RailSettlesOp(o)
  PROVE  rail' \in Rail /\ rail'.inbox = Outcome(o).inbox
<1>. DEFINE ops == {p \in Outcome(o).ops : ~(p.id = o.id /\ p.action = o.action)}
<1>1. rail.ops \subseteq Operation BY DEF Rail
<1>2. Outcome(o) \in Rail BY <1>1, OutcomeType
<1>3. rail' = [Outcome(o) EXCEPT !.ops = ops] BY DEF RailSettlesOp
<1>4. ops \subseteq Operation BY <1>2 DEF Rail
<1>. HIDE DEF ops, Operation, Inbox
<1>. QED BY <1>2, <1>3, <1>4 DEF Rail

LEMMA RailSettlesStep ==
  ASSUME IInv, NEW o \in rail.ops, RailSettlesOp(o)
  PROVE  IInv'
<1>1. /\ rail \in Rail /\ emitted \in Seq(Inbox) /\ channel \in Seq(Command) BY RailType
<1>2. UNCHANGED <<engine, hub, channel, face, shared, window, pinged, known, emitted>>
  BY DEF RailSettlesOp
<1>3. rail' \in Rail BY <1>1, SettledRail
<1>4. RailOK' BY <1>1, <1>2, <1>3, RailTyped
<1>. QED BY <1>1, <1>2, <1>4, RailMoves

-----------------------------------------------------------------------------
(* The invariant.                                                          *)

LEMMA NextInv == IInv /\ [Next]_vars => IInv'
<1>. SUFFICES ASSUME IInv, [Next]_vars PROVE IInv'
  OBVIOUS
<1>1. CASE UNCHANGED vars
  BY <1>1 DEF vars, IInv, LinkOK, FaceOK, RailOK, Unread, PingsFollowTheInbox, WindowTellsInbox
<1>2. CASE \E id \in SessionIds, rid \in RunIds, run \in RunInputs : HubRegister(id, rid, run)
  BY <1>2, HubRegisterStep
<1>3. CASE \E id \in SessionIds, rid \in RunIds, run \in RunInputs : HubRun(id, rid, run)
  BY <1>3, HubRunStep
<1>4. CASE \E id \in SessionIds : HubRemove(id) BY <1>4, HubRemoveStep
<1>5. CASE \E command \in HubFlags, id \in SessionIds : HubFlag(command, id)
  BY <1>5, HubFlagStep
<1>6. CASE HubHearsCommand BY <1>6, HubHearsStep
<1>7. CASE Connect BY <1>7, ConnectStep
<1>8. CASE FaceReceives BY <1>8, FaceReceivesStep
<1>9. CASE LinkSends BY <1>9, LinkSendsStep
<1>10. CASE Break BY <1>10, BreakStep
<1>11. CASE RailListens BY <1>11, RailListensStep
<1>12. CASE get_inbox BY <1>12, GetInboxStep
<1>13. CASE RailBoots BY <1>13, RailBootsStep
<1>14. CASE RailHears BY <1>14, RailHearsStep
<1>15. CASE \E id \in SessionIds, action \in Clicks, value \in BOOLEAN : RailClicks(id, action, value)
  BY <1>15, RailClicksStep
<1>16. CASE \E o \in rail.ops : HostAnswers(o) BY <1>16, HostAnswersStep
<1>17. CASE \E o \in rail.ops : RailSettlesOp(o) BY <1>17, RailSettlesStep
<1>18. CASE \E id \in Served : RailCloses(id) BY <1>18, RailClosesStep
<1>. QED
  BY <1>1, <1>2, <1>3, <1>4, <1>5, <1>6, <1>7, <1>8, <1>9, <1>10, <1>11, <1>12, <1>13,
     <1>14, <1>15, <1>16, <1>17, <1>18 DEF Next

LEMMA Invariant == Spec => []IInv
BY InitInv, NextInv, PTL DEF Spec

\* Over every run of the host, with any number of sessions, deltas, broken
\* links and snapshots, the sessions whose notification has fired and not been
\* resolved are those the inbox shows as pinging, but for those that pinged
\* when the host first looked (crates/fleet-host/src/hub_client.rs 122-137).
THEOREM PingsAlwaysFollow == Spec => []PingsFollowTheInbox
<1>1. IInv => PingsFollowTheInbox BY DEF IInv
<1>. QED BY <1>1, Invariant, PTL

\* The window always tells the inbox that the host shares: its title, its badge
\* and its call for attention, which are set on differences only
\* (crates/fleet-host/src/hub_client.rs 357-390).
THEOREM WindowAlwaysTells == Spec => []WindowTellsInbox
<1>1. IInv => WindowTellsInbox BY DEF IInv
<1>. QED BY <1>1, Invariant, PTL

-----------------------------------------------------------------------------
(* The rail judges as the Hub does.                                        *)

\* Where runs ask exactly while they wait, so do their rollups.
LEMMA Asking ==
  ASSUME NEW runs \in Runs, \A r \in RunIds : runs[r] # Absent => AsksIfWaiting(runs[r])
  PROVE  rollup_urgency(runs) \in {"approval", "question"} <=> rollup_state(runs) = "waiting"
<1>. DEFINE S == RunUrgencies(runs) \cup {"none"}
            m == MostUrgent(S, urgency_rank)
<1>1. S \in SUBSET Urgency /\ S # {} BY RunFacts DEF Urgency
<1>2. m \in S /\ \A w \in S : urgency_rank[w] <= urgency_rank[m]
  <2>. HIDE DEF S
  <2>. QED BY <1>1, MostUrgentUrgency
<1>3. m \in Urgency BY <1>1, <1>2
<1>4. m \in {"approval", "question"} <=> ("approval" \in RunUrgencies(runs) \/ "question" \in RunUrgencies(runs))
  <2>1. /\ urgency_rank["approval"] = 3 /\ urgency_rank["question"] = 2
        /\ urgency_rank["idle-done"] = 1 /\ urgency_rank["none"] = 0
    BY DEF urgency_rank, Urgency
  <2>2. "approval" \in RunUrgencies(runs) => urgency_rank["approval"] <= urgency_rank[m] BY <1>2
  <2>3. "question" \in RunUrgencies(runs) => urgency_rank["question"] <= urgency_rank[m] BY <1>2
  <2>4. m \in RunUrgencies(runs) \/ m = "none" BY <1>2
  <2>. HIDE DEF m, S
  <2>. QED BY <1>3, <2>1, <2>2, <2>3, <2>4 DEF Urgency
<1>5. ("approval" \in RunUrgencies(runs) \/ "question" \in RunUrgencies(runs))
        <=> "waiting" \in RunStates(runs)
  BY DEF RunUrgencies, RunStates, AsksIfWaiting
<1>6. rollup_urgency(runs) = m BY DEF rollup_urgency
<1>7. rollup_state(runs) = "waiting" <=> "waiting" \in RunStates(runs) BY RollupState
<1>. HIDE DEF m
<1>. QED BY <1>4, <1>5, <1>6, <1>7

\* What is so of each row of a fit store.
LEMMA FitRow ==
  ASSUME NEW e, Fit(e), NEW s \in Present(e)
  PROVE  LET tab == view(e)[s]
         IN  /\ tab \in Row
             /\ is_attention(tab) <=> tab.urgency \in {"approval", "question"}
             /\ tab.unread => is_attention(tab)
<1>. DEFINE x == e.sessions[s]
<1>1. e \in Engine /\ RolledUp(x) /\ Polite(x) BY DEF Fit, Well, Sound, AllRolledUp
<1>2. x \in Session /\ x.runs \in Runs BY <1>1, PresentType DEF Session
<1>3. view(e)[s] = session_to_tab(x) BY <1>1, ViewType
<1>4. x.unread => x.rollup_state = "waiting"
  BY DEF Fit, BadgesTrue, Notifies, should_notify_session
<1>5. rollup_urgency(x.runs) \in {"approval", "question"} <=> rollup_state(x.runs) = "waiting"
  <2>1. \A r \in RunIds : x.runs[r] # Absent => AsksIfWaiting(x.runs[r]) BY <1>1 DEF Polite
  <2>. HIDE DEF x
  <2>. QED BY <1>2, <2>1, Asking
<1>. HIDE DEF x
<1>6. x.rollup_urgency \in {"approval", "question"} <=> x.rollup_state = "waiting"
  BY <1>1, <1>5 DEF RolledUp
<1>. QED BY <1>2, <1>3, <1>4, <1>6, TabType, RowFields DEF is_attention

\* A row that waits comes before one that does not, at any time.
LEMMA WaitingAbove ==
  ASSUME NEW e, Fit(e), NEW s \in Present(e), NEW t \in Present(e),
         is_attention(view(e)[s]), ~is_attention(view(e)[t]), NEW now
  PROVE  KeyAbove(view(e)[s], view(e)[t], now)
<1>. DEFINE a == view(e)[s]
            b == view(e)[t]
<1>1. a \in Row /\ a.urgency \in {"approval", "question"} BY FitRow
<1>2. b \in Row /\ b.urgency \notin {"approval", "question"} /\ ~b.unread BY FitRow
<1>3. /\ urgency_sort_rank["approval"] = 4 /\ urgency_sort_rank["question"] = 3
      /\ urgency_sort_rank["idle-done"] = 2 /\ urgency_sort_rank["none"] = 0
  BY DEF urgency_sort_rank, Urgency
<1>. HIDE DEF a, b
<1>4. b.urgency \in {"idle-done", "none"} BY <1>2 DEF Row, Urgency
<1>5. urgency_sort_rank[a.urgency] > urgency_sort_rank[b.urgency]
        /\ urgency_sort_rank[a.urgency] # urgency_sort_rank[b.urgency]
  BY <1>1, <1>3, <1>4
<1>6. KeyAbove(a, b, now)
  <2>1. CASE a.unread # b.unread
    <3>1. a.unread \in BOOLEAN /\ b.unread \in BOOLEAN BY <1>1, <1>2 DEF Row
    <3>2. a.unread BY <1>2, <2>1, <3>1
    <3>. QED BY <2>1, <3>2 DEF KeyAbove
  <2>2. CASE a.unread = b.unread BY <1>5, <2>2 DEF KeyAbove
  <2>. QED BY <2>1, <2>2
<1>. QED BY <1>6 DEF a, b

\* The rail judges every inbox as the Hub does: it pings for the same sessions,
\* as do the host's rule and its own (merge.rs, mute.rs, ui/main.js), and once
\* the host has read what the Hub has sent it lists those that wait first
\* (sort.rs).
THEOREM RailAlwaysRight == Spec => []RailInv
<1>1. IInv => RailInv
  <2>. SUFFICES ASSUME IInv PROVE RailInv
    OBVIOUS
  <2>1. Fit(engine) /\ engine \in Engine BY DEF IInv, Fit, Well, Sound
  <2>2. TypeOK
    <3>1. pinged \subseteq SessionIds /\ known \subseteq SessionIds
      BY DEF IInv, PingsFollowTheInbox, Pending
    <3>2. hub.wire \in Seq(Event) BY FrameTypes DEF IInv, LinkOK
    <3>3. /\ face.model \in Engine /\ face.seen_snapshot \in BOOLEAN
          /\ hub.up \in BOOLEAN /\ (hub.up \/ (hub.wire = <<>> /\ hub.commands = <<>>))
      BY DEF IInv, LinkOK, FaceOK
    <3>4. shared \in Inbox /\ rail.inbox \in Inbox BY DEF IInv, FaceOK, RailOK
    <3>. QED BY <2>1, <3>1, <3>2, <3>3, <3>4 DEF TypeOK, Inbox
  <2>3. PingRulesAgree BY <2>1, HostRule, RailRule DEF PingRulesAgree
  <2>4. WaitingOnTop
    <3>. SUFFICES ASSUME hub.up, hub.wire = <<>>,
                         NEW s \in Shown(view(face.model)), NEW t \in Shown(view(face.model)),
                         is_attention(view(face.model)[s]), ~is_attention(view(face.model)[t]),
                         NEW now \in 0..2
                  PROVE  Above(view(face.model), face.model.older, now, s, t)
      BY DEF WaitingOnTop
    <3>1. face.model = engine
      <4>1. apply_all(face.model, hub.wire) = engine BY DEF IInv, LinkOK
      <4>2. apply_all(face.model, <<>>) = face.model BY AppliedNone
      <4>. QED BY <4>1, <4>2
    <3>2. s \in Present(engine) /\ t \in Present(engine) BY <2>1, <3>1, ViewType
    <3>3. KeyAbove(view(engine)[s], view(engine)[t], now) BY <2>1, <3>1, <3>2, WaitingAbove
    <3>. QED BY <3>1, <3>3 DEF Above
  <2>. QED BY <2>2, <2>3, <2>4 DEF RailInv
<1>. QED BY <1>1, Invariant, PTL

-----------------------------------------------------------------------------
(* The rail foresees what the Hub will make of a click.                    *)

\* A row with the badge that a change from ping a to ping b gives it.
Rebadged(tab, a, b) ==
  [tab EXCEPT !.unread = CASE ~a /\ b -> TRUE [] a /\ ~b -> FALSE [] OTHER -> @]

\* A new badge is all that a row changes in.
LEMMA BadgedRow ==
  ASSUME NEW x \in Session, NEW a \in BOOLEAN, NEW b \in BOOLEAN
  PROVE  session_to_tab(update_unread_for_notify_transition(x, a, b))
           = Rebadged(session_to_tab(x), a, b)
<1>. DEFINE y == update_unread_for_notify_transition(x, a, b)
            badge == CASE ~a /\ b -> TRUE [] a /\ ~b -> FALSE [] OTHER -> x.unread
<1>1. Alike(y, x) BY Badged
<1>2. y.unread = badge BY DEF update_unread_for_notify_transition, Session
<1>3. waiting_since(y) = waiting_since(x) BY <1>1 DEF Alike, waiting_since, WaitStamps
<1>4. Rebadged(session_to_tab(x), a, b) = [session_to_tab(x) EXCEPT !.unread = badge]
  BY DEF session_to_tab, Rebadged
<1>. HIDE DEF y, badge
<1>5. session_to_tab(y) = [session_to_tab(x) EXCEPT !.unread = badge]
  BY <1>1, <1>2, <1>3 DEF session_to_tab, Alike
<1>. QED BY <1>4, <1>5 DEF y

\* What reconciling does to the store, the rail does to its rows.
LEMMA ReconciledView ==
  ASSUME NEW e \in Engine, NEW f \in Engine
  PROVE  view(reconcile_unread_from(e, f)) = deriveInboxTabs(view(e), view(f))
<1>. DEFINE g == reconcile_unread_from(e, f)
            v == view(e)
            w == view(f)
<1>1. g \in Engine /\ Present(g) = Present(f) BY Reconciled
<1>2. \A s \in Present(f) :
        /\ s \in SessionIds /\ f.sessions[s] \in Session
        /\ g.sessions[s] = update_unread_for_notify_transition(f.sessions[s], Notifies(e, s), Notifies(f, s))
  BY PresentType DEF reconcile_unread_from, Engine
<1>3. Shown(w) = Present(f) /\ \A s \in Present(f) : w[s] = session_to_tab(f.sessions[s])
  BY ViewType
<1>4. ASSUME NEW s \in SessionIds PROVE view(g)[s] = deriveInboxTabs(v, w)[s]
  <2>1. CASE s \notin Present(f)
    <3>1. view(g)[s] = Absent BY <1>1, <2>1, ViewType
    <3>2. deriveInboxTabs(v, w)[s] = Absent BY <1>3, <2>1 DEF deriveInboxTabs
    <3>. QED BY <3>1, <3>2
  <2>2. CASE s \in Present(f)
    <3>. DEFINE a == shouldNotifyTab(v, s)
                b == shouldNotifyTab(w, s)
    <3>1. view(g)[s] = session_to_tab(g.sessions[s]) BY <1>1, <2>2, ViewType
    <3>2. deriveInboxTabs(v, w)[s]
            = Rebadged(w[s], a, b)
      BY <1>3, <2>2 DEF deriveInboxTabs, Rebadged
    <3>3. a \in BOOLEAN /\ b \in BOOLEAN BY DEF shouldNotifyTab
    <3>4. Notifies(e, s) = a /\ Notifies(f, s) = b
      <4>1. (Notifies(e, s) <=> a) /\ (Notifies(f, s) <=> b) BY RailRule
      <4>2. Notifies(e, s) \in BOOLEAN /\ Notifies(f, s) \in BOOLEAN BY NotifyIsBoolean
      <4>. HIDE DEF a, b
      <4>. QED BY <3>3, <4>1, <4>2
    <3>. HIDE DEF a, b, v, w, g
    <3>5. g.sessions[s] = update_unread_for_notify_transition(f.sessions[s], a, b)
      BY <1>2, <2>2, <3>4
    <3>6. f.sessions[s] \in Session BY <1>2, <2>2
    <3>7. session_to_tab(g.sessions[s]) = Rebadged(session_to_tab(f.sessions[s]), a, b)
      BY <3>3, <3>5, <3>6, BadgedRow
    <3>. QED BY <1>3, <2>2, <3>1, <3>2, <3>7
  <2>. QED BY <2>1, <2>2
<1>. QED BY <1>4 DEF view, deriveInboxTabs

\* Without an edge of a ping no badge changes.
LEMMA NothingDerived ==
  ASSUME NEW v, NEW w \in View,
         \A s \in SessionIds : shouldNotifyTab(v, s) <=> shouldNotifyTab(w, s)
  PROVE  deriveInboxTabs(v, w) = w
<1>1. ASSUME NEW s \in SessionIds PROVE deriveInboxTabs(v, w)[s] = w[s]
  <2>1. CASE s \notin Shown(w) BY <2>1 DEF deriveInboxTabs, Shown
  <2>2. CASE s \in Shown(w)
    <3>1. w[s] \in Row BY <2>2 DEF Shown, View
    <3>2. deriveInboxTabs(v, w)[s] = [w[s] EXCEPT !.unread = w[s].unread]
      BY <2>2 DEF deriveInboxTabs
    <3>. QED BY <3>1, <3>2 DEF Row
  <2>. QED BY <2>1, <2>2
<1>. QED BY <1>1 DEF deriveInboxTabs, View

\* The row of a session whose flags are set.
LEMMA FlaggedRow ==
  ASSUME NEW x \in Session, NEW m \in BOOLEAN, NEW o \in BOOLEAN
  PROVE  session_to_tab(SetFlags(x, m, o)) = Flagged(session_to_tab(x), m, o)
<1>. DEFINE y == SetFlags(x, m, o)
<1>1. /\ y.runs = x.runs /\ y.rollup_state = x.rollup_state /\ y.rollup_urgency = x.rollup_urgency
      /\ y.muted = m /\ y.soloed = o /\ y.unread = x.unread
  BY DEF SetFlags, Session
<1>2. waiting_since(y) = waiting_since(x) BY <1>1 DEF waiting_since, WaitStamps
<1>. HIDE DEF y
<1>3. session_to_tab(y) = [state |-> x.rollup_state, urgency |-> x.rollup_urgency,
                           since |-> waiting_since(x), muted |-> m, soloed |-> o,
                           unread |-> x.unread]
  BY <1>1, <1>2 DEF session_to_tab
<1>4. Flagged(session_to_tab(x), m, o)
        = [state |-> x.rollup_state, urgency |-> x.rollup_urgency,
           since |-> waiting_since(x), muted |-> m, soloed |-> o, unread |-> x.unread]
  <2>. DEFINE tab == session_to_tab(x)
  <2>1. tab \in Row /\ tab.since = waiting_since(x) BY TabType
  <2>2. tab.state = x.rollup_state /\ tab.urgency = x.rollup_urgency /\ tab.unread = x.unread
    BY RowFields
  <2>. HIDE DEF tab
  <2>. DEFINE new == Flagged(tab, m, o)
  <2>3. new \in Row BY <2>1, FlaggedType
  <2>4. /\ new.state = tab.state /\ new.urgency = tab.urgency /\ new.since = tab.since
        /\ new.unread = tab.unread /\ new.muted = m /\ new.soloed = o
    BY <2>1 DEF Flagged, Row
  <2>. HIDE DEF new
  <2>5. new = [state |-> tab.state, urgency |-> tab.urgency, since |-> tab.since,
               muted |-> m, soloed |-> o, unread |-> tab.unread]
    BY <2>3, <2>4 DEF Row
  <2>. QED BY <2>1, <2>2, <2>5 DEF new, tab
<1>. QED BY <1>3, <1>4 DEF y

\* One session with its flags set anew, in the store and in the rail.
LEMMA OneFlagged ==
  ASSUME NEW e \in Engine, NEW id \in Present(e), NEW m \in BOOLEAN
  PROVE  view(reconcile_unread_from(e, [e EXCEPT !.sessions[id] = SetFlags(e.sessions[id], m, FALSE)]))
           = applyLocalMute(view(e), id, m)
<1>. DEFINE y == SetFlags(e.sessions[id], m, FALSE)
            f == [e EXCEPT !.sessions[id] = y]
            w == [s \in SessionIds |->
                    IF s = id /\ s \in Shown(view(e)) THEN Flagged(view(e)[s], m, FALSE) ELSE view(e)[s]]
<1>1. id \in SessionIds /\ e.sessions[id] \in Session BY PresentType
<1>2. y \in Session BY <1>1 DEF SetFlags, Session
<1>3. session_to_tab(y) = Flagged(view(e)[id], m, FALSE) BY <1>1, FlaggedRow, ViewType
<1>. HIDE DEF y
<1>4. f = [sessions |-> [e.sessions EXCEPT ![id] = y], older |-> e.older] BY DEF Engine
<1>. HIDE DEF f
<1>5. f \in Engine BY <1>2, <1>4 DEF Engine
<1>6. Present(f) = Present(e) BY <1>1, <1>2, <1>4, AbsentIsNew DEF Present, Engine
<1>7. \A s \in SessionIds : view(f)[s] = w[s]
  <2>. TAKE s \in SessionIds
  <2>1. CASE s \notin Present(e) BY <1>1, <1>5, <1>6, <2>1, ViewType
  <2>2. CASE s = id
    <3>1. view(f)[s] = session_to_tab(f.sessions[s]) BY <1>5, <1>6, <2>2, ViewType
    <3>2. f.sessions[s] = y BY <1>1, <1>4, <2>2 DEF Engine
    <3>3. s \in Shown(view(e)) BY <2>2, ViewType
    <3>. QED BY <1>3, <2>2, <3>1, <3>2, <3>3
  <2>3. CASE s \in Present(e) /\ s # id
    <3>1. view(f)[s] = session_to_tab(f.sessions[s]) BY <1>5, <1>6, <2>3, ViewType
    <3>2. f.sessions[s] = e.sessions[s] BY <1>4, <2>3 DEF Engine
    <3>3. view(e)[s] = session_to_tab(e.sessions[s]) BY <2>3, ViewType
    <3>. QED BY <2>3, <3>1, <3>2, <3>3
  <2>. QED BY <2>1, <2>2, <2>3
<1>8. view(f) = w BY <1>7 DEF view
<1>9. view(reconcile_unread_from(e, f)) = deriveInboxTabs(view(e), view(f)) BY <1>5, ReconciledView
<1>10. applyLocalMute(view(e), id, m) = deriveInboxTabs(view(e), w) BY DEF applyLocalMute
<1>. HIDE DEF w
<1>. QED BY <1>8, <1>9, <1>10 DEF f, y

\* A solo that goes off is an unmute.
LEMMA SoloOff ==
  ASSUME NEW v \in View, NEW id \in SessionIds
  PROVE  applyLocalSolo(v, id, FALSE) = applyLocalMute(v, id, FALSE)
<1>. DEFINE solo == [s \in SessionIds |->
                       CASE s \notin Shown(v) -> Absent
                         [] s \in Shown(v) /\ s = id -> Flagged(v[s], FALSE, FALSE)
                         [] s \in Shown(v) /\ s # id /\ FALSE -> Flagged(v[s], v[s].muted, FALSE)
                         [] OTHER -> v[s]]
            mute == [s \in SessionIds |->
                       IF s = id /\ s \in Shown(v) THEN Flagged(v[s], FALSE, FALSE) ELSE v[s]]
<1>1. \A s \in SessionIds : solo[s] = mute[s]
  <2>. TAKE s \in SessionIds
  <2>1. CASE s \notin Shown(v)
    <3>1. v[s] = Absent BY <2>1 DEF Shown
    <3>. QED BY <2>1, <3>1
  <2>2. CASE s \in Shown(v) /\ s = id BY <2>2
  <2>3. CASE s \in Shown(v) /\ s # id BY <2>3
  <2>. QED BY <2>1, <2>2, <2>3
<1>2. solo = mute BY <1>1
<1>3. applyLocalSolo(v, id, FALSE) = deriveInboxTabs(v, solo) BY DEF applyLocalSolo
<1>4. applyLocalMute(v, id, FALSE) = deriveInboxTabs(v, mute) BY DEF applyLocalMute
<1>. HIDE DEF solo, mute
<1>. QED BY <1>2, <1>3, <1>4

\* A solo that goes on, in the store and in the rail.
LEMMA SoloOn ==
  ASSUME NEW e \in Engine, NEW id \in Present(e)
  PROVE  view(apply_solo(e, id)) = applyLocalSolo(view(e), id, TRUE)
<1>. DEFINE v == view(e)
            placed(s) == SetFlags(e.sessions[s], e.sessions[s].muted /\ s # id, s = id)
            f == [e EXCEPT !.sessions = [s \in SessionIds |->
                    IF s \notin Present(e) THEN Absent ELSE placed(s)]]
            w == [s \in SessionIds |->
                    CASE s \notin Shown(v) -> Absent
                      [] s \in Shown(v) /\ s = id -> Flagged(v[s], FALSE, TRUE)
                      [] s \in Shown(v) /\ s # id /\ TRUE -> Flagged(v[s], v[s].muted, FALSE)
                      [] OTHER -> v[s]]
<1>1. ASSUME NEW s \in Present(e)
      PROVE  /\ placed(s) \in Session
             /\ session_to_tab(placed(s)) = Flagged(v[s], e.sessions[s].muted /\ s # id, s = id)
  <2>1. e.sessions[s] \in Session BY PresentType
  <2>2. (e.sessions[s].muted /\ s # id) \in BOOLEAN /\ (s = id) \in BOOLEAN OBVIOUS
  <2>3. v[s] = session_to_tab(e.sessions[s]) BY ViewType
  <2>4. placed(s) \in Session BY <2>1, <2>2, SetFlagsType
  <2>. HIDE DEF v
  <2>. QED BY <2>1, <2>2, <2>3, <2>4, FlaggedRow
<1>2. apply_solo(e, id) = reconcile_unread_from(e, f) BY DEF apply_solo
<1>. HIDE DEF placed
<1>3. /\ f.sessions = [s \in SessionIds |-> IF s \notin Present(e) THEN Absent ELSE placed(s)]
      /\ f = [sessions |-> f.sessions, older |-> e.older]
  BY DEF Engine
<1>. HIDE DEF f
<1>4. f \in Engine BY <1>1, <1>3 DEF Engine
<1>5. Present(f) = Present(e)
  <2>1. \A s \in Present(e) : placed(s) \in Session /\ placed(s) # Absent BY <1>1, AbsentIsNew
  <2>. QED BY <1>3, <2>1, PresentType DEF Present
<1>6. Shown(v) = Present(e) BY ViewType
<1>7. \A s \in SessionIds : view(f)[s] = w[s]
  <2>. TAKE s \in SessionIds
  <2>1. CASE s \notin Present(e)
    <3>1. view(f)[s] = Absent BY <1>4, <1>5, <2>1, ViewType
    <3>. HIDE DEF v
    <3>. QED BY <1>6, <2>1, <3>1
  <2>2. CASE s \in Present(e)
    <3>1. view(f)[s] = session_to_tab(f.sessions[s]) BY <1>4, <1>5, <2>2, ViewType
    <3>2. f.sessions[s] = placed(s) BY <1>3, <2>2
    <3>3. session_to_tab(placed(s)) = Flagged(v[s], e.sessions[s].muted /\ s # id, s = id) BY <1>1, <2>2
    <3>4. v[s].muted = e.sessions[s].muted BY <2>2, ViewType, RowFields
    <3>5. e.sessions[s].muted \in BOOLEAN BY <2>2, PresentType DEF Session
    <3>. HIDE DEF v
    <3>6. CASE s = id
      <4>1. (e.sessions[s].muted /\ s # id) = FALSE /\ (s = id) = TRUE BY <3>6
      <4>2. w[s] = Flagged(v[s], FALSE, TRUE) BY <1>6, <2>2, <3>6
      <4>. HIDE DEF w
      <4>. QED BY <3>1, <3>2, <3>3, <4>1, <4>2
    <3>7. CASE s # id
      <4>1. (e.sessions[s].muted /\ s # id) = v[s].muted /\ (s = id) = FALSE BY <3>4, <3>5, <3>7
      <4>2. w[s] = Flagged(v[s], v[s].muted, FALSE) BY <1>6, <2>2, <3>7
      <4>. HIDE DEF w
      <4>. QED BY <3>1, <3>2, <3>3, <4>1, <4>2
    <3>. QED BY <3>6, <3>7
  <2>. QED BY <2>1, <2>2
<1>8. view(f) = w BY <1>7 DEF view
<1>9. view(reconcile_unread_from(e, f)) = deriveInboxTabs(v, view(f)) BY <1>4, ReconciledView
<1>10. applyLocalSolo(v, id, TRUE) = deriveInboxTabs(v, w) BY DEF applyLocalSolo
<1>. HIDE DEF w
<1>. QED BY <1>2, <1>8, <1>9, <1>10

\* A focus, in the store and in the rail.
LEMMA FocusRow ==
  ASSUME NEW e \in Engine, NEW id \in Present(e)
  PROVE  view(apply_focus(e, id)) = applyLocalFocus(view(e), id)
<1>. DEFINE v == view(e)
            g == apply_focus(e, id)
            w == [s \in SessionIds |->
                    IF s = id /\ s \in Shown(v) THEN [v[s] EXCEPT !.unread = FALSE] ELSE v[s]]
<1>1. /\ g \in Engine /\ Present(g) = Present(e)
      /\ \A s \in Present(e) : Alike(g.sessions[s], e.sessions[s])
  BY Focused
<1>2. v \in View /\ Shown(v) = Present(e) BY ViewType
<1>3. /\ g.sessions[id].unread = FALSE
      /\ \A s \in Present(e) \ {id} : g.sessions[s] = e.sessions[s]
  BY PresentType DEF apply_focus, Engine, Session
<1>4. view(g) = w
  <2>1. ASSUME NEW s \in SessionIds PROVE view(g)[s] = w[s]
    <3>1. CASE s \notin Present(e)
      <4>1. view(g)[s] = Absent /\ v[s] = Absent BY <1>1, <3>1, ViewType
      <4>. HIDE DEF v
      <4>. QED BY <1>2, <3>1, <4>1
    <3>2. CASE s \in Present(e)
      <4>1. view(g)[s] = session_to_tab(g.sessions[s]) /\ v[s] = session_to_tab(e.sessions[s])
        BY <1>1, <3>2, ViewType
      <4>2. g.sessions[s] \in Session /\ e.sessions[s] \in Session BY <1>1, <3>2, PresentType
      <4>. HIDE DEF v, g
      <4>3. CASE s # id
        <5>1. w[s] = v[s] BY <4>3
        <5>. QED BY <1>3, <3>2, <4>1, <4>3, <5>1
      <4>4. CASE s = id
        <5>. DEFINE a == session_to_tab(g.sessions[s])
                    b == session_to_tab(e.sessions[s])
        <5>1. w[s] = [b EXCEPT !.unread = FALSE] BY <1>2, <3>2, <4>1, <4>4
        <5>2. waiting_since(g.sessions[s]) = waiting_since(e.sessions[s])
          <6>1. g.sessions[s].runs = e.sessions[s].runs BY <1>1, <3>2 DEF Alike
          <6>. QED BY <6>1 DEF waiting_since, WaitStamps
        <5>3. /\ a \in Row /\ a.since = waiting_since(g.sessions[s])
              /\ b \in Row /\ b.since = waiting_since(e.sessions[s])
          BY <4>2, TabType
        <5>4. /\ a.state = b.state /\ a.urgency = b.urgency /\ a.muted = b.muted /\ a.soloed = b.soloed
              /\ a.unread = FALSE
          BY <1>1, <1>3, <3>2, <4>4, RowFields DEF Alike
        <5>. HIDE DEF a, b
        <5>5. a = [b EXCEPT !.unread = FALSE] BY <5>2, <5>3, <5>4 DEF Row
        <5>. QED BY <4>1, <5>1, <5>5 DEF a
      <4>. QED BY <4>3, <4>4
    <3>. QED BY <3>1, <3>2
  <2>. QED BY <2>1 DEF view
<1>5. \A s \in SessionIds : shouldNotifyTab(v, s) <=> shouldNotifyTab(view(g), s)
  BY <1>1, RailRule, NotifiesAlike
<1>6. view(g) \in View BY <1>1, ViewType
<1>7. deriveInboxTabs(v, view(g)) = view(g) BY <1>5, <1>6, NothingDerived
<1>8. applyLocalFocus(v, id) = deriveInboxTabs(v, w) BY DEF applyLocalFocus
<1>. HIDE DEF w
<1>. QED BY <1>4, <1>7, <1>8

\* A removal, in the store and in the rail.
LEMMA RemovalForeseen ==
  ASSUME NEW e \in Engine, NEW id \in SessionIds
  PROVE  view(remove_session(e, id)) = removeInboxSession(view(e), id)
<1>. DEFINE v == view(e)
            w == [v EXCEPT ![id] = Absent]
<1>1. v \in View /\ Shown(v) = Present(e) BY ViewType
<1>2. removeInboxSession(v, id) = deriveInboxTabs(v, w) BY DEF removeInboxSession
<1>3. CASE id \notin Present(e)
  <2>1. remove_session(e, id) = e BY <1>3 DEF remove_session
  <2>2. w = v BY <1>1, <1>3 DEF View, Shown
  <2>3. deriveInboxTabs(v, v) = v BY <1>1, NothingDerived
  <2>. HIDE DEF v, w
  <2>. QED BY <1>2, <2>1, <2>2, <2>3 DEF v
<1>4. CASE id \in Present(e)
  <2>. DEFINE f == [sessions |-> [e.sessions EXCEPT ![id] = Absent],
                    older    |-> {p \in e.older : p[1] # id /\ p[2] # id}]
  <2>1. remove_session(e, id) = reconcile_unread_from(e, f) BY <1>4 DEF remove_session
  <2>2. f \in Engine BY DEF Engine
  <2>3. Present(f) = Present(e) \ {id} BY DEF Present, Engine
  <2>4. \A s \in Present(f) : f.sessions[s] = e.sessions[s] BY <2>3, PresentType DEF Engine
  <2>. HIDE DEF f
  <2>5. ASSUME NEW s \in SessionIds PROVE view(f)[s] = w[s]
    <3>1. CASE s \in Present(f)
      <4>1. view(f)[s] = session_to_tab(f.sessions[s]) BY <2>2, <3>1, ViewType
      <4>2. v[s] = session_to_tab(e.sessions[s]) BY <2>3, <3>1, ViewType
      <4>3. f.sessions[s] = e.sessions[s] /\ s # id BY <2>3, <2>4, <3>1
      <4>. HIDE DEF v
      <4>4. w[s] = v[s] BY <1>1, <4>3 DEF View
      <4>. QED BY <4>1, <4>2, <4>3, <4>4
    <3>2. CASE s \notin Present(f)
      <4>1. view(f)[s] = Absent BY <2>2, <3>2, ViewType
      <4>2. s # id => v[s] = Absent BY <2>3, <3>2, ViewType
      <4>. HIDE DEF v
      <4>3. w[s] = Absent BY <1>1, <4>2 DEF View
      <4>. QED BY <4>1, <4>3
    <3>. QED BY <3>1, <3>2
  <2>6. view(f) = w
    <3>1. view(f) \in View /\ w \in View BY <1>1, <2>2, ViewType DEF View
    <3>. HIDE DEF w
    <3>. QED BY <2>5, <3>1 DEF View
  <2>7. view(reconcile_unread_from(e, f)) = deriveInboxTabs(v, view(f)) BY <2>2, ReconciledView
  <2>. HIDE DEF w, v
  <2>. QED BY <1>2, <2>1, <2>6, <2>7 DEF v
<1>. QED BY <1>3, <1>4

\* A click on a row that allows it foresees the command it gives.
LEMMA ClickForeseen ==
  ASSUME engine \in Engine, NEW id \in Present(engine), NEW value \in BOOLEAN,
         NEW action \in {"mute", "solo", "focus"},
         RowAllows(view(engine)[id], action, value), NEW o, o.action = action, o.value = value
  PROVE  Optimism(view(engine), id, action, value) = view(Obey(CommandOf(o), id))
<1>. DEFINE x == engine.sessions[id]
            v == view(engine)
            flagged(m) == reconcile_unread_from(engine,
                            [engine EXCEPT !.sessions[id] = SetFlags(engine.sessions[id], m, FALSE)])
<1>0. id \in SessionIds /\ x \in Session /\ v \in View BY PresentType, ViewType
<1>1. v[id].muted = x.muted /\ v[id].soloed = x.soloed BY ViewType, RowFields
<1>2. \A m \in BOOLEAN : view(flagged(m)) = applyLocalMute(v, id, m) BY OneFlagged
<1>3. x.muted \in BOOLEAN /\ x.soloed \in BOOLEAN BY <1>0 DEF Session
<1>4. CASE action = "mute"
  <2>1. value = ~x.muted BY <1>1, <1>4 DEF RowAllows
  <2>2. Optimism(v, id, action, value) = applyLocalMute(v, id, value) BY <1>4 DEF Optimism
  <2>3. CASE value = TRUE
    <3>1. CommandOf(o) = "mute" BY <1>4, <2>3 DEF CommandOf
    <3>2. Obey(CommandOf(o), id) = apply_mute(engine, id) BY <3>1 DEF Obey
    <3>3. apply_mute(engine, id) = flagged(TRUE) BY <1>3, <2>1, <2>3 DEF apply_mute
    <3>. HIDE DEF v, flagged
    <3>. QED BY <1>2, <2>2, <2>3, <3>2, <3>3 DEF v
  <2>4. CASE value = FALSE
    <3>1. CommandOf(o) = "unmute" BY <1>4, <2>4 DEF CommandOf
    <3>2. Obey(CommandOf(o), id) = apply_unmute(engine, id) BY <3>1 DEF Obey
    <3>3. apply_unmute(engine, id) = flagged(FALSE) BY <1>3, <2>1, <2>4 DEF apply_unmute
    <3>. HIDE DEF v, flagged
    <3>. QED BY <1>2, <2>2, <2>4, <3>2, <3>3 DEF v
  <2>. QED BY <2>3, <2>4
<1>5. CASE action = "solo"
  <2>1. value = ~x.soloed BY <1>1, <1>5 DEF RowAllows
  <2>2. Optimism(v, id, action, value) = applyLocalSolo(v, id, value) BY <1>5 DEF Optimism
  <2>3. CASE value = TRUE
    <3>1. CommandOf(o) = "solo" BY <1>5, <2>3 DEF CommandOf
    <3>2. Obey(CommandOf(o), id) = apply_solo(engine, id) BY <3>1 DEF Obey
    <3>3. view(apply_solo(engine, id)) = applyLocalSolo(v, id, TRUE) BY SoloOn
    <3>. HIDE DEF v
    <3>. QED BY <2>2, <2>3, <3>2, <3>3 DEF v
  <2>4. CASE value = FALSE
    <3>1. CommandOf(o) = "unmute" BY <1>5, <2>4 DEF CommandOf
    <3>2. Obey(CommandOf(o), id) = apply_unmute(engine, id) BY <3>1 DEF Obey
    <3>3. apply_unmute(engine, id) = flagged(FALSE) BY <1>3, <2>1, <2>4 DEF apply_unmute
    <3>4. applyLocalSolo(v, id, FALSE) = applyLocalMute(v, id, FALSE) BY <1>0, SoloOff
    <3>. HIDE DEF v, flagged
    <3>. QED BY <1>2, <2>2, <2>4, <3>2, <3>3, <3>4 DEF v
  <2>. QED BY <2>3, <2>4
<1>6. CASE action = "focus"
  <2>1. Optimism(v, id, action, value) = applyLocalFocus(v, id) BY <1>6 DEF Optimism
  <2>2. CommandOf(o) = "focus" BY <1>6 DEF CommandOf
  <2>3. Obey(CommandOf(o), id) = apply_focus(engine, id) BY <2>2 DEF Obey
  <2>4. view(apply_focus(engine, id)) = applyLocalFocus(v, id) BY FocusRow
  <2>. HIDE DEF v
  <2>. QED BY <2>1, <2>3, <2>4 DEF v
<1>. QED BY <1>4, <1>5, <1>6

\* An operation that is new and not overtaken is a click's.
LEMMA OnlyClicks ==
  ASSUME IInv, [Next]_vars, NEW o \in rail'.ops \ rail.ops, o.answer = "none", ~o.newer
  PROVE  \E id \in SessionIds, action \in Clicks, value \in BOOLEAN : RailClicks(id, action, value)
<1>1. rail \in Rail /\ emitted \in Seq(Inbox) BY RailType
<1>2. ASSUME rail' = rail PROVE FALSE BY <1>2
<1>3. CASE RailListens
  <2>1. rail'.ops = rail.ops BY <1>1, <1>3 DEF RailListens, Rail
  <2>. QED BY <2>1
<1>4. CASE get_inbox
  <2>1. rail'.ops = rail.ops BY <1>1, <1>4 DEF get_inbox, Rail
  <2>. QED BY <2>1
<1>5. CASE RailBoots
  <2>. DEFINE copy == WithInbox(rail.boot.inbox)
  <2>1. rail' = [copy EXCEPT !.boot = [phase |-> "loaded", inbox |-> NoInbox, newer |-> FALSE]]
    BY <1>5 DEF RailBoots
  <2>2. rail.boot.inbox \in Inbox BY <1>1 DEF Rail
  <2>3. copy \in Rail /\ \A p \in copy.ops : p.newer BY <1>1, <2>2, NewCopy
  <2>. HIDE DEF copy
  <2>4. rail'.ops = copy.ops BY <2>1, <2>3 DEF Rail
  <2>. QED BY <2>3, <2>4
<1>6. CASE RailHears
  <2>1. rail' = WithInbox(Head(emitted)) /\ emitted # <<>> BY <1>6 DEF RailHears
  <2>2. Head(emitted) \in Inbox BY <1>1, <2>1
  <2>. QED BY <1>1, <2>1, <2>2, NewCopy
<1>7. ASSUME NEW p \in rail.ops, HostAnswers(p) PROVE FALSE
  <2>. DEFINE answer == IF shared.connected THEN "ok" ELSE "failed"
              done == [p EXCEPT !.answer = answer]
              ops == (rail.ops \ {p}) \cup {done}
  <2>1. rail' = [rail EXCEPT !.ops = ops] BY <1>7 DEF HostAnswers
  <2>2. p \in Operation BY <1>1 DEF Rail
  <2>3. answer # "none" OBVIOUS
  <2>. HIDE DEF answer
  <2>4. done.answer # "none" BY <2>2, <2>3 DEF Operation
  <2>. HIDE DEF done
  <2>5. o \in rail.ops \/ o = done
    <3>1. rail'.ops = ops BY <1>1, <2>1 DEF Rail
    <3>. QED BY <3>1
  <2>. QED BY <2>4, <2>5
<1>8. ASSUME NEW p \in rail.ops, RailSettlesOp(p) PROVE FALSE
  <2>. DEFINE ops == {q \in Outcome(p).ops : ~(q.id = p.id /\ q.action = p.action)}
  <2>1. p \in Operation BY <1>1 DEF Rail
  <2>2. Outcome(p) \in Rail BY <1>1, <2>1, OutcomeType
  <2>3. rail' = [Outcome(p) EXCEPT !.ops = ops] BY <1>8 DEF RailSettlesOp
  <2>4. rail'.ops = ops BY <2>2, <2>3 DEF Rail
  <2>5. o \in Outcome(p).ops BY <2>4
  <2>6. Outcome(p) # rail BY <2>5
  <2>7. \A q \in Outcome(p).ops : q.newer
    <3>. DEFINE without == [rail.inbox EXCEPT !.tabs = removeInboxSession(@, p.id)]
    <3>1. rail.inbox \in Inbox /\ p.prev \in Inbox /\ p.id \in SessionIds
      BY <1>1, <2>1 DEF Rail, Operation
    <3>2. without \in Inbox BY <3>1, RemovalType DEF Inbox
    <3>. HIDE DEF without
    <3>3. Outcome(p) \in {WithInbox(p.prev), WithInbox(without)} BY <2>6 DEF Outcome, without
    <3>. QED BY <1>1, <3>1, <3>2, <3>3, NewCopy
  <2>. QED BY <2>5, <2>7
<1>9. ASSUME NEW id \in Served, RailCloses(id) PROVE FALSE
  <2>1. id \in SessionIds BY FaceConstants
  <2>. QED BY <1>1, <1>9, <2>1, ClosedRow
<1>. QED
  BY <1>2, <1>3, <1>4, <1>5, <1>6, <1>7, <1>8, <1>9
     DEF Next, vars, HubRegister, HubRun, HubRemove, HubFlag, Commits, HubHearsCommand,
         Connect, FaceReceives, LinkSends, Break

\* What a click leaves of a rail that shows what the Hub has, and what an
\* answered dismissal leaves of it, is exactly what the Hub will have when it
\* obeys, with the badges of the other sessions
\* (crates/fleet-host/ui/main.js 184-261 against crates/fleet-hub/src/merge.rs).
THEOREM OptimismAlwaysExact == Spec => OptimismIsExact
<1>. DEFINE Exact ==
       rail.inbox.tabs = view(engine) =>
         /\ \A o \in rail'.ops \ rail.ops :
              o.answer = "none" /\ ~o.newer /\ o.action # "dismiss" =>
                rail'.inbox.tabs = view(Obey(CommandOf(o), o.id))
         /\ \A o \in rail.ops :
              o.answer = "ok" /\ o.action = "dismiss" /\ RailSettlesOp(o) =>
                rail'.inbox.tabs = view(remove_session(engine, o.id))
<1>1. IInv /\ [Next]_vars => Exact
  <2>. SUFFICES ASSUME IInv, [Next]_vars, rail.inbox.tabs = view(engine)
                PROVE  Exact
    OBVIOUS
  <2>0. rail \in Rail BY RailType
  <2>1. engine \in Engine BY DEF IInv, Fit, Well, Sound
  <2>2. ASSUME NEW o \in rail'.ops \ rail.ops, o.answer = "none", ~o.newer, o.action # "dismiss"
        PROVE  rail'.inbox.tabs = view(Obey(CommandOf(o), o.id))
    <3>1. PICK id \in SessionIds, action \in Clicks, value \in BOOLEAN : RailClicks(id, action, value)
      BY <2>2, OnlyClicks
    <3>2. rail'.inbox.tabs = Optimism(view(engine), id, action, value) BY <2>0, <3>1, ClickedRail
    <3>3. o = Op(id, action, value) BY <2>0, <2>2, <3>1, ClickedRail
    <3>4. o.id = id /\ o.action = action /\ o.value = value BY <3>3 DEF Op
    <3>5. id \in Shown(view(engine)) /\ RowAllows(view(engine)[id], action, value)
      BY <3>1 DEF RailClicks
    <3>6. id \in Present(engine) BY <2>1, <3>5, ViewType
    <3>7. action \in {"mute", "solo", "focus"} BY <2>2, <3>4, FaceConstants
    <3>8. Optimism(view(engine), id, action, value) = view(Obey(CommandOf(o), id))
      BY <2>1, <3>4, <3>5, <3>6, <3>7, ClickForeseen
    <3>. QED BY <3>2, <3>4, <3>8
  <2>3. ASSUME NEW o \in rail.ops, o.answer = "ok", o.action = "dismiss", RailSettlesOp(o)
        PROVE  rail'.inbox.tabs = view(remove_session(engine, o.id))
    <3>1. o \in Operation /\ o.id \in SessionIds BY <2>0 DEF Rail, Operation
    <3>2. rail'.inbox = Outcome(o).inbox BY <2>0, <2>3, SettledRail
    <3>3. Outcome(o).inbox.tabs = removeInboxSession(view(engine), o.id)
      BY <2>0, <2>3, <3>1, OutcomeType
    <3>. QED BY <2>1, <3>1, <3>2, <3>3, RemovalForeseen
  <2>. QED BY <2>2, <2>3
<1>2. IInv /\ [Next]_vars => [Exact]_vars BY <1>1
<1>. QED BY <1>2, Invariant, PTL DEF Spec, OptimismIsExact

-----------------------------------------------------------------------------
(* The rail and the shell: what is under way between them.                 *)

\* The values of the variables.
IdOrNone == Ids \cup {None}
Points == {"servers", "which", "opened", "spawned", "closed", "synced"}
Thens == [at : Points, id : IdOrNone, last : BOOLEAN, list : SUBSET Ids,
          previous : [selected : IdOrNone, desired : IdOrNone],
          after : {"nothing", "spawn", "close", "retry"}]

\* The value an answer has at the point where the script goes on with it.
Fits(a) ==
  CASE a.then.at = "servers" -> a.value \in SUBSET Ids
    [] a.then.at \in {"opened", "closed"} -> a.value \in BOOLEAN
    [] a.then.at \in {"which", "synced"} -> a.value \in IdOrNone
    [] a.then.at = "spawned" -> a.value \in Spawnable \cup {None}

Values == (SUBSET Ids) \cup BOOLEAN \cup IdOrNone
Answer == {a \in [then : Thens, value : Values] : Fits(a)}
Scripts == {"changed", "sync"}
RailState == [servers : SUBSET Ids, pending : SUBSET Ids, selected : IdOrNone,
              desired : IdOrNone, spawning : BOOLEAN, closing : SUBSET Ids]
WorkStates == [Spawnable -> {"none", "start", "listed", "found", "selected", "done"}]

\* The variables have their types.
ShellTypeOK ==
  /\ listed \in SUBSET Ids /\ selected \in IdOrNone /\ work \in WorkStates
  /\ ui \in RailState /\ tabs \in SUBSET Ids
  /\ answers \in Seq(Answer) /\ scripts \in Seq(Scripts) /\ missed \in BOOLEAN

\* The rail will be told this.
Has(sc, said) == \E p \in DOMAIN sc : sc[p] = said

\* The answers that belong to the latest refresh, and the list it will show.
Refreshing(a) == a.then.at \in {"servers", "which"} /\ a.then.last
Refreshes(an) == \E k \in DOMAIN an : Refreshing(an[k])

\* The list that the rail will show at the end of the refresh of an answer.
ListOf(a) == IF a.then.at = "servers" THEN a.value ELSE a.then.list

\* A list is that of the host, but for servers that died without a word.
Current(list, l, sil) == l \subseteq list /\ list \ l \subseteq sil

\* The rail will be told, or its latest refresh has read the list there is, or it
\* shows that list.
RailFollows(l, sil, shown, an, sc) ==
  \/ Has(sc, "changed")
  \/ /\ \A k \in DOMAIN an : Refreshing(an[k]) => Current(ListOf(an[k]), l, sil)
     /\ Refreshes(an) \/ Current(shown, l, sil)

\* The rail will be made to ask for the selection.
SyncDue(sc, wrk) == Has(sc, "sync") \/ \E i \in Spawnable : wrk[i] = "selected"

\* An answer that will bring the selection there is to the rail.
Agrees(a, sel) == a.then.at = "synced" /\ a.value = sel

\* No server has refused to be opened, unless it died.
OpenedWell(an) == \A k \in DOMAIN an : an[k].then.at = "opened" => an[k].value = TRUE

\* An answer about the selection that is stale is followed by one that is not.
StaleCorrected(sel, wrk, an, sc) ==
  \A k \in DOMAIN an : an[k].then.at \in {"synced", "which"} /\ an[k].value # sel =>
    SyncDue(sc, wrk) \/ \E j \in DOMAIN an : j > k /\ Agrees(an[j], sel)

\* The row that is highlighted is that of the selection, or will be: the rail will ask,
\* or an answer is under way, or there is no such row.
SelectionFollows(sel, wrk, u, an, sc) ==
  \/ SyncDue(sc, wrk) \/ \E k \in DOMAIN an : Agrees(an[k], sel)
  \/ u.selected \in u.servers => u.selected = sel

\* A spawned server that the rail will want to open is gone.
Lost(l, an) ==
  \E k \in DOMAIN an : an[k].then.at = "spawned" /\ an[k].value # None /\ an[k].value \notin l

\* The rail hears of a spawned server when its worker is done.
SpawnedDone(wrk, an) ==
  \A k \in DOMAIN an : an[k].then.at = "spawned" /\ an[k].value # None => wrk[an[k].value] = "done"

\* While a worker is about to show its server something is selected, unless it died.
StillSelected(l, sel, wrk) ==
  \A i \in Spawnable : wrk[i] = "selected" /\ i \in l => sel # None

\* The rail shows no servers until it is told again.
Bare(shown, an) ==
  /\ Refreshes(an) \/ shown = {}
  /\ \A k \in DOMAIN an : Refreshing(an[k]) => ListOf(an[k]) = {}

\* That nothing is selected reaches the rail while it shows no servers, or before a
\* refresh that selects one.
NoneAnswered(shown, an, sc) ==
  \A k \in DOMAIN an : an[k].then.at = "synced" /\ an[k].value = None =>
    Has(sc, "changed") \/ Bare(shown, an) \/ \E j \in DOMAIN an : j > k /\ Refreshing(an[j])

\* The same of a word that the selection is gone: the list follows it, or there are no
\* servers.
NoneTold(l, sel, shown, an, sc) ==
  \A p \in DOMAIN sc : sc[p] = "sync" /\ sel = None =>
    \/ \E q \in DOMAIN sc : q > p /\ sc[q] = "changed"
    \/ l = {} /\ (Bare(shown, an) \/ \E q \in DOMAIN sc : q < p /\ sc[q] = "changed")

\* A rail with rows highlights one, or is about to be refreshed.
SomeSelected(u, an, sc) ==
  Has(sc, "changed") \/ Refreshes(an) \/ u.servers = {} \/ u.selected # None

\* What is under way is sound, for the list that the rail shows ...
UnderWay(l, sel, wrk, shown, an, sc, mis, sil) ==
  /\ RailFollows(l, sil, shown, an, sc)
  /\ SpawnedDone(wrk, an) /\ StillSelected(l, sel, wrk)
  /\ ~mis => OpenedWell(an) /\ StaleCorrected(sel, wrk, an, sc)
  /\ ~mis /\ ~Lost(l, an) => NoneAnswered(shown, an, sc) /\ NoneTold(l, sel, shown, an, sc)

\* ... and so is the row that is highlighted.
Highlighted(l, sel, wrk, u, an, sc, mis) ==
  /\ ~mis => u.desired \notin u.servers /\ SelectionFollows(sel, wrk, u, an, sc)
  /\ ~mis /\ ~Lost(l, an) => SomeSelected(u, an, sc)

\* What always holds of the rail and the shell.
ShellInv ==
  /\ ShellTypeOK
  /\ UnderWay(listed, selected, work, ui.servers, answers, scripts, missed, silent)
  /\ Highlighted(listed, selected, work, ui, answers, scripts, missed)
-----------------------------------------------------------------------------
\* No server has the number that stands for none.
LEMMA NoneIsNoId == None \notin Ids /\ Spawnable \subseteq Ids
BY ShellConstants DEF Ids

\* The head and the tail of a sequence.
LEMMA SeqPop ==
  ASSUME NEW S, NEW s \in Seq(S), s # <<>>
  PROVE  /\ Head(s) = s[1] /\ 1 \in DOMAIN s /\ Head(s) \in S /\ Tail(s) \in Seq(S)
         /\ \A k \in DOMAIN Tail(s) : k + 1 \in DOMAIN s /\ Tail(s)[k] = s[k + 1] /\ k \in Nat
         /\ \A k \in DOMAIN s : k # 1 => k - 1 \in DOMAIN Tail(s) /\ Tail(s)[k - 1] = s[k] /\ k \in Nat
OBVIOUS

\* A sequence with one more element at its end.
LEMMA SeqPush ==
  ASSUME NEW S, NEW s \in Seq(S), NEW x \in S
  PROVE  /\ Append(s, x) \in Seq(S)
         /\ DOMAIN Append(s, x) = DOMAIN s \cup {Len(s) + 1}
         /\ \A k \in DOMAIN s : Append(s, x)[k] = s[k] /\ k \in Nat /\ k < Len(s) + 1
         /\ Append(s, x)[Len(s) + 1] = x /\ Len(s) + 1 \in Nat
OBVIOUS

\* Superseded answers are answers still, to no refresh.
Yielded(an) == [k \in DOMAIN an |-> [an[k] EXCEPT !.then.last = FALSE]]

\* An answer that is superseded keeps its question and its value.
LEMMA SeqYield ==
  ASSUME NEW an \in Seq(Answer)
  PROVE  /\ Yielded(an) \in Seq(Answer) /\ DOMAIN Yielded(an) = DOMAIN an
         /\ \A k \in DOMAIN an : /\ Yielded(an)[k].value = an[k].value
                                 /\ Yielded(an)[k].then.at = an[k].then.at
                                 /\ ~Refreshing(Yielded(an)[k])
<1>1. \A a \in Answer : LET b == [a EXCEPT !.then.last = FALSE]
                        IN  /\ b \in Answer /\ b.value = a.value /\ b.then.at = a.then.at
                            /\ b.then.last = FALSE
  <2>. TAKE a \in Answer
  <2>. DEFINE b == [a EXCEPT !.then.last = FALSE]
  <2>1. a \in [then : Thens, value : Values] BY DEF Answer
  <2>2. /\ b.value = a.value /\ b.then = [a.then EXCEPT !.last = FALSE] /\ b.then \in Thens
        /\ b \in [then : Thens, value : Values]
    BY <2>1 DEF Thens
  <2>3. b.then.at = a.then.at /\ b.then.last = FALSE BY <2>1, <2>2 DEF Thens
  <2>4. Fits(b) BY <2>2, <2>3 DEF Answer, Fits
  <2>. QED BY <2>2, <2>3, <2>4 DEF Answer
<1>2. \A k \in DOMAIN an : an[k] \in Answer OBVIOUS
<1>3. DOMAIN Yielded(an) = DOMAIN an /\ \A k \in DOMAIN an : Yielded(an)[k] = [an[k] EXCEPT !.then.last = FALSE]
  BY DEF Yielded
<1>4. Yielded(an) \in Seq(Answer)
  <2>1. DOMAIN an = 1..Len(an) /\ Len(an) \in Nat OBVIOUS
  <2>2. Yielded(an) \in [1..Len(an) -> Answer] BY <1>1, <1>2, <1>3, <2>1 DEF Yielded
  <2>. QED BY <2>1, <2>2
<1>. QED BY <1>1, <1>2, <1>3, <1>4 DEF Refreshing
-----------------------------------------------------------------------------
\* What an answer more leaves sound.
Given(l, sel, wrk, shown, an, sc, mis, sil, a) ==
  /\ UnderWay(l, sel, wrk, shown, Append(an, a), sc, mis, sil)
  /\ \A u \in RailState : Highlighted(l, sel, wrk, u, an, sc, mis) =>
                          Highlighted(l, sel, wrk, u, Append(an, a), sc, mis)

\* An answer that belongs to no refresh can be given: if it is about the selection
\* it tells the one there is.
LEMMA PushAnswer ==
  ASSUME NEW l \in SUBSET Ids, NEW sel \in IdOrNone, NEW wrk \in WorkStates, NEW shown \in SUBSET Ids,
         NEW an \in Seq(Answer), NEW sc \in Seq(Scripts), NEW mis \in BOOLEAN, NEW sil, NEW a \in Answer,
         UnderWay(l, sel, wrk, shown, an, sc, mis, sil), ~Refreshing(a),
         ~mis /\ a.then.at = "opened" => a.value = TRUE,
         a.then.at \in {"synced", "which"} => a.value = sel,
         ~mis /\ ~Lost(l, an) /\ a.then.at = "synced" /\ a.value = None => Has(sc, "changed") \/ Bare(shown, an),
         a.then.at = "spawned" /\ a.value # None => wrk[a.value] = "done"
  PROVE  Given(l, sel, wrk, shown, an, sc, mis, sil, a)
<1>. DEFINE more == Append(an, a)
            n == Len(an) + 1
<1>1. /\ more \in Seq(Answer) /\ DOMAIN more = DOMAIN an \cup {n} /\ more[n] = a /\ n \in Nat
      /\ \A k \in DOMAIN an : more[k] = an[k] /\ k \in Nat /\ k < n
  BY SeqPush
<1>. HIDE DEF more, n
<1>2. Refreshes(more) <=> Refreshes(an) BY <1>1 DEF Refreshes
<1>3. RailFollows(l, sil, shown, more, sc) BY <1>1, <1>2 DEF RailFollows, UnderWay
<1>4. SpawnedDone(wrk, more) BY <1>1 DEF SpawnedDone, UnderWay
<1>5. ~mis => OpenedWell(more) BY <1>1 DEF OpenedWell, UnderWay
<1>6. ~mis => StaleCorrected(sel, wrk, more, sc) BY <1>1 DEF StaleCorrected, UnderWay
<1>7. ~Lost(l, more) => ~Lost(l, an) BY <1>1 DEF Lost
<1>8. Bare(shown, an) => Bare(shown, more) BY <1>1, <1>2 DEF Bare
<1>9. ASSUME ~mis, ~Lost(l, an) PROVE NoneAnswered(shown, more, sc)
  BY <1>1, <1>8, <1>9 DEF NoneAnswered, UnderWay
<1>10. ASSUME ~mis, ~Lost(l, an) PROVE NoneTold(l, sel, shown, more, sc)
  BY <1>8, <1>10 DEF NoneTold, UnderWay
<1>11. UnderWay(l, sel, wrk, shown, more, sc, mis, sil)
  BY <1>3, <1>4, <1>5, <1>6, <1>7, <1>9, <1>10 DEF UnderWay
<1>12. ASSUME NEW u \in RailState, Highlighted(l, sel, wrk, u, an, sc, mis)
       PROVE  Highlighted(l, sel, wrk, u, more, sc, mis)
  <2>1. SelectionFollows(sel, wrk, u, an, sc) => SelectionFollows(sel, wrk, u, more, sc)
    BY <1>1 DEF SelectionFollows
  <2>2. SomeSelected(u, an, sc) => SomeSelected(u, more, sc) BY <1>2 DEF SomeSelected
  <2>. QED BY <1>7, <1>12, <2>1, <2>2 DEF Highlighted
<1>. QED BY <1>11, <1>12 DEF more, Given

\* What an answer less leaves sound.
Popped(l, sel, wrk, shown, an, sc, mis, sil, mis2) ==
  /\ UnderWay(l, sel, wrk, IF Refreshing(Head(an)) THEN Head(an).then.list ELSE shown,
              Tail(an), sc, mis2, sil)
  /\ ~mis2 /\ Head(an).then.at \in {"synced", "which"} =>
       Head(an).value = sel \/ SyncDue(sc, wrk) \/ \E k \in DOMAIN Tail(an) : Agrees(Tail(an)[k], sel)
  /\ ~mis2 /\ ~Lost(l, Tail(an)) /\ Head(an).then.at = "synced" /\ Head(an).value = None =>
       Has(sc, "changed") \/ Refreshes(Tail(an)) \/ shown = {}
  /\ ~Refreshing(Head(an)) /\ Head(an).then.at # "synced" =>
       \A u \in RailState : Highlighted(l, sel, wrk, u, an, sc, mis) =>
                            Highlighted(l, sel, wrk, u, Tail(an), sc, mis2)

\* An answer can be taken up, unless the refresh goes on with another question; a
\* spawned server that is gone is missed.
LEMMA PopAnswer ==
  ASSUME NEW l \in SUBSET Ids, NEW sel \in IdOrNone, NEW wrk \in WorkStates, NEW shown \in SUBSET Ids,
         NEW an \in Seq(Answer), NEW sc \in Seq(Scripts), NEW mis \in BOOLEAN, NEW sil, NEW mis2 \in BOOLEAN,
         UnderWay(l, sel, wrk, shown, an, sc, mis, sil), an # <<>>,
         ~(Head(an).then.at = "servers" /\ Head(an).then.last),
         mis => mis2,
         Head(an).then.at = "spawned" /\ Head(an).value # None /\ Head(an).value \notin l => mis2
  PROVE  Popped(l, sel, wrk, shown, an, sc, mis, sil, mis2)
<1>. DEFINE rest == Tail(an)
            h == Head(an)
            shows == IF Refreshing(h) THEN h.then.list ELSE shown
<1>1. /\ h = an[1] /\ 1 \in DOMAIN an /\ h \in Answer /\ rest \in Seq(Answer)
      /\ \A k \in DOMAIN rest : k + 1 \in DOMAIN an /\ rest[k] = an[k + 1] /\ k \in Nat
      /\ \A k \in DOMAIN an : k # 1 => k - 1 \in DOMAIN rest /\ rest[k - 1] = an[k] /\ k \in Nat
  BY SeqPop
<1>h. h = Head(an) /\ ~(h.then.at = "servers" /\ h.then.last) OBVIOUS
<1>. HIDE DEF rest, h
<1>2. Refreshes(an) => Refreshing(h) \/ Refreshes(rest) BY <1>1 DEF Refreshes
<1>3. Refreshes(rest) => Refreshes(an) BY <1>1 DEF Refreshes
<1>4. RailFollows(l, sil, shows, rest, sc)
  <2>1. CASE Has(sc, "changed") BY <2>1 DEF RailFollows
  <2>2. CASE ~Has(sc, "changed")
    <3>1. \A k \in DOMAIN an : Refreshing(an[k]) => Current(ListOf(an[k]), l, sil)
      BY <2>2 DEF UnderWay, RailFollows
    <3>2. \A k \in DOMAIN rest : Refreshing(rest[k]) => Current(ListOf(rest[k]), l, sil) BY <1>1, <3>1
    <3>3. CASE Refreshing(h)
      <4>1. ListOf(h) = shows BY <1>h, <3>3 DEF Refreshing, ListOf
      <4>. QED BY <1>1, <3>1, <3>2, <3>3, <4>1 DEF RailFollows
    <3>4. CASE ~Refreshing(h)
      BY <1>2, <2>2, <3>2, <3>4 DEF UnderWay, RailFollows
    <3>. QED BY <3>3, <3>4
  <2>. QED BY <2>1, <2>2
<1>5. SpawnedDone(wrk, rest) BY <1>1 DEF SpawnedDone, UnderWay
<1>6. ~mis => OpenedWell(rest) BY <1>1 DEF OpenedWell, UnderWay
<1>7. ASSUME ~mis PROVE StaleCorrected(sel, wrk, rest, sc)
  <2>. SUFFICES ASSUME NEW k \in DOMAIN rest, rest[k].then.at \in {"synced", "which"}, rest[k].value # sel,
                       ~SyncDue(sc, wrk)
                PROVE  \E j \in DOMAIN rest : j > k /\ Agrees(rest[j], sel)
    BY DEF StaleCorrected
  <2>1. PICK j \in DOMAIN an : j > k + 1 /\ Agrees(an[j], sel)
    BY <1>1, <1>7 DEF StaleCorrected, UnderWay
  <2>2. k \in Nat /\ j \in Nat /\ j # 1 /\ j - 1 > k BY <1>1, <2>1
  <2>. QED BY <1>1, <2>1, <2>2
<1>8. ~mis2 /\ ~Lost(l, rest) => ~mis /\ ~Lost(l, an)
  <2>1. ASSUME NEW k \in DOMAIN an, an[k].then.at = "spawned", an[k].value # None, an[k].value \notin l, ~mis2
        PROVE  Lost(l, rest)
    BY <1>1, <1>h, <2>1 DEF Lost
  <2>. QED BY <2>1 DEF Lost
<1>9. Bare(shown, an) => Bare(shows, rest)
  <2>. SUFFICES ASSUME Bare(shown, an) PROVE Bare(shows, rest) OBVIOUS
  <2>1. Refreshing(h) => shows = {} BY <1>1, <1>h DEF Bare, ListOf, Refreshing
  <2>2. ~Refreshing(h) => shows = shown OBVIOUS
  <2>. QED BY <1>1, <1>2, <2>1, <2>2 DEF Bare
<1>10. ASSUME ~mis, ~Lost(l, an) PROVE NoneAnswered(shows, rest, sc)
  <2>. SUFFICES ASSUME NEW k \in DOMAIN rest, rest[k].then.at = "synced", rest[k].value = None,
                       ~Has(sc, "changed"), ~Bare(shows, rest)
                PROVE  \E j \in DOMAIN rest : j > k /\ Refreshing(rest[j])
    BY DEF NoneAnswered
  <2>1. PICK j \in DOMAIN an : j > k + 1 /\ Refreshing(an[j])
    BY <1>1, <1>9, <1>10 DEF NoneAnswered, UnderWay
  <2>2. k \in Nat /\ j \in Nat /\ j # 1 /\ j - 1 > k BY <1>1, <2>1
  <2>. QED BY <1>1, <2>1, <2>2
<1>11. ASSUME ~mis, ~Lost(l, an) PROVE NoneTold(l, sel, shows, rest, sc)
  BY <1>9, <1>11 DEF NoneTold, UnderWay
<1>12. UnderWay(l, sel, wrk, shows, rest, sc, mis2, sil)
  BY <1>4, <1>5, <1>6, <1>7, <1>8, <1>10, <1>11 DEF UnderWay
<1>13. ASSUME ~mis2, h.then.at \in {"synced", "which"}, h.value # sel, ~SyncDue(sc, wrk)
       PROVE  \E k \in DOMAIN rest : Agrees(rest[k], sel)
  <2>1. PICK j \in DOMAIN an : j > 1 /\ Agrees(an[j], sel) BY <1>1, <1>13 DEF StaleCorrected, UnderWay
  <2>2. j # 1 BY <2>1
  <2>. QED BY <1>1, <2>1, <2>2
<1>14. ASSUME ~mis2, ~Lost(l, rest), h.then.at = "synced", h.value = None, ~Has(sc, "changed"), shown # {}
       PROVE  Refreshes(rest)
  <2>1. ~Refreshing(h) BY <1>14 DEF Refreshing
  <2>2. Bare(shown, an) \/ \E j \in DOMAIN an : j > 1 /\ Refreshing(an[j])
    BY <1>1, <1>8, <1>14 DEF NoneAnswered, UnderWay
  <2>3. Refreshes(an) BY <1>14, <2>2 DEF Bare, Refreshes
  <2>. QED BY <1>2, <2>1, <2>3
<1>15. ASSUME ~Refreshing(h), h.then.at # "synced", NEW u \in RailState, Highlighted(l, sel, wrk, u, an, sc, mis)
       PROVE  Highlighted(l, sel, wrk, u, rest, sc, mis2)
  <2>1. SelectionFollows(sel, wrk, u, an, sc) => SelectionFollows(sel, wrk, u, rest, sc)
    BY <1>1, <1>15 DEF SelectionFollows, Agrees
  <2>2. SomeSelected(u, an, sc) => SomeSelected(u, rest, sc) BY <1>2, <1>15 DEF SomeSelected
  <2>. QED BY <1>8, <1>15, <2>1, <2>2 DEF Highlighted
<1>. QED BY <1>12, <1>13, <1>14, <1>15 DEF rest, h, Popped

\* What a word to the rail that there is something new leaves sound, whatever is new.
ToldOf(l, sel, wrk, an, sc, mis, l2, wrk2, shown2, sil2) ==
  /\ UnderWay(l2, sel, wrk2, shown2, an, Append(sc, "changed"), mis, sil2)
  /\ \A u, u2 \in RailState :
       /\ Highlighted(l, sel, wrk, u, an, sc, mis)
       /\ u2.servers \subseteq u.servers
       /\ u2.selected \in {u.selected, None} /\ u2.desired \in {u.desired, None}
       => Highlighted(l2, sel, wrk2, u2, an, Append(sc, "changed"), mis)

\* Once the rail is to be told, it may show and there may be what it does not know.
LEMMA SayChanged ==
  ASSUME NEW l \in SUBSET Ids, NEW sel \in IdOrNone, NEW wrk \in WorkStates, NEW shown \in SUBSET Ids,
         NEW an \in Seq(Answer), NEW sc \in Seq(Scripts), NEW mis \in BOOLEAN, NEW sil,
         UnderWay(l, sel, wrk, shown, an, sc, mis, sil),
         NEW l2 \in SUBSET Ids, NEW wrk2 \in WorkStates, NEW shown2 \in SUBSET Ids, NEW sil2,
         SpawnedDone(wrk2, an), StillSelected(l2, sel, wrk2), SyncDue(sc, wrk) => SyncDue(sc, wrk2)
  PROVE  ToldOf(l, sel, wrk, an, sc, mis, l2, wrk2, shown2, sil2)
<1>. DEFINE more == Append(sc, "changed")
            n == Len(sc) + 1
<1>1. /\ more \in Seq(Scripts) /\ DOMAIN more = DOMAIN sc \cup {n} /\ more[n] = "changed" /\ n \in Nat
      /\ \A k \in DOMAIN sc : more[k] = sc[k] /\ k \in Nat /\ k < n
  BY SeqPush DEF Scripts
<1>. HIDE DEF more, n
<1>2. Has(more, "changed") BY <1>1 DEF Has
<1>3. SyncDue(sc, wrk) => SyncDue(more, wrk2) BY <1>1 DEF SyncDue, Has
<1>4. RailFollows(l2, sil2, shown2, an, more) BY <1>2 DEF RailFollows
<1>5. ~mis => StaleCorrected(sel, wrk2, an, more) BY <1>3 DEF StaleCorrected, UnderWay
<1>6. NoneAnswered(shown2, an, more) BY <1>2 DEF NoneAnswered
<1>7. NoneTold(l2, sel, shown2, an, more) BY <1>1 DEF NoneTold
<1>8. UnderWay(l2, sel, wrk2, shown2, an, more, mis, sil2) BY <1>4, <1>5, <1>6, <1>7 DEF UnderWay
<1>9. ASSUME NEW u \in RailState, NEW u2 \in RailState, Highlighted(l, sel, wrk, u, an, sc, mis),
             u2.servers \subseteq u.servers,
             u2.selected \in {u.selected, None}, u2.desired \in {u.desired, None}
      PROVE  Highlighted(l2, sel, wrk2, u2, an, more, mis)
  <2>1. None \notin u2.servers BY NoneIsNoId DEF RailState
  <2>2. ~mis => u2.desired \notin u2.servers BY <1>9, <2>1 DEF Highlighted
  <2>3. ~mis => SelectionFollows(sel, wrk2, u2, an, more)
    BY <1>3, <1>9, <2>1 DEF Highlighted, SelectionFollows
  <2>4. SomeSelected(u2, an, more) BY <1>2 DEF SomeSelected
  <2>. QED BY <2>2, <2>3, <2>4 DEF Highlighted
<1>. QED BY <1>8, <1>9 DEF more, ToldOf

\* A selection that the rail is to ask for.
LEMMA SaySync ==
  ASSUME NEW l \in SUBSET Ids, NEW sel \in IdOrNone, NEW wrk \in WorkStates, NEW shown \in SUBSET Ids,
         NEW an \in Seq(Answer), NEW sc \in Seq(Scripts), NEW mis \in BOOLEAN, NEW sil,
         UnderWay(l, sel, wrk, shown, an, sc, mis, sil),
         NEW sel2 \in Ids
  PROVE  /\ UnderWay(l, sel2, wrk, shown, an, Append(sc, "sync"), mis, sil)
         /\ \A u \in RailState : Highlighted(l, sel, wrk, u, an, sc, mis) =>
                                 Highlighted(l, sel2, wrk, u, an, Append(sc, "sync"), mis)
<1>. DEFINE more == Append(sc, "sync")
            n == Len(sc) + 1
<1>1. /\ more \in Seq(Scripts) /\ DOMAIN more = DOMAIN sc \cup {n} /\ more[n] = "sync" /\ n \in Nat
      /\ \A k \in DOMAIN sc : more[k] = sc[k] /\ k \in Nat /\ k < n
  BY SeqPush DEF Scripts
<1>. HIDE DEF more, n
<1>2. SyncDue(more, wrk) BY <1>1 DEF SyncDue, Has
<1>3. Has(sc, "changed") <=> Has(more, "changed") BY <1>1 DEF Has
<1>4. RailFollows(l, sil, shown, an, more) BY <1>3 DEF RailFollows, UnderWay
<1>5. StaleCorrected(sel2, wrk, an, more) BY <1>2 DEF StaleCorrected
<1>6. NoneAnswered(shown, an, sc) => NoneAnswered(shown, an, more) BY <1>3 DEF NoneAnswered
<1>7. sel2 # None /\ NoneTold(l, sel2, shown, an, more) BY NoneIsNoId DEF NoneTold
<1>8. UnderWay(l, sel2, wrk, shown, an, more, mis, sil)
  BY <1>4, <1>5, <1>6, <1>7 DEF UnderWay, StillSelected
<1>9. ASSUME NEW u \in RailState, Highlighted(l, sel, wrk, u, an, sc, mis)
      PROVE  Highlighted(l, sel2, wrk, u, an, more, mis)
  BY <1>2, <1>3, <1>9 DEF Highlighted, SelectionFollows, SomeSelected
<1>. QED BY <1>8, <1>9 DEF more

\* That the last server is gone is said before that nothing is selected.
LEMMA SayNone ==
  ASSUME NEW sel \in IdOrNone, NEW wrk \in WorkStates, NEW shown \in SUBSET Ids,
         NEW an \in Seq(Answer), NEW sc0 \in Seq(Scripts), NEW mis \in BOOLEAN, NEW sil,
         UnderWay({}, sel, wrk, shown, an, Append(sc0, "changed"), mis, sil)
  PROVE  /\ UnderWay({}, None, wrk, shown, an, Append(Append(sc0, "changed"), "sync"), mis, sil)
         /\ \A u \in RailState : Highlighted({}, sel, wrk, u, an, Append(sc0, "changed"), mis) =>
                                 Highlighted({}, None, wrk, u, an, Append(Append(sc0, "changed"), "sync"), mis)
<1>. DEFINE sc == Append(sc0, "changed")
            more == Append(sc, "sync")
            m == Len(sc0) + 1
            n == Len(sc) + 1
<1>0. sc \in Seq(Scripts) /\ m \in DOMAIN sc /\ sc[m] = "changed" BY SeqPush DEF Scripts
<1>1. /\ more \in Seq(Scripts) /\ DOMAIN more = DOMAIN sc \cup {n} /\ more[n] = "sync" /\ n \in Nat
      /\ \A k \in DOMAIN sc : more[k] = sc[k] /\ k \in Nat /\ k < n
  BY <1>0, SeqPush DEF Scripts
<1>2. \A k \in DOMAIN sc : k <= m BY <1>0
<1>h. UnderWay({}, sel, wrk, shown, an, sc, mis, sil) OBVIOUS
<1>. HIDE DEF more, sc, m, n
<1>3. SyncDue(more, wrk) /\ Has(more, "changed") BY <1>0, <1>1 DEF SyncDue, Has
<1>4. RailFollows({}, sil, shown, an, more) BY <1>3 DEF RailFollows
<1>5. StaleCorrected(None, wrk, an, more) BY <1>3 DEF StaleCorrected
<1>6. NoneAnswered(shown, an, more) BY <1>3 DEF NoneAnswered
<1>7. NoneTold({}, None, shown, an, more)
  <2>1. ASSUME NEW p \in DOMAIN more, more[p] = "sync"
        PROVE  (\E q \in DOMAIN more : q > p /\ more[q] = "changed")
               \/ \E q \in DOMAIN more : q < p /\ more[q] = "changed"
    <3>1. m \in DOMAIN more /\ more[m] = "changed" BY <1>0, <1>1
    <3>2. p > m \/ p < m BY <1>0, <1>1, <1>2, <2>1, <3>1
    <3>. QED BY <3>1, <3>2
  <2>. QED BY <2>1 DEF NoneTold
<1>8. UnderWay({}, None, wrk, shown, an, more, mis, sil)
  BY <1>h, <1>4, <1>5, <1>6, <1>7 DEF UnderWay, StillSelected
<1>9. ASSUME NEW u \in RailState, Highlighted({}, sel, wrk, u, an, sc, mis)
      PROVE  Highlighted({}, None, wrk, u, an, more, mis)
  BY <1>3, <1>9 DEF Highlighted, SelectionFollows, SomeSelected
<1>. QED BY <1>8, <1>9 DEF more, sc

\* An answer whose value is one that its question can have.
LEMMA AnswerType ==
  ASSUME NEW t \in Thens, NEW v,
         \/ t.at = "servers" /\ v \in SUBSET Ids
         \/ t.at \in {"opened", "closed"} /\ v \in BOOLEAN
         \/ t.at \in {"which", "synced"} /\ v \in IdOrNone
         \/ t.at = "spawned" /\ v \in Spawnable \cup {None}
  PROVE  [then |-> t, value |-> v] \in Answer
<1>. DEFINE a == [then |-> t, value |-> v]
<1>1. v \in Values BY NoneIsNoId DEF Values, IdOrNone
<1>2. a \in [then : Thens, value : Values] /\ a.then = t /\ a.value = v BY <1>1
<1>. HIDE DEF a
<1>3. Fits(a) BY <1>2 DEF Fits
<1>. QED BY <1>2, <1>3 DEF Answer, a

\* What the rail is told of its spawn is an answer, to no refresh.
LEMMA StartedType ==
  ASSUME NEW i \in Spawnable \cup {None}
  PROVE  /\ Started(i) \in Answer /\ Started(i).then.at = "spawned" /\ Started(i).value = i
         /\ ~Refreshing(Started(i))
<1>. DEFINE t == [Then EXCEPT !.at = "spawned"]
<1>2. t \in Thens /\ t.at = "spawned" BY DEF Then, Thens, Points, IdOrNone
<1>3. Started(i) = [then |-> t, value |-> i] BY DEF Started
<1>. HIDE DEF t
<1>4. Started(i) \in Answer BY <1>2, <1>3, AnswerType
<1>. QED BY <1>2, <1>3, <1>4 DEF Refreshing

\* What a server less leaves sound.
Bereft(l, sel, wrk, shown, an, sc, mis, sil, i) ==
  /\ UnderWay(l \ {i}, sel, wrk, shown, an, sc, mis, sil \cup {i})
  /\ \A u \in RailState : Highlighted(l, sel, wrk, u, an, sc, mis) =>
                          Highlighted(l \ {i}, sel, wrk, u, an, sc, mis)

\* A server can die without a word.
LEMMA Dying ==
  ASSUME NEW l \in SUBSET Ids, NEW sel \in IdOrNone, NEW wrk \in WorkStates, NEW shown \in SUBSET Ids,
         NEW an \in Seq(Answer), NEW sc \in Seq(Scripts), NEW mis \in BOOLEAN, NEW sil,
         UnderWay(l, sel, wrk, shown, an, sc, mis, sil),
         NEW i
  PROVE  Bereft(l, sel, wrk, shown, an, sc, mis, sil, i)
<1>1. Lost(l, an) => Lost(l \ {i}, an) BY DEF Lost
<1>2. \A list : Current(list, l, sil) => Current(list, l \ {i}, sil \cup {i}) BY DEF Current
<1>3. RailFollows(l \ {i}, sil \cup {i}, shown, an, sc) BY <1>2 DEF RailFollows, UnderWay
<1>4. NoneTold(l, sel, shown, an, sc) => NoneTold(l \ {i}, sel, shown, an, sc) BY DEF NoneTold
<1>5. StillSelected(l \ {i}, sel, wrk) BY DEF StillSelected, UnderWay
<1>6. UnderWay(l \ {i}, sel, wrk, shown, an, sc, mis, sil \cup {i})
  BY <1>1, <1>3, <1>4, <1>5 DEF UnderWay
<1>. QED BY <1>1, <1>6 DEF Highlighted, Bereft

\* What a step of a worker leaves sound.
WentOn(l, sel, wrk, shown, an, sc, mis, sil, i, x, sel2) ==
  /\ UnderWay(l, sel2, [wrk EXCEPT ![i] = x], shown, an, sc, mis, sil)
  /\ \A u \in RailState : Highlighted(l, sel, wrk, u, an, sc, mis) =>
                          Highlighted(l, sel2, [wrk EXCEPT ![i] = x], u, an, sc, mis)
  /\ [wrk EXCEPT ![i] = x] \in WorkStates

\* A worker goes on, before it has shown its server.
LEMMA WorkGoesOn ==
  ASSUME NEW l \in SUBSET Ids, NEW sel \in IdOrNone, NEW wrk \in WorkStates, NEW shown \in SUBSET Ids,
         NEW an \in Seq(Answer), NEW sc \in Seq(Scripts), NEW mis \in BOOLEAN, NEW sil,
         UnderWay(l, sel, wrk, shown, an, sc, mis, sil),
         NEW i \in Spawnable, wrk[i] \notin {"selected", "done"},
         NEW x \in {"start", "listed", "found", "selected", "done"},
         NEW sel2, sel2 = IF x = "selected" THEN i ELSE sel
  PROVE  WentOn(l, sel, wrk, shown, an, sc, mis, sil, i, x, sel2)
<1>. DEFINE wrk2 == [wrk EXCEPT ![i] = x]
<1>0. wrk2 \in WorkStates /\ wrk2[i] = x /\ \A j \in Spawnable \ {i} : wrk2[j] = wrk[j] BY DEF WorkStates
<1>. HIDE DEF wrk2
<1>1. i # None /\ i \in Ids BY NoneIsNoId
<1>2. \A j \in Spawnable : wrk[j] = "done" => wrk2[j] = "done" BY <1>0
<1>3. \A j \in Spawnable : wrk[j] = "selected" => wrk2[j] = "selected" BY <1>0
<1>4. SyncDue(sc, wrk) => SyncDue(sc, wrk2) BY <1>3 DEF SyncDue
<1>5. sel2 # sel => SyncDue(sc, wrk2) BY <1>0 DEF SyncDue
<1>6. \A k \in DOMAIN an : an[k].then.at = "spawned" /\ an[k].value # None => an[k].value \in Spawnable
  <2>1. \A k \in DOMAIN an : an[k] \in Answer OBVIOUS
  <2>. QED BY <2>1 DEF Answer, Fits
<1>7. SpawnedDone(wrk2, an) BY <1>2, <1>6 DEF SpawnedDone, UnderWay
<1>8. StillSelected(l, sel2, wrk2) BY <1>0, <1>1 DEF StillSelected, UnderWay
<1>9. ~mis => StaleCorrected(sel2, wrk2, an, sc) BY <1>4, <1>5 DEF StaleCorrected, UnderWay
<1>10. NoneTold(l, sel, shown, an, sc) => NoneTold(l, sel2, shown, an, sc) BY <1>1 DEF NoneTold
<1>11. UnderWay(l, sel2, wrk2, shown, an, sc, mis, sil) BY <1>7, <1>8, <1>9, <1>10 DEF UnderWay
<1>12. ASSUME NEW u \in RailState, SelectionFollows(sel, wrk, u, an, sc)
       PROVE  SelectionFollows(sel2, wrk2, u, an, sc)
  BY <1>4, <1>5, <1>12 DEF SelectionFollows
<1>13. \A u \in RailState : Highlighted(l, sel, wrk, u, an, sc, mis) => Highlighted(l, sel2, wrk2, u, an, sc, mis)
  BY <1>12 DEF Highlighted
<1>. QED BY <1>0, <1>11, <1>13 DEF wrk2, WentOn

\* What the end of a worker leaves sound.
WasShown(l, sel, wrk, shown, an, sc, mis, sil, i) ==
  LET wrk2 == [wrk EXCEPT ![i] = "done"]
  IN  /\ UnderWay(l, sel, wrk2, shown, Append(an, Started(i)), Append(sc, "sync"), mis, sil)
      /\ \A u \in RailState : Highlighted(l, sel, wrk, u, an, sc, mis) =>
                              Highlighted(l, sel, wrk2, u, Append(an, Started(i)), Append(sc, "sync"), mis)
      /\ wrk2 \in WorkStates

\* A spawned server is shown: the rail gets its answer and is to ask for the
\* selection, and if that is none the server is gone.
LEMMA SpawnShown ==
  ASSUME NEW l \in SUBSET Ids, NEW sel \in IdOrNone, NEW wrk \in WorkStates, NEW shown \in SUBSET Ids,
         NEW an \in Seq(Answer), NEW sc \in Seq(Scripts), NEW mis \in BOOLEAN, NEW sil,
         UnderWay(l, sel, wrk, shown, an, sc, mis, sil),
         NEW i \in Spawnable, wrk[i] = "selected"
  PROVE  WasShown(l, sel, wrk, shown, an, sc, mis, sil, i)
<1>. DEFINE wrk2 == [wrk EXCEPT ![i] = "done"]
<1>w. wrk2 \in WorkStates /\ wrk2[i] = "done" /\ \A j \in Spawnable \ {i} : wrk2[j] = wrk[j] BY DEF WorkStates
<1>. HIDE DEF wrk2
<1>. DEFINE more == Append(an, Started(i))
            n == Len(an) + 1
            says == Append(sc, "sync")
            m == Len(sc) + 1
<1>0. i # None /\ i \in Ids BY NoneIsNoId
<1>1. Started(i) \in Answer /\ Started(i).then.at = "spawned" /\ Started(i).value = i
  BY <1>0, StartedType
<1>2. /\ more \in Seq(Answer) /\ DOMAIN more = DOMAIN an \cup {n} /\ more[n] = Started(i) /\ n \in Nat
      /\ \A k \in DOMAIN an : more[k] = an[k] /\ k \in Nat /\ k < n
  BY <1>1, SeqPush
<1>3. /\ says \in Seq(Scripts) /\ DOMAIN says = DOMAIN sc \cup {m} /\ says[m] = "sync" /\ m \in Nat
      /\ \A k \in DOMAIN sc : says[k] = sc[k] /\ k \in Nat /\ k < m
  BY SeqPush DEF Scripts
<1>. HIDE DEF more, n, says, m
<1>4. SyncDue(says, wrk2) BY <1>3 DEF SyncDue, Has
<1>5. Has(says, "changed") <=> Has(sc, "changed") BY <1>3 DEF Has
<1>6. Refreshes(more) <=> Refreshes(an) BY <1>1, <1>2 DEF Refreshes, Refreshing
<1>7. RailFollows(l, sil, shown, more, says)
  BY <1>1, <1>2, <1>5, <1>6 DEF RailFollows, UnderWay, Refreshing
<1>8. \A k \in DOMAIN an : an[k].then.at = "spawned" /\ an[k].value # None =>
        an[k].value \in Spawnable /\ wrk[an[k].value] = "done"
  <2>1. \A k \in DOMAIN an : an[k] \in Answer OBVIOUS
  <2>. QED BY <2>1 DEF Answer, Fits, UnderWay, SpawnedDone
<1>9. SpawnedDone(wrk2, more) BY <1>w, <1>1, <1>2, <1>8 DEF SpawnedDone
<1>10. StillSelected(l, sel, wrk2) BY <1>w DEF StillSelected, UnderWay
<1>11. ~mis => OpenedWell(more) BY <1>1, <1>2 DEF OpenedWell, UnderWay
<1>12. StaleCorrected(sel, wrk2, more, says) BY <1>4 DEF StaleCorrected
<1>13. ~Lost(l, more) => ~Lost(l, an) /\ sel # None
  <2>1. ~Lost(l, more) => ~Lost(l, an) BY <1>2 DEF Lost
  <2>2. ~Lost(l, more) => i \in l BY <1>0, <1>1, <1>2 DEF Lost
  <2>. QED BY <2>1, <2>2 DEF UnderWay, StillSelected
<1>14. Bare(shown, an) => Bare(shown, more) BY <1>1, <1>2, <1>6 DEF Bare, Refreshing
<1>15. NoneAnswered(shown, an, sc) => NoneAnswered(shown, more, says)
  BY <1>1, <1>2, <1>5, <1>14 DEF NoneAnswered
<1>16. sel # None => NoneTold(l, sel, shown, more, says) BY DEF NoneTold
<1>17. UnderWay(l, sel, wrk2, shown, more, says, mis, sil)
  BY <1>7, <1>9, <1>10, <1>11, <1>12, <1>13, <1>15, <1>16 DEF UnderWay
<1>18. ASSUME NEW u \in RailState, Highlighted(l, sel, wrk, u, an, sc, mis)
       PROVE  Highlighted(l, sel, wrk2, u, more, says, mis)
  BY <1>4, <1>5, <1>6, <1>13, <1>18 DEF Highlighted, SelectionFollows, SomeSelected
<1>. QED BY <1>w, <1>17, <1>18 DEF more, says, wrk2, WasShown

\* What the start of a refresh leaves sound.
AskedServers(l, sel, wrk, shown, an, sc, mis, sil, a, left) ==
  /\ UnderWay(l, sel, wrk, shown, Append(Yielded(an), a), left, mis, sil)
  /\ \A u, u2 \in RailState :
       /\ Highlighted(l, sel, wrk, u, an, sc, mis)
       /\ u2.servers = u.servers
       /\ u2.selected \in {u.selected, None} /\ u2.desired \in {u.desired, None}
       => Highlighted(l, sel, wrk, u2, Append(Yielded(an), a), left, mis)

\* A refresh can start at any time, and for it a word that there is something new
\* can be forgotten.
LEMMA AskServers ==
  ASSUME NEW l \in SUBSET Ids, NEW sel \in IdOrNone, NEW wrk \in WorkStates, NEW shown \in SUBSET Ids,
         NEW an \in Seq(Answer), NEW sc \in Seq(Scripts), NEW mis \in BOOLEAN, NEW sil,
         UnderWay(l, sel, wrk, shown, an, sc, mis, sil),
         NEW a \in Answer, a.then.at = "servers", a.then.last, a.value = l,
         NEW left \in Seq(Scripts), left = sc \/ (sc # <<>> /\ Head(sc) = "changed" /\ left = Tail(sc))
  PROVE  AskedServers(l, sel, wrk, shown, an, sc, mis, sil, a, left)
<1>. DEFINE old == Yielded(an)
            more == Append(old, a)
            n == Len(old) + 1
<1>0. /\ old \in Seq(Answer) /\ DOMAIN old = DOMAIN an
      /\ \A k \in DOMAIN an : old[k].value = an[k].value /\ old[k].then.at = an[k].then.at /\ ~Refreshing(old[k])
  BY SeqYield
<1>. HIDE DEF old
<1>1. /\ more \in Seq(Answer) /\ DOMAIN more = DOMAIN old \cup {n} /\ more[n] = a /\ n \in Nat
      /\ \A k \in DOMAIN old : more[k] = old[k] /\ k \in Nat /\ k < n
  BY <1>0, SeqPush
<1>. HIDE DEF more, n
<1>2. /\ DOMAIN more = DOMAIN an \cup {n} /\ more[n] = a /\ n \in Nat
      /\ \A k \in DOMAIN an : /\ more[k].value = an[k].value /\ more[k].then.at = an[k].then.at
                              /\ ~Refreshing(more[k]) /\ k \in Nat /\ k < n
  BY <1>0, <1>1
<1>3. Refreshing(a) /\ ListOf(a) = l BY DEF Refreshing, ListOf
<1>4. Refreshes(more) BY <1>2, <1>3 DEF Refreshes
<1>5. Current(l, l, sil) BY DEF Current
<1>6. RailFollows(l, sil, shown, more, left) BY <1>2, <1>3, <1>4, <1>5 DEF RailFollows
<1>7. SpawnedDone(wrk, more) BY <1>2 DEF SpawnedDone, UnderWay
<1>8. ~mis => OpenedWell(more) BY <1>2 DEF OpenedWell, UnderWay
<1>9. SyncDue(sc, wrk) => SyncDue(left, wrk)
  <2>1. Has(sc, "sync") => Has(left, "sync")
    <3>1. CASE left = sc BY <3>1
    <3>2. CASE sc # <<>> /\ Head(sc) = "changed" /\ left = Tail(sc)
      <4>1. /\ sc[1] = "changed"
            /\ \A k \in DOMAIN sc : k # 1 => k - 1 \in DOMAIN left /\ left[k - 1] = sc[k]
        BY <3>2, SeqPop
      <4>. QED BY <4>1 DEF Has
    <3>. QED BY <3>1, <3>2
  <2>. QED BY <2>1 DEF SyncDue
<1>10. ~mis => StaleCorrected(sel, wrk, more, left)
  BY <1>2, <1>9 DEF StaleCorrected, UnderWay, Agrees
<1>11. NoneAnswered(shown, more, left) BY <1>2, <1>3 DEF NoneAnswered
<1>12. Lost(l, an) => Lost(l, more) BY <1>2 DEF Lost
<1>13. l = {} => Bare(shown, more) BY <1>2, <1>3, <1>4 DEF Bare
<1>14. NoneTold(l, sel, shown, an, sc) => NoneTold(l, sel, shown, more, left)
  <2>1. CASE left = sc BY <1>13, <2>1 DEF NoneTold
  <2>2. CASE sc # <<>> /\ Head(sc) = "changed" /\ left = Tail(sc)
    <3>1. /\ \A k \in DOMAIN left : k + 1 \in DOMAIN sc /\ left[k] = sc[k + 1] /\ k \in Nat
          /\ \A k \in DOMAIN sc : k # 1 => k - 1 \in DOMAIN left /\ left[k - 1] = sc[k] /\ k \in Nat
      BY <2>2, SeqPop
    <3>2. ASSUME NoneTold(l, sel, shown, an, sc), NEW p \in DOMAIN left, left[p] = "sync", sel = None, l # {}
          PROVE  \E q \in DOMAIN left : q > p /\ left[q] = "changed"
      <4>1. PICK q \in DOMAIN sc : q > p + 1 /\ sc[q] = "changed" BY <3>1, <3>2 DEF NoneTold
      <4>2. p \in Nat BY <3>1
      <4>3. q # 1 BY <4>1, <4>2
      <4>4. q \in Nat /\ q - 1 \in DOMAIN left /\ left[q - 1] = "changed" BY <3>1, <4>1, <4>3
      <4>5. q - 1 > p BY <4>1, <4>2, <4>4
      <4>. QED BY <4>4, <4>5
    <3>. QED BY <1>13, <3>2 DEF NoneTold
  <2>. QED BY <2>1, <2>2
<1>15. UnderWay(l, sel, wrk, shown, more, left, mis, sil)
  BY <1>6, <1>7, <1>8, <1>10, <1>11, <1>12, <1>14 DEF UnderWay
<1>16. ASSUME NEW u \in RailState, NEW u2 \in RailState, Highlighted(l, sel, wrk, u, an, sc, mis),
              u2.servers = u.servers, u2.selected \in {u.selected, None}, u2.desired \in {u.desired, None}
       PROVE  Highlighted(l, sel, wrk, u2, more, left, mis)
  <2>1. None \notin u2.servers BY NoneIsNoId DEF RailState
  <2>2. ~mis => u2.desired \notin u2.servers BY <1>16, <2>1 DEF Highlighted
  <2>3. ~mis => SelectionFollows(sel, wrk, u2, more, left)
    BY <1>2, <1>9, <1>16, <2>1 DEF Highlighted, SelectionFollows, Agrees
  <2>4. SomeSelected(u2, more, left) BY <1>4 DEF SomeSelected
  <2>. QED BY <2>2, <2>3, <2>4 DEF Highlighted
<1>. QED BY <1>15, <1>16 DEF more, old, AskedServers

\* What the second question of a refresh leaves sound.
AskedWhich(l, sel, wrk, shown, an, sc, mis, sil, a) ==
  /\ UnderWay(l, sel, wrk, shown, Append(Tail(an), a), sc, mis, sil)
  /\ \A u \in RailState : Highlighted(l, sel, wrk, u, an, sc, mis) =>
                          Highlighted(l, sel, wrk, u, Append(Tail(an), a), sc, mis)

\* A refresh that has its list asks for the selection.
LEMMA AskWhich ==
  ASSUME NEW l \in SUBSET Ids, NEW sel \in IdOrNone, NEW wrk \in WorkStates, NEW shown \in SUBSET Ids,
         NEW an \in Seq(Answer), NEW sc \in Seq(Scripts), NEW mis \in BOOLEAN, NEW sil,
         UnderWay(l, sel, wrk, shown, an, sc, mis, sil),
         an # <<>>, Head(an).then.at = "servers", Head(an).then.last,
         NEW a \in Answer, a.then.at = "which", a.then.last, a.then.list = Head(an).value, a.value = sel
  PROVE  AskedWhich(l, sel, wrk, shown, an, sc, mis, sil, a)
<1>. DEFINE rest == Tail(an)
            more == Append(rest, a)
            n == Len(rest) + 1
            h == Head(an)
<1>1. /\ h = an[1] /\ 1 \in DOMAIN an /\ h \in Answer /\ rest \in Seq(Answer)
      /\ \A k \in DOMAIN rest : k + 1 \in DOMAIN an /\ rest[k] = an[k + 1] /\ k \in Nat
      /\ \A k \in DOMAIN an : k # 1 => k - 1 \in DOMAIN rest /\ rest[k - 1] = an[k] /\ k \in Nat
  BY SeqPop
<1>h. /\ h.then.at = "servers" /\ h.then.last /\ a.then.list = h.value
      /\ Refreshing(h) /\ Refreshing(a) /\ ListOf(a) = ListOf(h)
  BY DEF Refreshing, ListOf
<1>. HIDE DEF rest, h
<1>2. /\ more \in Seq(Answer) /\ DOMAIN more = DOMAIN rest \cup {n} /\ more[n] = a /\ n \in Nat
      /\ \A k \in DOMAIN rest : more[k] = rest[k] /\ k \in Nat /\ k < n
  BY <1>1, SeqPush
<1>. HIDE DEF more, n
<1>3. /\ \A k \in DOMAIN more : k = n \/ (k \in Nat /\ k < n /\ k + 1 \in DOMAIN an /\ more[k] = an[k + 1])
      /\ \A k \in DOMAIN an : k # 1 => k - 1 \in DOMAIN more /\ more[k - 1] = an[k] /\ k \in Nat
      /\ n \in DOMAIN more /\ more[n] = a /\ n \in Nat
  BY <1>1, <1>2
<1>4. Refreshes(more) BY <1>h, <1>3 DEF Refreshes
<1>5. RailFollows(l, sil, shown, more, sc)
  BY <1>1, <1>h, <1>3, <1>4 DEF RailFollows, UnderWay
<1>6. SpawnedDone(wrk, more) BY <1>3 DEF SpawnedDone, UnderWay
<1>7. ~mis => OpenedWell(more) BY <1>3 DEF OpenedWell, UnderWay
<1>8. ASSUME ~mis PROVE StaleCorrected(sel, wrk, more, sc)
  <2>. SUFFICES ASSUME NEW k \in DOMAIN more, more[k].then.at \in {"synced", "which"}, more[k].value # sel,
                       ~SyncDue(sc, wrk)
                PROVE  \E j \in DOMAIN more : j > k /\ Agrees(more[j], sel)
    BY DEF StaleCorrected
  <2>0. k # n BY <1>3
  <2>1. PICK j \in DOMAIN an : j > k + 1 /\ Agrees(an[j], sel)
    BY <1>3, <1>8, <2>0 DEF StaleCorrected, UnderWay
  <2>2. k \in Nat /\ j # 1 BY <1>3, <2>0, <2>1
  <2>3. j \in Nat /\ j - 1 > k /\ j - 1 \in DOMAIN more /\ more[j - 1] = an[j] BY <1>3, <2>1, <2>2
  <2>. QED BY <2>1, <2>3
<1>9. Lost(l, an) => Lost(l, more) BY <1>1, <1>h, <1>3 DEF Lost
<1>10. Bare(shown, an) => Bare(shown, more) BY <1>1, <1>h, <1>3, <1>4 DEF Bare
<1>11. NoneAnswered(shown, more, sc)
  BY <1>h, <1>3 DEF NoneAnswered
<1>12. NoneTold(l, sel, shown, an, sc) => NoneTold(l, sel, shown, more, sc) BY <1>10 DEF NoneTold
<1>13. UnderWay(l, sel, wrk, shown, more, sc, mis, sil)
  BY <1>5, <1>6, <1>7, <1>8, <1>9, <1>11, <1>12 DEF UnderWay
<1>14. ASSUME NEW u \in RailState, SelectionFollows(sel, wrk, u, an, sc) PROVE SelectionFollows(sel, wrk, u, more, sc)
  <2>1. ASSUME NEW k \in DOMAIN an, Agrees(an[k], sel) PROVE \E j \in DOMAIN more : Agrees(more[j], sel)
    <3>1. k # 1 BY <1>1, <1>h, <2>1 DEF Agrees
    <3>. QED BY <1>3, <2>1, <3>1
  <2>. QED BY <1>14, <2>1 DEF SelectionFollows
<1>15. \A u \in RailState : SomeSelected(u, more, sc) BY <1>4 DEF SomeSelected
<1>. QED BY <1>13, <1>14, <1>15 DEF Highlighted, more, rest, AskedWhich

\* What the question for the selection leaves sound.
AskedSelection(l, sel, wrk, shown, an, sc, mis, sil, a) ==
  /\ UnderWay(l, sel, wrk, shown, Append(an, a), Tail(sc), mis, sil)
  /\ \A u \in RailState : Highlighted(l, sel, wrk, u, an, sc, mis) =>
                          Highlighted(l, sel, wrk, u, Append(an, a), Tail(sc), mis)

\* The rail asks for the selection as it was made to.
LEMMA AskSelection ==
  ASSUME NEW l \in SUBSET Ids, NEW sel \in IdOrNone, NEW wrk \in WorkStates, NEW shown \in SUBSET Ids,
         NEW an \in Seq(Answer), NEW sc \in Seq(Scripts), NEW mis \in BOOLEAN, NEW sil,
         UnderWay(l, sel, wrk, shown, an, sc, mis, sil),
         sc # <<>>, Head(sc) = "sync",
         NEW a \in Answer, a.then.at = "synced", a.value = sel
  PROVE  AskedSelection(l, sel, wrk, shown, an, sc, mis, sil, a)
<1>. DEFINE more == Append(an, a)
            n == Len(an) + 1
            left == Tail(sc)
<1>1. /\ more \in Seq(Answer) /\ DOMAIN more = DOMAIN an \cup {n} /\ more[n] = a /\ n \in Nat
      /\ \A k \in DOMAIN an : more[k] = an[k] /\ k \in Nat /\ k < n
  BY SeqPush
<1>2. /\ sc[1] = "sync" /\ 1 \in DOMAIN sc /\ left \in Seq(Scripts)
      /\ \A k \in DOMAIN left : k + 1 \in DOMAIN sc /\ left[k] = sc[k + 1] /\ k \in Nat
      /\ \A k \in DOMAIN sc : k # 1 => k - 1 \in DOMAIN left /\ left[k - 1] = sc[k] /\ k \in Nat
  BY SeqPop
<1>. HIDE DEF more, n, left
<1>3. Has(left, "changed") <=> Has(sc, "changed") BY <1>2 DEF Has
<1>4. ~Refreshing(a) BY DEF Refreshing
<1>5. Refreshes(more) <=> Refreshes(an) BY <1>1, <1>4 DEF Refreshes
<1>6. RailFollows(l, sil, shown, more, left) BY <1>1, <1>3, <1>4, <1>5 DEF RailFollows, UnderWay
<1>7. SpawnedDone(wrk, more) BY <1>1 DEF SpawnedDone, UnderWay
<1>8. ~mis => OpenedWell(more) BY <1>1 DEF OpenedWell, UnderWay
<1>9. Agrees(more[n], sel) /\ n \in DOMAIN more BY <1>1 DEF Agrees
<1>10. StaleCorrected(sel, wrk, more, left) BY <1>1, <1>9 DEF StaleCorrected
<1>11. ~Lost(l, more) => ~Lost(l, an) BY <1>1 DEF Lost
<1>12. Bare(shown, an) <=> Bare(shown, more) BY <1>1, <1>4, <1>5 DEF Bare
<1>13. ASSUME NoneTold(l, sel, shown, an, sc) PROVE NoneTold(l, sel, shown, more, left)
  <2>. SUFFICES ASSUME NEW p \in DOMAIN left, left[p] = "sync", sel = None,
                       ~\E q \in DOMAIN left : q > p /\ left[q] = "changed"
                PROVE  l = {} /\ (Bare(shown, more) \/ \E q \in DOMAIN left : q < p /\ left[q] = "changed")
    BY DEF NoneTold
  <2>1. p \in Nat /\ p + 1 \in DOMAIN sc /\ sc[p + 1] = "sync" BY <1>2
  <2>2. \A q \in DOMAIN sc : q \in Nat BY <1>2
  <2>3. ~\E q \in DOMAIN sc : q > p + 1 /\ sc[q] = "changed"
    <3>1. ASSUME NEW q \in DOMAIN sc, q > p + 1, sc[q] = "changed" PROVE FALSE
      <4>1. q # 1 BY <1>2, <3>1
      <4>2. q - 1 \in DOMAIN left /\ left[q - 1] = "changed" /\ q - 1 > p BY <1>2, <2>1, <2>2, <3>1, <4>1
      <4>. QED BY <4>2
    <3>. QED BY <3>1
  <2>4. l = {} /\ (Bare(shown, an) \/ \E q \in DOMAIN sc : q < p + 1 /\ sc[q] = "changed")
    BY <1>13, <2>1, <2>3 DEF NoneTold
  <2>5. ASSUME NEW q \in DOMAIN sc, q < p + 1, sc[q] = "changed"
        PROVE  \E r \in DOMAIN left : r < p /\ left[r] = "changed"
    <3>1. q # 1 BY <1>2, <2>5
    <3>2. q - 1 \in DOMAIN left /\ left[q - 1] = "changed" /\ q - 1 < p BY <1>2, <2>1, <2>2, <2>5, <3>1
    <3>. QED BY <3>2
  <2>. QED BY <1>12, <2>4, <2>5
<1>14. ASSUME NoneTold(l, sel, shown, an, sc), sel = None PROVE Has(left, "changed") \/ Bare(shown, more)
  <2>1. (\E q \in DOMAIN sc : q > 1 /\ sc[q] = "changed") \/ Bare(shown, an)
        \/ \E q \in DOMAIN sc : q < 1 /\ sc[q] = "changed"
    BY <1>2, <1>14 DEF NoneTold
  <2>2. ~\E q \in DOMAIN sc : q < 1 /\ sc[q] = "changed" OBVIOUS
  <2>. QED BY <1>3, <1>12, <2>1, <2>2 DEF Has
<1>15. ASSUME NoneAnswered(shown, an, sc), NoneTold(l, sel, shown, an, sc) PROVE NoneAnswered(shown, more, left)
  BY <1>1, <1>3, <1>12, <1>14, <1>15 DEF NoneAnswered
<1>16. UnderWay(l, sel, wrk, shown, more, left, mis, sil)
  BY <1>6, <1>7, <1>8, <1>10, <1>11, <1>13, <1>15 DEF UnderWay
<1>17. ASSUME NEW u \in RailState, Highlighted(l, sel, wrk, u, an, sc, mis)
       PROVE  Highlighted(l, sel, wrk, u, more, left, mis)
  BY <1>3, <1>5, <1>9, <1>11, <1>17 DEF Highlighted, SelectionFollows, SomeSelected
<1>. QED BY <1>16, <1>17 DEF more, left, AskedSelection
-----------------------------------------------------------------------------
\* The least of some servers is one of them.
LEMMA LeastId == \A set \in SUBSET Ids : set # {} => Least(set) \in set
<1>. TAKE set \in SUBSET Ids
<1>1. set \in SUBSET Nat BY ShellConstants
<1>2. set # {} => \E i \in set : \A j \in set : i <= j BY <1>1, LeastNat
<1>. QED BY <1>2 DEF Least

\* What the host says, said after what it said before.
LEMMA Saying ==
  ASSUME NEW sc \in Seq(Scripts)
  PROVE  /\ sc \o <<>> = sc
         /\ sc \o Append(<<>>, "sync") = Append(sc, "sync")
         /\ sc \o <<"changed">> = Append(sc, "changed")
         /\ sc \o <<"changed", "sync">> = Append(Append(sc, "changed"), "sync")
         /\ sc \o Append(<<"changed">>, "sync") = Append(Append(sc, "changed"), "sync")
<1>1. sc \o <<>> = sc OBVIOUS
<1>2. sc \o <<"sync">> = Append(sc, "sync") OBVIOUS
<1>3. sc \o <<"changed">> = Append(sc, "changed") OBVIOUS
<1>4. Append(<<>>, "sync") = <<"sync">> OBVIOUS
<1>5. Append(<<"changed">>, "sync") = <<"changed", "sync">>
  <2>. DEFINE s == Append(<<"changed">>, "sync")
              t == <<"changed", "sync">>
  <2>1. s \in Seq(Scripts) /\ Len(s) = 2 /\ s[1] = "changed" /\ s[2] = "sync" BY DEF Scripts
  <2>2. t \in Seq(Scripts) /\ Len(t) = 2 /\ t[1] = "changed" /\ t[2] = "sync" BY DEF Scripts
  <2>. HIDE DEF s, t
  <2>3. \A k \in 1..2 : k = 1 \/ k = 2 OBVIOUS
  <2>4. \A k \in 1..Len(s) : s[k] = t[k] BY <2>1, <2>2, <2>3
  <2>5. s = t BY <2>1, <2>2, <2>4, SeqEqual
  <2>. QED BY <2>5 DEF s, t
<1>6. sc \o <<"changed", "sync">> = Append(Append(sc, "changed"), "sync") OBVIOUS
<1>. QED BY <1>1, <1>2, <1>3, <1>4, <1>5, <1>6

\* What comes of a stretch that makes a call.
LEMMA RanCall ==
  ASSUME NEW u, NEW call, NEW an, NEW sc, call.cmd # "none", Ran(Calling(u, call), an, sc)
  PROVE  /\ ui' = u /\ work' = work
         /\ listed' = Handle(call).listed /\ selected' = Handle(call).selected
         /\ scripts' = sc \o Handle(call).says
         /\ missed' = (missed \/ (call.cmd = "select_server" /\ Handle(call).value = FALSE))
         /\ answers' = Append(Superseded(an, call), [then |-> call.then, value |-> Handle(call).value])
<1>. DEFINE run == Calling(u, call)
<1>1. run.ui = u /\ run.call = call /\ run.spawn = FALSE BY DEF Calling
<1>2. call # NoCall BY DEF NoCall
<1>. HIDE DEF run
<1>. QED BY <1>1, <1>2 DEF Ran, run

\* A stretch that ends, with or without a spawn.
LEMMA RanEnds ==
  ASSUME ShellTypeOK, NEW u \in RailState, NEW wants \in BOOLEAN, NEW an \in Seq(Answer), NEW sc \in Seq(Scripts),
         Ran([ui |-> u, call |-> NoCall, spawn |-> wants], an, sc),
         UnderWay(listed, selected, work, u.servers, an, sc, missed, silent),
         Highlighted(listed, selected, work, u, an, sc, missed),
         tabs' \in SUBSET Ids, silent' = silent
  PROVE  ShellInv'
<1>t. /\ listed \in SUBSET Ids /\ selected \in IdOrNone /\ work \in WorkStates /\ missed \in BOOLEAN
      /\ u.servers \in SUBSET Ids
  BY DEF ShellTypeOK, RailState
<1>. DEFINE run == [ui |-> u, call |-> NoCall, spawn |-> wants]
<1>1. run.ui = u /\ run.call = NoCall /\ run.spawn = wants OBVIOUS
<1>. HIDE DEF run
<1>2. /\ Handle(NoCall).listed = listed /\ Handle(NoCall).selected = selected /\ Handle(NoCall).says = <<>>
      /\ NoCall.cmd = "none"
  BY DEF Handle, NoCall, Nothing, Host
<1>3. ui' = u /\ listed' = listed /\ selected' = selected /\ missed' = missed /\ scripts' = sc
  BY <1>1, <1>2, Saying DEF Ran, run, ShellTypeOK
<1>4. \/ work' = work /\ answers' = an
      \/ work' = work /\ answers' = Append(an, Started(None))
      \/ answers' = an /\ Unused # {} /\ work' = [work EXCEPT ![Least(Unused)] = "start"]
  BY <1>1 DEF Ran, run, Unused
<1>5. CASE work' = work /\ answers' = an
  BY <1>3, <1>5 DEF ShellInv, ShellTypeOK
<1>6. CASE work' = work /\ answers' = Append(an, Started(None))
  <2>1. Started(None) \in Answer /\ Started(None).then.at = "spawned" /\ Started(None).value = None
        /\ ~Refreshing(Started(None))
    BY StartedType
  <2>. DEFINE a == Started(None)
  <2>4. a \in Answer /\ a.then.at = "spawned" /\ a.value = None /\ ~Refreshing(a) BY <2>1
  <2>. HIDE DEF a
  <2>3. Given(listed, selected, work, u.servers, an, sc, missed, silent, a)
    BY <1>t, <2>4, PushAnswer
  <2>5. Append(an, a) \in Seq(Answer) BY <2>4, SeqPush
  <2>2. /\ UnderWay(listed, selected, work, u.servers, Append(an, Started(None)), sc, missed, silent)
        /\ Highlighted(listed, selected, work, u, Append(an, Started(None)), sc, missed)
        /\ Append(an, Started(None)) \in Seq(Answer)
    BY <2>3, <2>5 DEF a, Given
  <2>. QED BY <1>3, <1>6, <2>2 DEF ShellInv, ShellTypeOK
<1>7. CASE answers' = an /\ Unused # {} /\ work' = [work EXCEPT ![Least(Unused)] = "start"]
  <2>1. PICK i \in Spawnable : i = Least(Unused) /\ work[i] = "none"
    BY <1>7, LeastId, NoneIsNoId DEF Unused
  <2>4. /\ work[i] \notin {"selected", "done"} /\ "start" \in {"start", "listed", "found", "selected", "done"}
        /\ selected = IF "start" = "selected" THEN i ELSE selected
    BY <2>1
  <2>5. WentOn(listed, selected, work, u.servers, an, sc, missed, silent, i, "start", selected)
    BY <1>t, <2>4, WorkGoesOn
  <2>3. /\ UnderWay(listed, selected, work', u.servers, an, sc, missed, silent)
        /\ Highlighted(listed, selected, work', u, an, sc, missed)
    BY <1>7, <2>1, <2>5 DEF WentOn
  <2>. QED BY <1>3, <1>7, <2>1, <2>3, <2>5 DEF WentOn, ShellInv, ShellTypeOK
<1>. QED BY <1>4, <1>5, <1>6, <1>7

\* A stretch that selects a server.
LEMMA RanSelects ==
  ASSUME ShellTypeOK, NEW u \in RailState, NEW i \in Ids, NEW t \in Thens,
         NEW an \in Seq(Answer), NEW sc \in Seq(Scripts),
         Ran(selectServer(u, i, t), an, sc),
         i \in listed => UnderWay(listed, selected, work, u.servers, an, sc, missed, silent),
         i \notin listed => UnderWay(listed, selected, work, u.servers, an, sc, TRUE, silent),
         tabs' \in SUBSET Ids, silent' = silent
  PROVE  ShellInv'
<1>t. /\ listed \in SUBSET Ids /\ selected \in IdOrNone /\ work \in WorkStates /\ missed \in BOOLEAN
      /\ u.servers \in SUBSET Ids
  BY DEF ShellTypeOK, RailState
<1>. DEFINE v == [u EXCEPT !.selected = i, !.desired = None]
            t2 == [t EXCEPT !.at = "opened", !.previous = [selected |-> u.selected, desired |-> u.desired]]
            call == [cmd |-> "select_server", id |-> i, then |-> t2]
<1>1. selectServer(u, i, t) = Calling(v, call) BY DEF selectServer
<1>2. /\ v \in RailState /\ v.servers = u.servers /\ v.selected = i /\ v.desired = None
      /\ t2 \in Thens /\ t2.at = "opened"
  BY DEF RailState, Thens, Points, IdOrNone
<1>3. call.cmd = "select_server" /\ call.id = i /\ call.then = t2 OBVIOUS
<1>. HIDE DEF v, t2, call
<1>4. Handle(call) = select(i, listed, surfaces, <<>>) BY <1>3 DEF Handle
<1>5. /\ ui' = v /\ work' = work
      /\ listed' = Handle(call).listed /\ selected' = Handle(call).selected
      /\ scripts' = sc \o Handle(call).says
      /\ missed' = (missed \/ (call.cmd = "select_server" /\ Handle(call).value = FALSE))
      /\ answers' = Append(Superseded(an, call), [then |-> call.then, value |-> Handle(call).value])
  BY <1>1, <1>3, RanCall
<1>6. Superseded(an, call) = an BY <1>3 DEF Superseded
<1>7. None \notin u.servers /\ i # None BY NoneIsNoId DEF RailState
<1>8. CASE i \in listed
  <2>. DEFINE a == [then |-> t2, value |-> TRUE]
  <2>1. /\ listed' = listed /\ selected' = i /\ scripts' = Append(sc, "sync") /\ missed' = missed
        /\ answers' = Append(an, a)
    BY <1>3, <1>4, <1>5, <1>6, <1>8, Saying DEF select, Host, ShellTypeOK
  <2>2. a \in Answer /\ a.then.at = "opened" /\ a.value = TRUE BY <1>2, AnswerType
  <2>. HIDE DEF a
  <2>3. UnderWay(listed, i, work, u.servers, an, Append(sc, "sync"), missed, silent)
    BY <1>t, <1>8, SaySync
  <2>4. Append(sc, "sync") \in Seq(Scripts) /\ i \in IdOrNone BY SeqPush DEF Scripts, IdOrNone
  <2>5. ~Refreshing(a) BY <2>2 DEF Refreshing
  <2>6. UnderWay(listed, i, work, u.servers, Append(an, a), Append(sc, "sync"), missed, silent)
    BY <1>t, <2>2, <2>3, <2>4, <2>5, PushAnswer DEF Given
  <2>7. Has(Append(sc, "sync"), "sync") BY SeqPush DEF Has, Scripts
  <2>8. Highlighted(listed, i, work, v, Append(an, a), Append(sc, "sync"), missed)
    BY <1>2, <1>7, <2>7 DEF Highlighted, SelectionFollows, SyncDue, SomeSelected
  <2>9. Append(an, a) \in Seq(Answer) BY <2>2, SeqPush
  <2>10. ShellTypeOK' BY <1>t, <1>2, <1>5, <2>1, <2>4, <2>9 DEF ShellTypeOK
  <2>11. UnderWay(listed', selected', work', ui'.servers, answers', scripts', missed', silent')
    BY <1>2, <1>5, <2>1, <2>6
  <2>12. Highlighted(listed', selected', work', ui', answers', scripts', missed')
    BY <1>2, <1>5, <2>1, <2>8
  <2>. QED BY <2>10, <2>11, <2>12 DEF ShellInv
<1>9. CASE i \notin listed
  <2>. DEFINE a == [then |-> t2, value |-> FALSE]
  <2>1. /\ listed' = listed /\ selected' = selected /\ scripts' = sc
        /\ answers' = Append(an, a) /\ Handle(call).value = FALSE
    BY <1>3, <1>4, <1>5, <1>6, <1>9, Saying DEF select, Host, ShellTypeOK
  <2>7. missed' = TRUE BY <1>3, <1>5, <2>1
  <2>2. a \in Answer /\ a.then.at = "opened" BY <1>2, AnswerType
  <2>. HIDE DEF a
  <2>3. UnderWay(listed, selected, work, u.servers, an, sc, TRUE, silent) BY <1>9
  <2>4. ~Refreshing(a) BY <2>2 DEF Refreshing
  <2>5. UnderWay(listed, selected, work, u.servers, Append(an, a), sc, TRUE, silent)
    BY <1>t, <2>2, <2>3, <2>4, PushAnswer DEF Given
  <2>6. Highlighted(listed, selected, work, v, Append(an, a), sc, TRUE) BY DEF Highlighted
  <2>9. Append(an, a) \in Seq(Answer) BY <2>2, SeqPush
  <2>10. ShellTypeOK' BY <1>t, <1>2, <1>5, <2>1, <2>7, <2>9 DEF ShellTypeOK
  <2>11. UnderWay(listed', selected', work', ui'.servers, answers', scripts', missed', silent')
    BY <1>2, <1>5, <2>1, <2>5, <2>7
  <2>12. Highlighted(listed', selected', work', ui', answers', scripts', missed')
    BY <1>2, <1>5, <2>1, <2>6, <2>7
  <2>. QED BY <2>10, <2>11, <2>12 DEF ShellInv
<1>. QED BY <1>8, <1>9

\* A stretch that starts a refresh.
LEMMA RanRefreshes ==
  ASSUME ShellTypeOK, NEW u \in RailState, NEW after \in {"nothing", "close", "retry"}, NEW i \in IdOrNone,
         NEW an \in Seq(Answer), NEW sc0 \in Seq(Scripts), NEW sc \in Seq(Scripts),
         Ran(refreshServers(u, after, i), an, sc),
         sc = sc0 \/ (sc0 # <<>> /\ Head(sc0) = "changed" /\ sc = Tail(sc0)),
         UnderWay(listed, selected, work, u.servers, an, sc0, missed, silent),
         NEW u0 \in RailState, Highlighted(listed, selected, work, u0, an, sc0, missed),
         u.servers = u0.servers, u.selected \in {u0.selected, None}, u.desired \in {u0.desired, None},
         tabs' \in SUBSET Ids, silent' = silent
  PROVE  ShellInv'
<1>. DEFINE t == [Then EXCEPT !.at = "servers", !.after = after, !.id = i]
            call == [cmd |-> "get_servers", id |-> None, then |-> t]
            a == [then |-> t, value |-> listed]
<1>1. refreshServers(u, after, i) = Calling(u, call) BY DEF refreshServers
<1>2. t \in Thens /\ t.at = "servers" /\ t.last = TRUE BY DEF Then, Thens, Points, IdOrNone
<1>3. call.cmd = "get_servers" /\ call.then = t OBVIOUS
<1>. HIDE DEF t, call
<1>4. Handle(call) = Nothing(listed) BY <1>3 DEF Handle
<1>5. /\ ui' = u /\ work' = work
      /\ listed' = Handle(call).listed /\ selected' = Handle(call).selected
      /\ scripts' = sc \o Handle(call).says
      /\ missed' = (missed \/ (call.cmd = "select_server" /\ Handle(call).value = FALSE))
      /\ answers' = Append(Superseded(an, call), [then |-> call.then, value |-> Handle(call).value])
  BY <1>1, <1>3, RanCall
<1>6. Superseded(an, call) = Yielded(an) BY <1>3 DEF Superseded, Yielded
<1>7. /\ listed' = listed /\ selected' = selected /\ scripts' = sc /\ missed' = missed
      /\ answers' = Append(Yielded(an), a)
  BY <1>3, <1>4, <1>5, <1>6, Saying DEF Nothing, Host, ShellTypeOK
<1>8. a \in Answer /\ a.then = t /\ a.value = listed BY <1>2, AnswerType DEF ShellTypeOK
<1>. HIDE DEF a
<1>9. a.then.at = "servers" /\ a.then.last BY <1>2, <1>8
<1>10. Append(Yielded(an), a) \in Seq(Answer) BY <1>8, SeqYield, SeqPush
<1>12. AskedServers(listed, selected, work, u.servers, an, sc0, missed, silent, a, sc)
  <2>1. /\ listed \in SUBSET Ids /\ selected \in IdOrNone /\ work \in WorkStates /\ missed \in BOOLEAN
        /\ u.servers \in SUBSET Ids
    BY DEF ShellTypeOK, RailState
  <2>. QED BY <1>8, <1>9, <2>1, AskServers
<1>11. Highlighted(listed, selected, work, u, Append(Yielded(an), a), sc, missed) BY <1>12 DEF AskedServers
<1>. QED BY <1>5, <1>7, <1>10, <1>11, <1>12 DEF AskedServers, ShellInv, ShellTypeOK

\* A stretch that closes a server, whose row may go before.
LEMMA RanCloses ==
  ASSUME ShellInv, NEW u \in RailState, NEW i \in Ids, NEW after \in {"close", "retry"},
         Ran(Closing(u, i, after), answers, scripts),
         u.servers \subseteq ui.servers,
         u.selected \in {ui.selected, None}, u.desired \in {ui.desired, None},
         tabs' \in SUBSET Ids, silent' = silent
  PROVE  ShellInv'
<1>t. /\ listed \in SUBSET Ids /\ selected \in IdOrNone /\ work \in WorkStates /\ missed \in BOOLEAN
      /\ ui \in RailState /\ ui.servers \in SUBSET Ids /\ u.servers \in SUBSET Ids
      /\ answers \in Seq(Answer) /\ scripts \in Seq(Scripts)
  BY DEF ShellInv, ShellTypeOK, RailState
<1>. DEFINE t == [Then EXCEPT !.at = "closed", !.id = i, !.after = after]
            call == [cmd |-> "close_server", id |-> i, then |-> t]
            a == [then |-> t, value |-> TRUE]
            rest == listed \ {i}
            sc == Append(scripts, "changed")
<1>1. Closing(u, i, after) = Calling(u, call) BY DEF Closing
<1>2. t \in Thens /\ t.at = "closed" BY DEF Then, Thens, Points, IdOrNone
<1>3. call.cmd = "close_server" /\ call.id = i /\ call.then = t OBVIOUS
<1>. HIDE DEF t, call
<1>4. Handle(call) = close_server_by_id(i) BY <1>3 DEF Handle
<1>5. /\ ui' = u /\ work' = work
      /\ listed' = Handle(call).listed /\ selected' = Handle(call).selected
      /\ scripts' = scripts \o Handle(call).says
      /\ missed' = (missed \/ (call.cmd = "select_server" /\ Handle(call).value = FALSE))
      /\ answers' = Append(Superseded(answers, call), [then |-> call.then, value |-> Handle(call).value])
  BY <1>1, <1>3, RanCall
<1>6. Superseded(answers, call) = answers BY <1>3 DEF Superseded
<1>7. rest # {} => Least(rest) \in rest BY <1>t, LeastId
<1>8. Handle(call).listed = rest /\ Handle(call).value = TRUE
  BY <1>4, <1>7 DEF close_server_by_id, select, Host
<1>9. /\ listed' = rest /\ missed' = missed /\ answers' = Append(answers, a)
  BY <1>t, <1>3, <1>5, <1>6, <1>8
<1>10. \/ selected' = selected /\ Handle(call).says = <<"changed">>
       \/ rest = {} /\ selected' = None /\ Handle(call).says = <<"changed", "sync">>
       \/ selected' \in rest /\ Handle(call).says = Append(<<"changed">>, "sync")
  <2>1. CASE selected # i BY <1>4, <1>5, <2>1 DEF close_server_by_id, Host
  <2>2. CASE selected = i /\ rest = {} BY <1>4, <1>5, <2>2 DEF close_server_by_id, Host
  <2>3. CASE selected = i /\ rest # {}
    <3>1. Handle(call) = select(Least(rest), rest, surfaces \ {i}, <<"changed">>)
      BY <1>4, <2>3 DEF close_server_by_id
    <3>2. Handle(call).selected = Least(rest) /\ Handle(call).says = Append(<<"changed">>, "sync")
      BY <1>7, <2>3, <3>1 DEF select, Host
    <3>. QED BY <1>5, <1>7, <2>3, <3>2
  <2>. QED BY <2>1, <2>2, <2>3
<1>11. /\ sc \in Seq(Scripts) /\ Append(sc, "sync") \in Seq(Scripts) /\ rest \in SUBSET Ids
  BY <1>t, SeqPush DEF Scripts
<1>12. a \in Answer /\ a.then.at = "closed" BY <1>2, AnswerType
<1>. HIDE DEF a, sc, rest
<1>13. ~Refreshing(a) /\ Append(answers, a) \in Seq(Answer) BY <1>t, <1>12, SeqPush DEF Refreshing
<1>14. StillSelected(rest, selected, work) BY DEF rest, StillSelected, ShellInv, UnderWay
<1>15. /\ UnderWay(rest, selected, work, u.servers, answers, sc, missed, silent)
       /\ Highlighted(rest, selected, work, u, answers, sc, missed)
  <2>1. SpawnedDone(work, answers) BY DEF ShellInv, UnderWay
  <2>2. /\ UnderWay(listed, selected, work, ui.servers, answers, scripts, missed, silent)
        /\ Highlighted(listed, selected, work, ui, answers, scripts, missed)
    BY DEF ShellInv
  <2>3. ToldOf(listed, selected, work, answers, scripts, missed, rest, work, u.servers, silent)
    BY <1>t, <1>11, <1>14, <2>1, <2>2, SayChanged
  <2>. QED BY <1>t, <2>2, <2>3 DEF ToldOf, sc
<1>16. ASSUME NEW sel \in IdOrNone, NEW says \in Seq(Scripts), selected' = sel, scripts' = says,
              UnderWay(rest, sel, work, u.servers, answers, says, missed, silent),
              Highlighted(rest, sel, work, u, answers, says, missed)
       PROVE  ShellInv'
  <2>1. Given(rest, sel, work, u.servers, answers, says, missed, silent, a)
    BY <1>t, <1>11, <1>12, <1>13, <1>16, PushAnswer
  <2>2. Highlighted(rest, sel, work, u, Append(answers, a), says, missed) BY <1>16, <2>1 DEF Given
  <2>3. ShellTypeOK' BY <1>t, <1>5, <1>9, <1>11, <1>13, <1>16 DEF ShellTypeOK
  <2>4. UnderWay(listed', selected', work', ui'.servers, answers', scripts', missed', silent')
    BY <1>5, <1>9, <1>16, <2>1 DEF Given
  <2>5. Highlighted(listed', selected', work', ui', answers', scripts', missed')
    BY <1>5, <1>9, <1>16, <2>2
  <2>. QED BY <2>3, <2>4, <2>5 DEF ShellInv
<1>17. CASE selected' = selected /\ Handle(call).says = <<"changed">>
  <2>1. scripts' = sc BY <1>t, <1>5, <1>17, Saying DEF sc
  <2>. QED BY <1>t, <1>11, <1>15, <1>16, <1>17, <2>1
<1>18. CASE rest = {} /\ selected' = None /\ Handle(call).says = <<"changed", "sync">>
  <2>1. scripts' = Append(sc, "sync") BY <1>t, <1>5, <1>18, Saying DEF sc
  <2>2. /\ UnderWay({}, selected, work, u.servers, answers, sc, missed, silent)
        /\ Highlighted({}, selected, work, u, answers, sc, missed)
    BY <1>15, <1>18
  <2>3. /\ UnderWay({}, None, work, u.servers, answers, Append(sc, "sync"), missed, silent)
        /\ Highlighted({}, None, work, u, answers, Append(sc, "sync"), missed)
    BY <1>t, <2>2, SayNone DEF sc
  <2>4. None \in IdOrNone BY DEF IdOrNone
  <2>. QED BY <1>11, <1>16, <1>18, <2>1, <2>3, <2>4
<1>19. CASE selected' \in rest /\ Handle(call).says = Append(<<"changed">>, "sync")
  <2>1. scripts' = Append(sc, "sync") BY <1>t, <1>5, <1>19, Saying DEF sc
  <2>2. PICK sel2 \in rest : selected' = sel2 BY <1>19
  <2>3. sel2 \in Ids /\ sel2 \in IdOrNone BY <1>11, <2>2 DEF IdOrNone
  <2>4. /\ UnderWay(rest, sel2, work, u.servers, answers, Append(sc, "sync"), missed, silent)
        /\ Highlighted(rest, sel2, work, u, answers, Append(sc, "sync"), missed)
    BY <1>t, <1>11, <1>15, <2>3, SaySync
  <2>. QED BY <1>11, <1>16, <2>1, <2>2, <2>3, <2>4
<1>. QED BY <1>10, <1>17, <1>18, <1>19
-----------------------------------------------------------------------------
\* What is highlighted depends on the rows and the rail's own selection only.
LEMMA SameRow ==
  ASSUME NEW l, NEW sel, NEW wrk, NEW an, NEW sc, NEW mis, NEW u, NEW v, Highlighted(l, sel, wrk, u, an, sc, mis),
         v.servers = u.servers, v.selected = u.selected, v.desired = u.desired
  PROVE  Highlighted(l, sel, wrk, v, an, sc, mis)
BY DEF Highlighted, SelectionFollows, SomeSelected

\* Of a server that the rail wants to open and that is gone nothing is promised.
LEMMA MissedSound ==
  ASSUME NEW l, NEW sel, NEW wrk, NEW shown, NEW an, NEW sc, NEW mis, NEW sil,
         UnderWay(l, sel, wrk, shown, an, sc, mis, sil)
  PROVE  UnderWay(l, sel, wrk, shown, an, sc, TRUE, sil)
BY DEF UnderWay

\* A stretch that ends as its click asked.
LEMMA RanDone ==
  ASSUME ShellTypeOK, NEW u \in RailState, NEW t \in Thens, NEW an \in Seq(Answer), NEW sc \in Seq(Scripts),
         Ran(Done(u, t), an, sc),
         UnderWay(listed, selected, work, u.servers, an, sc, missed, silent),
         Highlighted(listed, selected, work, u, an, sc, missed),
         tabs' \in SUBSET Ids, silent' = silent
  PROVE  ShellInv'
<1>1. PICK v \in RailState, wants \in BOOLEAN :
         /\ Done(u, t) = [ui |-> v, call |-> NoCall, spawn |-> wants]
         /\ v.servers = u.servers /\ v.selected = u.selected /\ v.desired = u.desired
  <2>1. t.after \in {"nothing", "spawn", "close", "retry"} BY DEF Thens
  <2>2. CASE t.after = "nothing"
    <3>1. Done(u, t) = [ui |-> u, call |-> NoCall, spawn |-> FALSE] BY <2>2 DEF Done, Ends, Calling
    <3>. QED BY <3>1
  <2>3. CASE t.after = "spawn"
    <3>. DEFINE v == [u EXCEPT !.spawning = FALSE]
    <3>1. Done(u, t) = [ui |-> v, call |-> NoCall, spawn |-> FALSE] BY <2>3 DEF Done, Ends, Calling
    <3>2. v \in RailState /\ v.servers = u.servers /\ v.selected = u.selected /\ v.desired = u.desired
      BY DEF RailState
    <3>. QED BY <3>1, <3>2
  <2>4. CASE t.after = "close"
    <3>. DEFINE v == [u EXCEPT !.closing = @ \ {t.id}]
    <3>1. Done(u, t) = [ui |-> v, call |-> NoCall, spawn |-> FALSE] BY <2>4 DEF Done, Ends, Calling
    <3>2. v \in RailState /\ v.servers = u.servers /\ v.selected = u.selected /\ v.desired = u.desired
      BY DEF RailState
    <3>. QED BY <3>1, <3>2
  <2>5. CASE t.after = "retry"
    <3>. DEFINE v == [u EXCEPT !.spawning = TRUE]
    <3>1. Done(u, t) = [ui |-> v, call |-> NoCall, spawn |-> ~u.spawning] BY <2>5 DEF Done, spawnServer
    <3>2. v \in RailState /\ v.servers = u.servers /\ v.selected = u.selected /\ v.desired = u.desired
          /\ (~u.spawning) \in BOOLEAN
      BY DEF RailState
    <3>. QED BY <3>1, <3>2
  <2>. QED BY <2>1, <2>2, <2>3, <2>4, <2>5
<1>2. Ran([ui |-> v, call |-> NoCall, spawn |-> wants], an, sc) BY <1>1
<1>3. UnderWay(listed, selected, work, v.servers, an, sc, missed, silent) BY <1>1
<1>4. Highlighted(listed, selected, work, v, an, sc, missed) BY <1>1, SameRow
<1>. QED BY <1>2, <1>3, <1>4, RanEnds

\* The latest refresh selects a server, or leaves the rail as it is to be.
LEMMA RefreshedShape ==
  ASSUME NEW u \in RailState, NEW t \in Thens, t.last, NEW val \in IdOrNone
  PROVE  \E w \in RailState :
           /\ w.servers = t.list
           /\ \/ \E i \in Ids : Refreshed(u, t, val) = selectServer(w, i, t)
              \/ /\ Refreshed(u, t, val) = Done(w, t)
                 /\ w.desired \notin w.servers /\ (w.selected \in w.servers => w.selected = val)
                 /\ w.servers = {} \/ w.selected # None
<1>. DEFINE v == [u EXCEPT !.servers = t.list, !.pending = @ \ t.list]
            ids == displayed(v, tabs)
            preferred == IF v.desired # None THEN v.desired ELSE v.selected
            next == IF preferred \in ids THEN preferred
                    ELSE IF val \in ids THEN val ELSE None
            w == [v EXCEPT !.selected = next]
            w0 == [w EXCEPT !.desired = None]
<1>1. t.list \in SUBSET Ids BY DEF Thens
<1>2. v \in RailState /\ v.servers = t.list /\ v.desired = u.desired BY <1>1 DEF RailState
<1>3. v.servers \subseteq ids BY DEF displayed
<1>4. Refreshed(u, t, val) =
        CASE ~t.last -> Done(u, t)
          [] t.last /\ next = None /\ w.servers # {} -> selectServer(w0, Least(w.servers), t)
          [] t.last /\ NeedsOpen(w, next, val) -> selectServer(w, next, t)
          [] OTHER -> Done(w, t)
  BY DEF Refreshed
<1>5. preferred \in IdOrNone /\ next \in IdOrNone BY <1>2 DEF RailState, IdOrNone
<1>6. preferred = (IF v.desired # None THEN v.desired ELSE v.selected)
      /\ next = (IF preferred \in ids THEN preferred ELSE IF val \in ids THEN val ELSE None)
  OBVIOUS
<1>. HIDE DEF v, ids, preferred, next
<1>7. w \in RailState /\ w.servers = t.list /\ w.selected = next /\ w.desired = v.desired
  BY <1>2, <1>5 DEF RailState
<1>. HIDE DEF w
<1>8. w0 \in RailState /\ w0.servers = t.list BY <1>7 DEF RailState, IdOrNone
<1>. HIDE DEF w0
<1>9. CASE next = None /\ w.servers # {}
  <2>1. Refreshed(u, t, val) = selectServer(w0, Least(w.servers), t)
    <3>1. ~NeedsOpen(w, next, val) BY <1>1, <1>7, <1>9, NoneIsNoId DEF NeedsOpen
    <3>. QED BY <1>4, <1>9, <3>1
  <2>2. Least(w.servers) \in Ids BY <1>1, <1>7, <1>9, LeastId
  <2>. QED BY <1>8, <2>1, <2>2
<1>10. CASE ~(next = None /\ w.servers # {}) /\ NeedsOpen(w, next, val)
  <2>1. Refreshed(u, t, val) = selectServer(w, next, t) BY <1>4, <1>10
  <2>2. next \in Ids BY <1>1, <1>7, <1>10 DEF NeedsOpen
  <2>. QED BY <1>7, <2>1, <2>2
<1>11. CASE ~(next = None /\ w.servers # {}) /\ ~NeedsOpen(w, next, val)
  <2>1. Refreshed(u, t, val) = Done(w, t) BY <1>4, <1>11
  <2>2. w.desired \notin w.servers
    <3>. SUFFICES ASSUME w.desired \in w.servers PROVE FALSE OBVIOUS
    <3>1. w.desired # None BY <1>1, <1>7, NoneIsNoId
    <3>2. next = w.desired BY <1>2, <1>3, <1>6, <1>7, <3>1
    <3>. QED BY <1>11, <3>2 DEF NeedsOpen
  <2>3. w.selected \in w.servers => w.selected = val BY <1>7, <1>11 DEF NeedsOpen
  <2>4. w.servers = {} \/ w.selected # None BY <1>7, <1>11
  <2>. QED BY <1>7, <2>1, <2>2, <2>3, <2>4
<1>. QED BY <1>9, <1>10, <1>11

\* The rail goes on with an answer.
LEMMA TakeAnswerSound ==
  ASSUME ShellInv, TakeAnswer
  PROVE  ShellInv'
<1>t. /\ listed \in SUBSET Ids /\ selected \in IdOrNone /\ work \in WorkStates /\ missed \in BOOLEAN
      /\ ui \in RailState /\ ui.servers \in SUBSET Ids /\ TRUE \in BOOLEAN
      /\ answers \in Seq(Answer) /\ scripts \in Seq(Scripts) /\ tabs \in SUBSET Ids /\ ShellTypeOK
  BY DEF ShellInv, ShellTypeOK, RailState
<1>u. /\ UnderWay(listed, selected, work, ui.servers, answers, scripts, missed, silent)
      /\ Highlighted(listed, selected, work, ui, answers, scripts, missed)
  BY DEF ShellInv
<1>. DEFINE h == Head(answers)
            rest == Tail(answers)
            t == h.then
            val == h.value
<1>1. answers # <<>> BY DEF TakeAnswer
<1>2. Ran(Resume(ui, t, val), rest, scripts) /\ tabs' \in SUBSET Ids /\ silent' = silent
  BY <1>t DEF TakeAnswer, bounds
<1>3. rest \in Seq(Answer) /\ h \in Answer BY <1>t, <1>1, SeqPop
<1>4. h.then = t /\ h.value = val /\ h = Head(answers) /\ rest = Tail(answers) OBVIOUS
<1>. HIDE DEF h, rest
<1>5. t \in Thens /\ Fits(h) BY <1>3 DEF Answer
<1>6. t.at \in Points BY <1>5 DEF Thens
<1>. HIDE DEF t, val
<1>7. CASE t.at = "servers"
  <2>. DEFINE t2 == [t EXCEPT !.at = "which", !.list = val]
              call == [cmd |-> "selected_server", id |-> None, then |-> t2]
              a == [then |-> t2, value |-> selected]
  <2>1. Resume(ui, t, val) = Calling(ui, call) BY <1>7 DEF Resume
  <2>2. val \in SUBSET Ids BY <1>4, <1>5, <1>7 DEF Fits
  <2>3. t2 \in Thens /\ t2.at = "which" /\ t2.last = t.last /\ t2.list = val
    BY <1>5, <2>2 DEF Thens, Points
  <2>4. call.cmd = "selected_server" /\ call.then = t2 OBVIOUS
  <2>. HIDE DEF t2, call
  <2>5. Handle(call) = Nothing(selected) BY <2>4 DEF Handle
  <2>6. Superseded(rest, call) = rest BY <2>4 DEF Superseded
  <2>7. /\ ui' = ui /\ work' = work
        /\ listed' = Handle(call).listed /\ selected' = Handle(call).selected
        /\ scripts' = scripts \o Handle(call).says
        /\ missed' = (missed \/ (call.cmd = "select_server" /\ Handle(call).value = FALSE))
        /\ answers' = Append(Superseded(rest, call), [then |-> call.then, value |-> Handle(call).value])
    BY <1>2, <2>1, <2>4, RanCall
  <2>8. /\ listed' = listed /\ selected' = selected /\ scripts' = scripts /\ missed' = missed
        /\ answers' = Append(rest, a)
    BY <1>t, <2>4, <2>5, <2>6, <2>7, Saying DEF Nothing, Host
  <2>9. a \in Answer /\ a.then = t2 /\ a.value = selected BY <1>t, <2>3, AnswerType
  <2>. HIDE DEF a
  <2>10. a.then.at = "which" /\ a.then.last = t.last /\ a.then.list = val BY <2>3, <2>9
  <2>11. /\ UnderWay(listed, selected, work, ui.servers, Append(rest, a), scripts, missed, silent)
         /\ Highlighted(listed, selected, work, ui, Append(rest, a), scripts, missed)
    <3>1. CASE t.last
      <4>1. AskedWhich(listed, selected, work, ui.servers, answers, scripts, missed, silent, a)
        BY <1>t, <1>u, <1>1, <1>4, <1>7, <2>9, <2>10, <3>1, AskWhich
      <4>. QED BY <1>t, <1>u, <1>4, <4>1 DEF AskedWhich
    <3>2. CASE ~t.last
      <4>1. Popped(listed, selected, work, ui.servers, answers, scripts, missed, silent, missed)
        BY <1>t, <1>u, <1>1, <1>4, <1>7, <3>2, PopAnswer
      <4>2. ~Refreshing(h) BY <1>4, <3>2 DEF Refreshing
      <4>3. /\ UnderWay(listed, selected, work, ui.servers, rest, scripts, missed, silent)
            /\ Highlighted(listed, selected, work, ui, rest, scripts, missed)
        BY <1>t, <1>u, <1>4, <1>7, <4>1, <4>2 DEF Popped
      <4>4. ~Refreshing(a) BY <2>10, <3>2 DEF Refreshing
      <4>5. Given(listed, selected, work, ui.servers, rest, scripts, missed, silent, a)
        BY <1>t, <1>3, <2>9, <2>10, <4>3, <4>4, PushAnswer
      <4>. QED BY <1>t, <4>3, <4>5 DEF Given
    <3>. QED BY <3>1, <3>2
  <2>12. Append(rest, a) \in Seq(Answer) BY <1>3, <2>9, SeqPush
  <2>. QED BY <1>t, <1>2, <2>7, <2>8, <2>11, <2>12 DEF ShellInv, ShellTypeOK
<1>8. CASE t.at = "which"
  <2>1. val \in IdOrNone BY <1>4, <1>5, <1>8 DEF Fits
  <2>2. Resume(ui, t, val) = Refreshed(ui, t, val) BY <1>8 DEF Resume
  <2>3. Popped(listed, selected, work, ui.servers, answers, scripts, missed, silent, missed)
    BY <1>t, <1>u, <1>1, <1>4, <1>8, PopAnswer
  <2>4. CASE ~t.last
    <3>1. Refreshed(ui, t, val) = Done(ui, t) BY <2>4 DEF Refreshed
    <3>2. ~Refreshing(h) BY <1>4, <2>4 DEF Refreshing
    <3>3. /\ UnderWay(listed, selected, work, ui.servers, rest, scripts, missed, silent)
          /\ Highlighted(listed, selected, work, ui, rest, scripts, missed)
      BY <1>t, <1>u, <1>4, <1>8, <2>3, <3>2 DEF Popped
    <3>. QED BY <1>t, <1>2, <1>3, <1>5, <2>2, <3>1, <3>3, RanDone
  <2>5. CASE t.last
    <3>1. Refreshing(h) BY <1>4, <1>8, <2>5 DEF Refreshing
    <3>2. UnderWay(listed, selected, work, t.list, rest, scripts, missed, silent)
      BY <1>4, <2>3, <3>1 DEF Popped
    <3>3. ~missed => val = selected \/ SyncDue(scripts, work) \/ \E k \in DOMAIN rest : Agrees(rest[k], selected)
      BY <1>4, <1>8, <2>3 DEF Popped
    <3>4. PICK w \in RailState :
            /\ w.servers = t.list
            /\ \/ \E i \in Ids : Refreshed(ui, t, val) = selectServer(w, i, t)
               \/ /\ Refreshed(ui, t, val) = Done(w, t)
                  /\ w.desired \notin w.servers /\ (w.selected \in w.servers => w.selected = val)
                  /\ w.servers = {} \/ w.selected # None
      BY <1>t, <1>5, <2>1, <2>5, RefreshedShape
    <3>5. UnderWay(listed, selected, work, w.servers, rest, scripts, missed, silent) BY <3>2, <3>4
    <3>6. ASSUME NEW i \in Ids, Refreshed(ui, t, val) = selectServer(w, i, t) PROVE ShellInv'
      <4>1. UnderWay(listed, selected, work, w.servers, rest, scripts, TRUE, silent) BY <3>5, MissedSound
      <4>2. Ran(selectServer(w, i, t), rest, scripts) BY <1>2, <2>2, <3>6
      <4>. QED BY <1>t, <1>2, <1>3, <1>5, <3>5, <4>1, <4>2, RanSelects
    <3>7. ASSUME Refreshed(ui, t, val) = Done(w, t), w.desired \notin w.servers,
                 w.selected \in w.servers => w.selected = val, w.servers = {} \/ w.selected # None
          PROVE  ShellInv'
      <4>1. Ran(Done(w, t), rest, scripts) BY <1>2, <2>2, <3>7
      <4>2. Highlighted(listed, selected, work, w, rest, scripts, missed)
        BY <3>3, <3>7 DEF Highlighted, SelectionFollows, SomeSelected
      <4>. QED BY <1>t, <1>2, <1>3, <1>5, <3>5, <4>1, <4>2, RanDone
    <3>. QED BY <3>4, <3>6, <3>7
  <2>. QED BY <2>4, <2>5
<1>9. CASE t.at = "opened"
  <2>1. val \in BOOLEAN BY <1>4, <1>5, <1>9 DEF Fits
  <2>2. ~Refreshing(h) BY <1>4, <1>9 DEF Refreshing
  <2>3. Popped(listed, selected, work, ui.servers, answers, scripts, missed, silent, missed)
    BY <1>t, <1>u, <1>1, <1>4, <1>9, PopAnswer
  <2>4. /\ UnderWay(listed, selected, work, ui.servers, rest, scripts, missed, silent)
        /\ Highlighted(listed, selected, work, ui, rest, scripts, missed)
    BY <1>t, <1>u, <1>4, <1>9, <2>2, <2>3 DEF Popped
  <2>5. CASE val = TRUE
    <3>1. Resume(ui, t, val) = Done(ui, t) BY <1>9, <2>5 DEF Resume
    <3>. QED BY <1>t, <1>2, <1>3, <1>5, <2>4, <3>1, RanDone
  <2>6. CASE val = FALSE
    <3>. DEFINE v == [ui EXCEPT !.selected = t.previous.selected, !.desired = t.previous.desired]
    <3>1. Resume(ui, t, val) = Done(v, t) BY <1>9, <2>6 DEF Resume
    <3>2. v \in RailState /\ v.servers = ui.servers BY <1>t, <1>5 DEF RailState, Thens
    <3>. HIDE DEF v
    <3>3. missed
      <4>1. 1 \in DOMAIN answers /\ answers[1] = h BY <1>t, <1>1, <1>4, SeqPop
      <4>. QED BY <1>t, <1>u, <1>4, <1>9, <2>6, <4>1 DEF UnderWay, OpenedWell
    <3>4. Highlighted(listed, selected, work, v, rest, scripts, missed) BY <3>3 DEF Highlighted
    <3>5. UnderWay(listed, selected, work, v.servers, rest, scripts, missed, silent) BY <2>4, <3>2
    <3>. QED BY <1>t, <1>2, <1>3, <1>5, <3>1, <3>2, <3>4, <3>5, RanDone
  <2>. QED BY <2>1, <2>5, <2>6
<1>10. CASE t.at = "spawned"
  <2>1. val \in Spawnable \cup {None} BY <1>4, <1>5, <1>10 DEF Fits
  <2>2. ~Refreshing(h) BY <1>4, <1>10 DEF Refreshing
  <2>3. CASE val = None
    <3>. DEFINE v == [ui EXCEPT !.spawning = FALSE]
    <3>1. Resume(ui, t, val) = [ui |-> v, call |-> NoCall, spawn |-> FALSE]
      BY <1>10, <2>3 DEF Resume, Ends, Calling
    <3>2. v \in RailState /\ v.servers = ui.servers /\ v.selected = ui.selected /\ v.desired = ui.desired
      BY <1>t DEF RailState
    <3>. HIDE DEF v
    <3>3. Popped(listed, selected, work, ui.servers, answers, scripts, missed, silent, missed)
      BY <1>t, <1>u, <1>1, <1>4, <1>10, <2>3, PopAnswer
    <3>4. /\ UnderWay(listed, selected, work, ui.servers, rest, scripts, missed, silent)
          /\ Highlighted(listed, selected, work, ui, rest, scripts, missed)
      BY <1>t, <1>u, <1>4, <1>10, <2>2, <3>3 DEF Popped
    <3>5. Highlighted(listed, selected, work, v, rest, scripts, missed) BY <3>2, <3>4, SameRow
    <3>6. UnderWay(listed, selected, work, v.servers, rest, scripts, missed, silent) BY <3>2, <3>4
    <3>7. Ran([ui |-> v, call |-> NoCall, spawn |-> FALSE], rest, scripts) BY <1>2, <3>1
    <3>. QED BY <1>t, <1>2, <1>3, <3>2, <3>5, <3>6, <3>7, RanEnds
  <2>4. CASE val # None
    <3>. DEFINE v == [ui EXCEPT !.pending = @ \cup {val}]
                t2 == [Then EXCEPT !.after = "spawn"]
    <3>1. Resume(ui, t, val) = selectServer(v, val, t2) BY <1>10, <2>4 DEF Resume
    <3>2. val \in Ids BY <2>1, <2>4, NoneIsNoId
    <3>3. v \in RailState /\ v.servers = ui.servers BY <1>t, <3>2 DEF RailState
    <3>4. selectServer(v, val, t2) = selectServer(v, val, [t2 EXCEPT !.at = "spawned"])
      BY DEF selectServer, Then
    <3>5. [t2 EXCEPT !.at = "spawned"] \in Thens BY DEF Then, Thens, Points, IdOrNone
    <3>. DEFINE t3 == [t2 EXCEPT !.at = "spawned"]
    <3>6. Ran(selectServer(v, val, t3), rest, scripts) /\ t3 \in Thens BY <1>2, <3>1, <3>4, <3>5
    <3>. HIDE DEF v, t2, t3
    <3>7. Popped(listed, selected, work, ui.servers, answers, scripts, missed, silent, TRUE)
      BY <1>t, <1>u, <1>1, <1>4, <1>10, PopAnswer
    <3>8. UnderWay(listed, selected, work, v.servers, rest, scripts, TRUE, silent)
      BY <1>4, <2>2, <3>3, <3>7 DEF Popped
    <3>9. ASSUME val \in listed PROVE UnderWay(listed, selected, work, v.servers, rest, scripts, missed, silent)
      <4>1. Popped(listed, selected, work, ui.servers, answers, scripts, missed, silent, missed)
        BY <1>t, <1>u, <1>1, <1>4, <1>10, <3>9, PopAnswer
      <4>. QED BY <1>4, <2>2, <3>3, <4>1 DEF Popped
    <3>. QED BY <1>t, <1>2, <1>3, <3>2, <3>3, <3>6, <3>8, <3>9, RanSelects
  <2>. QED BY <2>3, <2>4
<1>11. CASE t.at = "closed"
  <2>1. ~Refreshing(h) BY <1>4, <1>11 DEF Refreshing
  <2>2. Popped(listed, selected, work, ui.servers, answers, scripts, missed, silent, missed)
    BY <1>t, <1>u, <1>1, <1>4, <1>11, PopAnswer
  <2>3. /\ UnderWay(listed, selected, work, ui.servers, rest, scripts, missed, silent)
        /\ Highlighted(listed, selected, work, ui, rest, scripts, missed)
    BY <1>t, <1>u, <1>4, <1>11, <2>1, <2>2 DEF Popped
  <2>4. t.id \in IdOrNone BY <1>5 DEF Thens
  <2>5. CASE t.after = "retry"
    <3>. DEFINE v == [clearLocalSelection(ui, t.id) EXCEPT !.closing = @ \ {t.id}]
    <3>1. Resume(ui, t, val) = refreshServers(v, "retry", t.id) BY <1>11, <2>5 DEF Resume
    <3>2. /\ v \in RailState /\ v.servers = ui.servers
          /\ v.selected \in {ui.selected, None} /\ v.desired \in {ui.desired, None}
      BY <1>t DEF RailState, clearLocalSelection, IdOrNone
    <3>. HIDE DEF v
    <3>3. Ran(refreshServers(v, "retry", t.id), rest, scripts) BY <1>2, <3>1
    <3>4. UnderWay(listed, selected, work, v.servers, rest, scripts, missed, silent) BY <2>3, <3>2
    <3>. QED BY <1>t, <1>2, <1>3, <2>3, <2>4, <3>2, <3>3, <3>4, RanRefreshes
  <2>6. CASE t.after # "retry"
    <3>1. Resume(ui, t, val) = refreshServers(ui, "close", t.id) BY <1>11, <2>6 DEF Resume
    <3>2. Ran(refreshServers(ui, "close", t.id), rest, scripts) BY <1>2, <3>1
    <3>. QED BY <1>t, <1>2, <1>3, <2>3, <2>4, <3>2, RanRefreshes
  <2>. QED BY <2>5, <2>6
<1>12. CASE t.at = "synced"
  <2>1. val \in IdOrNone BY <1>4, <1>5, <1>12 DEF Fits
  <2>2. ~Refreshing(h) BY <1>4, <1>12 DEF Refreshing
  <2>. DEFINE v == [ui EXCEPT !.selected = val, !.desired = None]
  <2>3. Resume(ui, t, val) = [ui |-> v, call |-> NoCall, spawn |-> FALSE]
    BY <1>12 DEF Resume, Ends, Calling
  <2>4. v \in RailState /\ v.servers = ui.servers /\ v.selected = val /\ v.desired = None
    BY <1>t, <2>1 DEF RailState, IdOrNone
  <2>. HIDE DEF v
  <2>5. Popped(listed, selected, work, ui.servers, answers, scripts, missed, silent, missed)
    BY <1>t, <1>u, <1>1, <1>4, <1>12, PopAnswer
  <2>6. UnderWay(listed, selected, work, v.servers, rest, scripts, missed, silent)
    BY <1>4, <2>2, <2>4, <2>5 DEF Popped
  <2>7. ~missed => val = selected \/ SyncDue(scripts, work) \/ \E k \in DOMAIN rest : Agrees(rest[k], selected)
    BY <1>4, <1>12, <2>5 DEF Popped
  <2>8. ~missed /\ ~Lost(listed, rest) /\ val = None => Has(scripts, "changed") \/ Refreshes(rest) \/ ui.servers = {}
    BY <1>4, <1>12, <2>5 DEF Popped
  <2>9. Highlighted(listed, selected, work, v, rest, scripts, missed)
    <3>1. v.desired \notin v.servers BY <1>t, <2>4, NoneIsNoId
    <3>2. ~missed => SelectionFollows(selected, work, v, rest, scripts) BY <2>4, <2>7 DEF SelectionFollows
    <3>3. ~missed /\ ~Lost(listed, rest) => SomeSelected(v, rest, scripts) BY <2>4, <2>8 DEF SomeSelected
    <3>. QED BY <3>1, <3>2, <3>3 DEF Highlighted
  <2>10. Ran([ui |-> v, call |-> NoCall, spawn |-> FALSE], rest, scripts) BY <1>2, <2>3
  <2>. QED BY <1>t, <1>2, <1>3, <2>4, <2>6, <2>9, <2>10, RanEnds
<1>. QED BY <1>6, <1>7, <1>8, <1>9, <1>10, <1>11, <1>12 DEF Points

\* The page does as it is told.
LEMMA RunScriptSound ==
  ASSUME ShellInv, RunScript
  PROVE  ShellInv'
<1>t. /\ listed \in SUBSET Ids /\ selected \in IdOrNone /\ work \in WorkStates /\ missed \in BOOLEAN
      /\ ui \in RailState /\ ui.servers \in SUBSET Ids
      /\ answers \in Seq(Answer) /\ scripts \in Seq(Scripts) /\ tabs \in SUBSET Ids /\ ShellTypeOK
  BY DEF ShellInv, ShellTypeOK, RailState
<1>u. /\ UnderWay(listed, selected, work, ui.servers, answers, scripts, missed, silent)
      /\ Highlighted(listed, selected, work, ui, answers, scripts, missed)
  BY DEF ShellInv
<1>1. scripts # <<>> /\ tabs' \in SUBSET Ids /\ silent' = silent BY <1>t DEF RunScript, bounds
<1>2. Head(scripts) \in Scripts /\ Tail(scripts) \in Seq(Scripts) BY <1>t, <1>1, SeqPop
<1>3. CASE Head(scripts) = "changed"
  <2>1. Ran(refreshServers(ui, "nothing", None), answers, Tail(scripts)) BY <1>3 DEF RunScript
  <2>2. None \in IdOrNone BY DEF IdOrNone
  <2>. QED BY <1>t, <1>u, <1>1, <1>2, <1>3, <2>1, <2>2, RanRefreshes
<1>4. CASE Head(scripts) = "sync"
  <2>. DEFINE t == [Then EXCEPT !.at = "synced"]
              call == [cmd |-> "selected_server", id |-> None, then |-> t]
              a == [then |-> t, value |-> selected]
              left == Tail(scripts)
  <2>1. Ran(Calling(ui, call), answers, left) BY <1>4 DEF RunScript
  <2>2. t \in Thens /\ t.at = "synced" BY DEF Then, Thens, Points, IdOrNone
  <2>3. call.cmd = "selected_server" /\ call.then = t OBVIOUS
  <2>4. left \in Seq(Scripts) /\ left = Tail(scripts) BY <1>2
  <2>. HIDE DEF t, call, left
  <2>5. Handle(call) = Nothing(selected) BY <2>3 DEF Handle
  <2>6. Superseded(answers, call) = answers BY <2>3 DEF Superseded
  <2>7. /\ ui' = ui /\ work' = work
        /\ listed' = Handle(call).listed /\ selected' = Handle(call).selected
        /\ scripts' = left \o Handle(call).says
        /\ missed' = (missed \/ (call.cmd = "select_server" /\ Handle(call).value = FALSE))
        /\ answers' = Append(Superseded(answers, call), [then |-> call.then, value |-> Handle(call).value])
    BY <2>1, <2>3, RanCall
  <2>8. /\ listed' = listed /\ selected' = selected /\ scripts' = left /\ missed' = missed
        /\ answers' = Append(answers, a)
    BY <1>t, <2>3, <2>4, <2>5, <2>6, <2>7, Saying DEF Nothing, Host
  <2>9. a \in Answer /\ a.then = t /\ a.value = selected BY <1>t, <2>2, AnswerType
  <2>. HIDE DEF a
  <2>10. a.then.at = "synced" BY <2>2, <2>9
  <2>11. AskedSelection(listed, selected, work, ui.servers, answers, scripts, missed, silent, a)
    BY <1>t, <1>u, <1>1, <1>4, <2>9, <2>10, AskSelection
  <2>12. Append(answers, a) \in Seq(Answer) BY <1>t, <2>9, SeqPush
  <2>13. /\ UnderWay(listed, selected, work, ui.servers, Append(answers, a), left, missed, silent)
         /\ Highlighted(listed, selected, work, ui, Append(answers, a), left, missed)
    BY <1>t, <1>u, <2>4, <2>11 DEF AskedSelection
  <2>. QED BY <1>t, <1>1, <2>4, <2>7, <2>8, <2>12, <2>13 DEF ShellInv, ShellTypeOK
<1>. QED BY <1>2, <1>3, <1>4 DEF Scripts

\* A click starts a stretch.
LEMMA ClickSound ==
  ASSUME ShellInv,
         \/ spawn \/ \E i \in Ids : activateServer(i) \/ closeServer(i) \/ retryServer(i)
  PROVE  ShellInv'
<1>t. /\ listed \in SUBSET Ids /\ selected \in IdOrNone /\ work \in WorkStates /\ missed \in BOOLEAN
      /\ ui \in RailState /\ ui.servers \in SUBSET Ids
      /\ answers \in Seq(Answer) /\ scripts \in Seq(Scripts) /\ tabs \in SUBSET Ids /\ ShellTypeOK
  BY DEF ShellInv, ShellTypeOK, RailState
<1>u. /\ UnderWay(listed, selected, work, ui.servers, answers, scripts, missed, silent)
      /\ Highlighted(listed, selected, work, ui, answers, scripts, missed)
  BY DEF ShellInv
<1>1. CASE spawn
  <2>. DEFINE v == [ui EXCEPT !.spawning = TRUE]
  <2>1. spawnServer(ui) = [ui |-> v, call |-> NoCall, spawn |-> ~ui.spawning] BY DEF spawnServer
  <2>2. /\ v \in RailState /\ v.servers = ui.servers /\ v.selected = ui.selected /\ v.desired = ui.desired
        /\ (~ui.spawning) \in BOOLEAN
    BY <1>t DEF RailState
  <2>. HIDE DEF v
  <2>3. UnderWay(listed, selected, work, v.servers, answers, scripts, missed, silent) BY <1>u, <2>2
  <2>4. Highlighted(listed, selected, work, v, answers, scripts, missed) BY <1>u, <2>2, SameRow
  <2>5. /\ Ran([ui |-> v, call |-> NoCall, spawn |-> ~ui.spawning], answers, scripts)
        /\ tabs' \in SUBSET Ids /\ silent' = silent
    BY <1>t, <1>1, <2>1 DEF spawn, Acts
  <2>. QED BY <1>t, <2>2, <2>3, <2>4, <2>5, RanEnds
<1>2. ASSUME NEW i \in Ids, activateServer(i) PROVE ShellInv'
  <2>1. tabs' \in SUBSET Ids /\ silent' = silent BY <1>t, <1>2 DEF activateServer, Acts
  <2>2. CASE i \in ui.servers \cup ui.pending
    <3>1. selectServer(ui, i, Then) = selectServer(ui, i, [Then EXCEPT !.at = "opened"])
      BY DEF selectServer, Then
    <3>. DEFINE t == [Then EXCEPT !.at = "opened"]
    <3>2. t \in Thens BY DEF Then, Thens, Points, IdOrNone
    <3>3. Ran(selectServer(ui, i, t), answers, scripts) BY <1>2, <2>2, <3>1 DEF activateServer
    <3>. HIDE DEF t
    <3>4. UnderWay(listed, selected, work, ui.servers, answers, scripts, TRUE, silent) BY <1>u, MissedSound
    <3>. QED BY <1>t, <1>u, <2>1, <3>2, <3>3, <3>4, RanSelects
  <2>3. CASE i \notin ui.servers \cup ui.pending
    <3>. DEFINE v == [ui EXCEPT !.selected = i, !.desired = i]
    <3>1. Ran([ui |-> v, call |-> NoCall, spawn |-> FALSE], answers, scripts)
      BY <1>2, <2>3 DEF activateServer, Ends, Calling
    <3>2. v \in RailState /\ v.servers = ui.servers /\ v.selected = i /\ v.desired = i
      BY <1>t DEF RailState, IdOrNone
    <3>. HIDE DEF v
    <3>3. i # None BY NoneIsNoId
    <3>4. Highlighted(listed, selected, work, v, answers, scripts, missed)
      BY <2>3, <3>2, <3>3 DEF Highlighted, SelectionFollows, SomeSelected
    <3>5. UnderWay(listed, selected, work, v.servers, answers, scripts, missed, silent) BY <1>u, <3>2
    <3>. QED BY <1>t, <2>1, <3>1, <3>2, <3>4, <3>5, RanEnds
  <2>. QED BY <2>2, <2>3
<1>3. ASSUME NEW i \in Ids, closeServer(i) PROVE ShellInv'
  <2>. DEFINE v == [clearLocalSelection(ui, i) EXCEPT !.servers = @ \ {i}, !.pending = @ \ {i},
                                                      !.closing = @ \cup {i}]
  <2>1. /\ v \in RailState /\ v.servers \subseteq ui.servers
        /\ v.selected \in {ui.selected, None} /\ v.desired \in {ui.desired, None}
    BY <1>t DEF RailState, clearLocalSelection, IdOrNone
  <2>2. Ran(Closing(v, i, "close"), answers, scripts) /\ tabs' \in SUBSET Ids /\ silent' = silent
    BY <1>t, <1>3 DEF closeServer, Acts
  <2>. HIDE DEF v
  <2>. QED BY <2>1, <2>2, RanCloses
<1>4. ASSUME NEW i \in Ids, retryServer(i) PROVE ShellInv'
  <2>. DEFINE v == [ui EXCEPT !.pending = @ \ {i}, !.closing = @ \cup {i}]
  <2>1. /\ v \in RailState /\ v.servers \subseteq ui.servers
        /\ v.selected \in {ui.selected, None} /\ v.desired \in {ui.desired, None}
    BY <1>t DEF RailState
  <2>2. Ran(Closing(v, i, "retry"), answers, scripts) /\ tabs' \in SUBSET Ids /\ silent' = silent
    BY <1>t, <1>4 DEF retryServer, Acts
  <2>. HIDE DEF v
  <2>. QED BY <2>1, <2>2, RanCloses
<1>. QED BY <1>1, <1>2, <1>3, <1>4

\* A worker of a spawn takes a step.
LEMMA WorkerSound ==
  ASSUME ShellInv, NEW i \in Spawnable,
         SpawnFails(i) \/ SpawnLists(i) \/ SpawnFinds(i) \/ SpawnSelects(i) \/ SpawnShows(i) \/ SpawnMisses(i)
  PROVE  ShellInv'
<1>t. /\ listed \in SUBSET Ids /\ selected \in IdOrNone /\ work \in WorkStates /\ missed \in BOOLEAN
      /\ ui \in RailState /\ ui.servers \in SUBSET Ids
      /\ answers \in Seq(Answer) /\ scripts \in Seq(Scripts) /\ tabs \in SUBSET Ids /\ ShellTypeOK
  BY DEF ShellInv, ShellTypeOK, RailState
<1>u. /\ UnderWay(listed, selected, work, ui.servers, answers, scripts, missed, silent)
      /\ Highlighted(listed, selected, work, ui, answers, scripts, missed)
  BY DEF ShellInv
<1>i. i \in Ids /\ i # None BY NoneIsNoId

\* A step of a worker that leaves the rail, the list and what is said alone.
<1>g. ASSUME NEW x \in {"start", "listed", "found", "selected", "done"}, NEW sel,
             work[i] \notin {"selected", "done"}, sel = IF x = "selected" THEN i ELSE selected,
             work' = [work EXCEPT ![i] = x], selected' = sel,
             UNCHANGED <<listed, ui, tabs, scripts, silent, missed>>,
             \/ answers' = answers
             \/ \E a \in Answer : /\ answers' = Append(answers, a) /\ a.then.at = "spawned"
                                  /\ a.value # None => x = "done" /\ a.value = i
      PROVE  ShellInv'
  <2>1. WentOn(listed, selected, work, ui.servers, answers, scripts, missed, silent, i, x, sel)
    BY <1>t, <1>u, <1>g, WorkGoesOn
  <2>2. /\ UnderWay(listed, sel, work', ui.servers, answers, scripts, missed, silent)
        /\ Highlighted(listed, sel, work', ui, answers, scripts, missed)
        /\ work' \in WorkStates /\ sel \in IdOrNone
    BY <1>t, <1>u, <1>i, <1>g, <2>1 DEF WentOn, IdOrNone
  <2>3. CASE answers' = answers BY <1>t, <1>g, <2>2, <2>3 DEF ShellInv, ShellTypeOK
  <2>4. ASSUME NEW a \in Answer, answers' = Append(answers, a), a.then.at = "spawned",
               a.value # None => x = "done" /\ a.value = i
        PROVE  ShellInv'
    <3>. DEFINE wrk == work'
    <3>1. ~Refreshing(a) BY <2>4 DEF Refreshing
    <3>2. a.value # None => wrk[a.value] = "done" BY <1>t, <1>g, <2>4 DEF WorkStates
    <3>3. wrk \in WorkStates /\ UnderWay(listed, sel, wrk, ui.servers, answers, scripts, missed, silent)
          /\ Highlighted(listed, sel, wrk, ui, answers, scripts, missed) /\ sel \in IdOrNone
      BY <2>2
    <3>. HIDE DEF wrk
    <3>4. Given(listed, sel, wrk, ui.servers, answers, scripts, missed, silent, a)
      BY <1>t, <2>4, <3>1, <3>2, <3>3, PushAnswer
    <3>5. Append(answers, a) \in Seq(Answer) BY <1>t, SeqPush
    <3>6. /\ UnderWay(listed, sel, work', ui.servers, Append(answers, a), scripts, missed, silent)
          /\ Highlighted(listed, sel, work', ui, Append(answers, a), scripts, missed)
      BY <1>t, <3>3, <3>4 DEF Given, wrk
    <3>. QED BY <1>t, <1>g, <2>2, <2>4, <3>5, <3>6 DEF ShellInv, ShellTypeOK
  <2>. QED BY <1>g, <2>3, <2>4
<1>1. CASE SpawnFails(i)
  <2>1. Started(None) \in Answer /\ Started(None).then.at = "spawned" /\ Started(None).value = None
    BY StartedType
  <2>. QED BY <1>1, <1>g, <2>1 DEF SpawnFails, Spawned, bounds
<1>2. CASE SpawnLists(i)
  <2>. DEFINE l2 == listed \cup {i}
              wrk2 == [work EXCEPT ![i] = "listed"]
  <2>1. work[i] = "start" /\ l2 \in SUBSET Ids BY <1>t, <1>i, <1>2 DEF SpawnLists
  <2>2. wrk2 \in WorkStates /\ wrk2[i] = "listed" /\ \A j \in Spawnable \ {i} : wrk2[j] = work[j]
    BY <1>t DEF WorkStates
  <2>3. l2 = listed \cup {i} OBVIOUS
  <2>4. /\ listed' = l2 /\ work' = wrk2 /\ scripts' = Append(scripts, "changed")
        /\ UNCHANGED <<selected, ui, tabs, answers, silent, missed>>
    BY <1>2 DEF SpawnLists, bounds
  <2>. HIDE DEF wrk2, l2
  <2>5. \A k \in DOMAIN answers : answers[k].then.at = "spawned" /\ answers[k].value # None => answers[k].value \in Spawnable
    <3>1. \A k \in DOMAIN answers : answers[k] \in Answer BY <1>t
    <3>. QED BY <3>1 DEF Answer, Fits
  <2>6. SpawnedDone(wrk2, answers) BY <1>u, <2>1, <2>2, <2>5 DEF SpawnedDone, UnderWay
  <2>7. StillSelected(l2, selected, wrk2) BY <1>u, <2>2, <2>3 DEF StillSelected, UnderWay
  <2>8. SyncDue(scripts, work) => SyncDue(scripts, wrk2) BY <2>1, <2>2 DEF SyncDue
  <2>9. ToldOf(listed, selected, work, answers, scripts, missed, l2, wrk2, ui.servers, silent)
    BY <1>t, <1>u, <2>1, <2>2, <2>6, <2>7, <2>8, SayChanged
  <2>10. /\ UnderWay(l2, selected, wrk2, ui.servers, answers, Append(scripts, "changed"), missed, silent)
         /\ Highlighted(l2, selected, wrk2, ui, answers, Append(scripts, "changed"), missed)
    BY <1>t, <1>u, <2>9 DEF ToldOf
  <2>11. Append(scripts, "changed") \in Seq(Scripts) BY <1>t, SeqPush DEF Scripts
  <2>. QED BY <1>t, <2>1, <2>2, <2>4, <2>10, <2>11 DEF ShellInv, ShellTypeOK
<1>3. CASE SpawnFinds(i) BY <1>3, <1>g DEF SpawnFinds, backend, bounds
<1>4. CASE SpawnSelects(i) BY <1>4, <1>g DEF SpawnSelects, bounds
<1>5. CASE SpawnShows(i)
  <2>. DEFINE a == Started(i)
              wrk2 == [work EXCEPT ![i] = "done"]
  <2>1. work[i] = "selected" BY <1>5 DEF SpawnShows
  <2>2. /\ work' = wrk2 /\ scripts' = Append(scripts, "sync") /\ answers' = Append(answers, a)
        /\ UNCHANGED <<listed, selected, ui, tabs, silent, missed>>
    BY <1>5 DEF SpawnShows, Spawned, bounds
  <2>3. a \in Answer BY StartedType
  <2>4. WasShown(listed, selected, work, ui.servers, answers, scripts, missed, silent, i)
    BY <1>t, <1>u, <2>1, SpawnShown
  <2>5. /\ UnderWay(listed, selected, wrk2, ui.servers, Append(answers, a), Append(scripts, "sync"), missed, silent)
        /\ Highlighted(listed, selected, wrk2, ui, Append(answers, a), Append(scripts, "sync"), missed)
        /\ wrk2 \in WorkStates
    BY <1>t, <1>u, <2>4 DEF WasShown
  <2>6. Append(answers, a) \in Seq(Answer) /\ Append(scripts, "sync") \in Seq(Scripts)
    BY <1>t, <2>3, SeqPush DEF Scripts
  <2>. HIDE DEF a, wrk2
  <2>. QED BY <1>t, <2>2, <2>5, <2>6 DEF ShellInv, ShellTypeOK
<1>6. CASE SpawnMisses(i)
  <2>1. Started(i) \in Answer /\ Started(i).then.at = "spawned" /\ Started(i).value = i BY StartedType
  <2>. QED BY <1>6, <1>g, <2>1 DEF SpawnMisses, Spawned, backend, bounds
<1>. QED BY <1>1, <1>2, <1>3, <1>4, <1>5, <1>6

\* A server dies, or windows and editors come, go and tell the page of their inbox.
LEMMA WorldSound ==
  ASSUME ShellInv,
         \/ \E i \in Spawnable : Dies(i)
         \/ \E i \in Ids : Arrives(i) \/ Goes(i) \/ InboxMoves(i)
  PROVE  ShellInv'
<1>t. /\ listed \in SUBSET Ids /\ selected \in IdOrNone /\ work \in WorkStates /\ missed \in BOOLEAN
      /\ ui \in RailState /\ ui.servers \in SUBSET Ids
      /\ answers \in Seq(Answer) /\ scripts \in Seq(Scripts) /\ tabs \in SUBSET Ids /\ ShellTypeOK
  BY DEF ShellInv, ShellTypeOK, RailState
<1>u. /\ UnderWay(listed, selected, work, ui.servers, answers, scripts, missed, silent)
      /\ Highlighted(listed, selected, work, ui, answers, scripts, missed)
  BY DEF ShellInv

\* The list changes with a word.
<1>g. ASSUME NEW l2 \in SUBSET Ids, listed' = l2, scripts' = Append(scripts, "changed"),
             UNCHANGED <<selected, work, ui, answers, missed, tabs, silent>>,
             StillSelected(l2, selected, work)
      PROVE  ShellInv'
  <2>1. SpawnedDone(work, answers) BY <1>u DEF UnderWay
  <2>2. ToldOf(listed, selected, work, answers, scripts, missed, l2, work, ui.servers, silent)
    BY <1>t, <1>u, <1>g, <2>1, SayChanged
  <2>3. /\ UnderWay(l2, selected, work, ui.servers, answers, Append(scripts, "changed"), missed, silent)
        /\ Highlighted(l2, selected, work, ui, answers, Append(scripts, "changed"), missed)
    BY <1>t, <1>u, <2>2 DEF ToldOf
  <2>4. Append(scripts, "changed") \in Seq(Scripts) BY <1>t, SeqPush DEF Scripts
  <2>. QED BY <1>t, <1>g, <2>3, <2>4 DEF ShellInv, ShellTypeOK
<1>1. ASSUME NEW i \in Spawnable, Dies(i) PROVE ShellInv'
  <2>1. /\ listed' = listed \ {i} /\ silent' = silent \cup {i}
        /\ UNCHANGED <<selected, work, ui, tabs, answers, scripts, missed>>
    BY <1>1 DEF Dies, Changes
  <2>2. Bereft(listed, selected, work, ui.servers, answers, scripts, missed, silent, i) BY <1>t, <1>u, Dying
  <2>3. /\ UnderWay(listed \ {i}, selected, work, ui.servers, answers, scripts, missed, silent \cup {i})
        /\ Highlighted(listed \ {i}, selected, work, ui, answers, scripts, missed)
    BY <1>t, <1>u, <2>2 DEF Bereft
  <2>. QED BY <1>t, <2>1, <2>3 DEF ShellInv, ShellTypeOK
<1>2. ASSUME NEW i \in Ids, Arrives(i) PROVE ShellInv'
  <2>1. StillSelected(listed \cup {i}, selected, work)
    BY <1>u, <1>2, ShellConstants DEF Arrives, StillSelected, UnderWay
  <2>. QED BY <1>t, <1>2, <1>g, <2>1 DEF Arrives, Changes
<1>3. ASSUME NEW i \in Ids, Goes(i) PROVE ShellInv'
  <2>1. StillSelected(listed \ {i}, selected, work) BY <1>u DEF StillSelected, UnderWay
  <2>. QED BY <1>t, <1>3, <1>g, <2>1 DEF Goes, Changes
<1>4. ASSUME NEW i \in Ids, InboxMoves(i) PROVE ShellInv'
  <2>1. tabs' \in SUBSET Ids /\ UNCHANGED <<listed, selected, work, ui, answers, scripts, silent, missed>>
    BY <1>t, <1>4 DEF InboxMoves, Changes
  <2>. QED BY <1>t, <1>u, <2>1 DEF ShellInv, ShellTypeOK
<1>. QED BY <1>1, <1>2, <1>3, <1>4

\* At the start the rail asks for the servers and nothing else is under way.
LEMMA ShellInitSound == ShellInit => ShellInv
<1>. SUFFICES ASSUME ShellInit PROVE ShellInv OBVIOUS
<1>. DEFINE t == [Then EXCEPT !.at = "servers"]
            a == [then |-> t, value |-> listed]
<1>1. /\ listed \in SUBSET Ids /\ selected = None /\ ui.servers = {} /\ ui.selected = None /\ ui.desired = None
      /\ work \in WorkStates /\ (\A i \in Spawnable : work[i] = "none") /\ ui \in RailState /\ tabs \in SUBSET Ids
      /\ scripts = <<>> /\ missed = FALSE /\ answers = <<a>>
  BY DEF ShellInit, Ids, WorkStates, RailState, IdOrNone
<1>2. t \in Thens /\ t.at = "servers" /\ t.last BY DEF Then, Thens, Points, IdOrNone
<1>3. a \in Answer /\ a.then = t /\ a.value = listed BY <1>1, <1>2, AnswerType
<1>. HIDE DEF t, a
<1>4. answers \in Seq(Answer) /\ DOMAIN answers = {1} /\ answers[1] = a /\ scripts \in Seq(Scripts) /\ DOMAIN scripts = {}
  BY <1>1, <1>3
<1>5. ShellTypeOK BY <1>1, <1>4 DEF ShellTypeOK, IdOrNone
<1>6. Refreshing(a) /\ ListOf(a) = listed BY <1>2, <1>3 DEF Refreshing, ListOf
<1>7. Refreshes(answers) BY <1>4, <1>6 DEF Refreshes
<1>8. RailFollows(listed, silent, ui.servers, answers, scripts) BY <1>4, <1>6, <1>7 DEF RailFollows, Current
<1>9. SpawnedDone(work, answers) /\ OpenedWell(answers) /\ StaleCorrected(selected, work, answers, scripts)
      /\ NoneAnswered(ui.servers, answers, scripts)
  BY <1>2, <1>3, <1>4 DEF SpawnedDone, OpenedWell, StaleCorrected, NoneAnswered
<1>10. StillSelected(listed, selected, work) /\ NoneTold(listed, selected, ui.servers, answers, scripts)
  BY <1>1, <1>4 DEF StillSelected, NoneTold
<1>11. UnderWay(listed, selected, work, ui.servers, answers, scripts, missed, silent)
  BY <1>8, <1>9, <1>10 DEF UnderWay
<1>12. Highlighted(listed, selected, work, ui, answers, scripts, missed)
  BY <1>1, <1>7 DEF Highlighted, SelectionFollows, SomeSelected
<1>. QED BY <1>5, <1>11, <1>12 DEF ShellInv

\* The rail and the shell are sound together in every state they reach.
THEOREM ShellAlwaysSound == ShellSpec => []ShellInv
<1>1. ShellInv /\ [ShellNext]_shellVars => ShellInv'
  <2>. SUFFICES ASSUME ShellInv, [ShellNext]_shellVars PROVE ShellInv' OBVIOUS
  <2>1. CASE TakeAnswer BY <2>1, TakeAnswerSound
  <2>2. CASE RunScript BY <2>2, RunScriptSound
  <2>3. CASE spawn \/ \E i \in Ids : activateServer(i) \/ closeServer(i) \/ retryServer(i) BY <2>3, ClickSound
  <2>4. ASSUME NEW i \in Spawnable,
               SpawnFails(i) \/ SpawnLists(i) \/ SpawnFinds(i) \/ SpawnSelects(i) \/ SpawnShows(i) \/ SpawnMisses(i)
        PROVE  ShellInv'
    BY <2>4, WorkerSound
  <2>5. CASE (\E i \in Spawnable : Dies(i)) \/ \E i \in Ids : Arrives(i) \/ Goes(i) \/ InboxMoves(i)
    BY <2>5, WorldSound
  <2>6. CASE UNCHANGED shellVars BY <2>6 DEF shellVars, ShellInv, ShellTypeOK
  <2>. QED BY <2>1, <2>2, <2>3, <2>4, <2>5, <2>6 DEF ShellNext
<1>. QED BY <1>1, ShellInitSound, PTL DEF ShellSpec

\* With nothing under way the invariant is what the shell promises.
LEMMA QuietSound ==
  ASSUME ShellInv, Quiet
  PROVE  RailListsServers /\ SelectionAgrees /\ DeferredOpens
<1>1. /\ DOMAIN answers = {} /\ DOMAIN scripts = {} /\ \A i \in Spawnable : work[i] # "selected"
  BY DEF Quiet
<1>2. Current(ui.servers, listed, silent)
  BY <1>1 DEF ShellInv, UnderWay, RailFollows, Refreshes, Has
<1>3. ~missed => ui.desired \notin ui.servers BY DEF ShellInv, Highlighted
<1>4. ~missed => (ui.selected \in ui.servers => ui.selected = selected)
  BY <1>1 DEF ShellInv, Highlighted, SelectionFollows, SyncDue, Has
<1>5. ~missed => ui.servers = {} \/ ui.selected # None
  BY <1>1 DEF ShellInv, Highlighted, SomeSelected, Lost, Refreshes, Has
<1>. QED BY <1>2, <1>3, <1>4, <1>5 DEF Current, RailListsServers, SelectionAgrees, DeferredOpens

\* When nothing is under way the rail lists the servers there are, however refreshes,
\* closes, spawns and retries have overtaken each other.
THEOREM RailAlwaysLists == ShellSpec => []RailListsServers
<1>1. ShellInv => RailListsServers BY QuietSound DEF RailListsServers
<1>. QED BY <1>1, ShellAlwaysSound, PTL

\* When nothing is under way the highlighted row is the one whose editor the host
\* shows, and one is highlighted if there are any.
THEOREM SelectionAlwaysAgrees == ShellSpec => []SelectionAgrees
<1>1. ShellInv => SelectionAgrees BY QuietSound DEF SelectionAgrees
<1>. QED BY <1>1, ShellAlwaysSound, PTL

\* No click on a row whose editor was not there yet is kept when nothing is under way
\* and its server is listed.
THEOREM DeferredAlwaysOpen == ShellSpec => []DeferredOpens
<1>1. ShellInv => DeferredOpens BY QuietSound DEF DeferredOpens
<1>. QED BY <1>1, ShellAlwaysSound, PTL
=============================================================================
