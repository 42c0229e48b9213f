------------------------------- MODULE HostCore -------------------------------
(***************************************************************************)
(* What the host makes of its inbox, as operators: the rows of the view    *)
(* (crates/fleet-host-core/src/view.rs, render.rs of the host), which of   *)
(* them ping (mute.rs), what changes fire or resolve a notification        *)
(* (notify.rs), in which order they are listed (sort.rs), and what the     *)
(* rail does to its copy before the Hub answers (ui/main.js).              *)
(*                                                                         *)
(* A view is a function from sessions to rows.  Its insertion order stays  *)
(* with the inbox model; the order of the rail is the relation Above.      *)
(***************************************************************************)
EXTENDS MergeEngine, FiniteSets

NoWait == -1

Row == [state : State, urgency : Urgency, since : Nat \cup {NoWait},
        muted : BOOLEAN, soloed : BOOLEAN, unread : BOOLEAN]

View == [SessionIds -> Row \cup {Absent}]

\* A row is none of the values its absence is.
ASSUME AbsentIsNoRow == Absent \notin Row

NoRows == [s \in SessionIds |-> Absent]

Shown(v) == {s \in SessionIds : v[s] # Absent}

\* When the first of the runs that wait began to: a run is reported once when
\* it begins to wait, so its updated_at stands for its waiting_since.
WaitStamps(session) ==
  {session.runs[r].updated_at :
     r \in {q \in RunIds : session.runs[q] # Absent /\ session.runs[q].state = "waiting"}}

waiting_since(session) ==
  IF WaitStamps(session) = {} THEN NoWait
  ELSE CHOOSE t \in WaitStamps(session) : \A u \in WaitStamps(session) : t <= u

session_to_tab(session) ==
  [state |-> session.rollup_state, urgency |-> session.rollup_urgency,
   since |-> waiting_since(session), muted |-> session.muted,
   soloed |-> session.soloed, unread |-> session.unread]

view(e) ==
  [s \in SessionIds |-> IF s \in Present(e) THEN session_to_tab(e.sessions[s]) ELSE Absent]

-----------------------------------------------------------------------------
(* Pings, by the rule of the host and by the rule of the rail.             *)

is_attention(tab) == tab.state = "waiting"

SoloInView(v) == \E s \in Shown(v) : v[s].soloed

\* A faulty rule that lets a solo silence nobody.
SuppressedByMuteOnly(v, s) == ~is_attention(v[s]) \/ v[s].muted

ping_suppressed(v, s) ==
  \/ ~is_attention(v[s])
  \/ IF SoloInView(v) THEN ~v[s].soloed ELSE v[s].muted

should_notify(v, s) ==
  s \in Shown(v) /\ is_attention(v[s]) /\ ~ping_suppressed(v, s)

Pending(v) == {s \in SessionIds : should_notify(v, s)}

shouldNotifyTab(v, s) ==
  /\ s \in Shown(v)
  /\ is_attention(v[s]) /\ ~v[s].muted /\ (SoloInView(v) => v[s].soloed)

-----------------------------------------------------------------------------
(* Notifications: view_transition from one view to the next.               *)

Fires(old, new) ==
  {s \in Pending(new) : s \in Pending(old) => old[s].urgency # new[s].urgency}

AutoResolves(old, new) == Pending(old) \ Pending(new)

-----------------------------------------------------------------------------
(* The order of the rail: unread, then urgency, then the longest wait, and *)
(* the insertion order of the inbox model between equals.                  *)

urgency_sort_rank == [u \in Urgency |->
  CASE u = "approval" -> 4 [] u = "question" -> 3 [] u = "idle-done" -> 2 [] OTHER -> 0]

\* No wait, and a wait of which the clock has not moved on, have no age.
waiting_age(tab, now) ==
  IF tab.since = NoWait \/ now <= tab.since THEN 0 ELSE now - tab.since

\* The key of a comes before that of b.
KeyAbove(a, b, now) ==
  IF a.unread # b.unread THEN a.unread
  ELSE IF urgency_sort_rank[a.urgency] # urgency_sort_rank[b.urgency]
       THEN urgency_sort_rank[a.urgency] > urgency_sort_rank[b.urgency]
       ELSE waiting_age(a, now) > waiting_age(b, now)

\* sort_tabs: s is listed above t.
Above(v, older, now, s, t) ==
  \/ KeyAbove(v[s], v[t], now)
  \/ ~KeyAbove(v[t], v[s], now) /\ <<s, t>> \in older

waiting_count(v) == Cardinality(Pending(v))

-----------------------------------------------------------------------------
(* The rail's optimistic changes of its rows.                              *)

\* reconcileUnread of every row after a change from v to w.
deriveInboxTabs(v, w) ==
  [s \in SessionIds |->
     IF s \notin Shown(w) THEN Absent
     ELSE [w[s] EXCEPT !.unread =
             CASE ~shouldNotifyTab(v, s) /\ shouldNotifyTab(w, s) -> TRUE
               [] shouldNotifyTab(v, s) /\ ~shouldNotifyTab(w, s) -> FALSE
               [] OTHER -> @]]

Flagged(tab, muted, soloed) == [tab EXCEPT !.muted = muted, !.soloed = soloed]

applyLocalMute(v, id, muted) ==
  deriveInboxTabs(v, [s \in SessionIds |->
    IF s = id /\ s \in Shown(v) THEN Flagged(v[s], muted, FALSE) ELSE v[s]])

\* A faulty local solo that leaves the solo of the others on.
LocalSoloKeepsOthers(v, id, soloed) ==
  deriveInboxTabs(v, [s \in SessionIds |->
    IF s = id /\ s \in Shown(v) THEN Flagged(v[s], FALSE, soloed) ELSE v[s]])

applyLocalSolo(v, id, soloed) ==
  deriveInboxTabs(v, [s \in SessionIds |->
    CASE s \notin Shown(v) -> Absent
      [] s \in Shown(v) /\ s = id -> Flagged(v[s], FALSE, soloed)
      [] s \in Shown(v) /\ s # id /\ soloed -> Flagged(v[s], v[s].muted, FALSE)
      [] OTHER -> v[s]])

applyLocalFocus(v, id) ==
  deriveInboxTabs(v, [s \in SessionIds |->
    IF s = id /\ s \in Shown(v) THEN [v[s] EXCEPT !.unread = FALSE] ELSE v[s]])

removeInboxSession(v, id) == deriveInboxTabs(v, [v EXCEPT ![id] = Absent])
=============================================================================
