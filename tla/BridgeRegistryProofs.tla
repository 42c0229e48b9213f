------------------------- MODULE BridgeRegistryProofs -------------------------
(***************************************************************************)
(* What holds of the bridge registry for every set of windows and servers, *)
(* any delays that keep the order the constants' assumption asks for, and  *)
(* any number of breaks, silences, restarts and edits.                     *)
(***************************************************************************)
EXTENDS BridgeRegistry, TLAPS

\* What TypeOK says of all but the rail.
Typed ==
  /\ host \in [up : BOOLEAN, token : Nat, file : Nat]
  /\ registry \in [ServerIds -> Entry \cup {None}]
  /\ next_generation \in Nat
  /\ tasks \in SUBSET Task
  /\ win \in [Windows -> Window]
  /\ spent \in [opens : Nat, breaks : Nat, starts : Nat, edits : Nat]

\* Generations are new, one task has each, and it is the task of the window
\* whose socket has it.
Numbered ==
  /\ \A t \in tasks : t.gen < next_generation /\ t.id = ServerOf[t.win]
  /\ \A t, u \in tasks : t.gen = u.gen => t = u
  /\ \A w \in Windows :
       win[w].socket # None => win[w].open /\ win[w].socket < next_generation
  /\ \A w \in Windows, t \in tasks : t.gen = win[w].socket => t.win = w

\* Every connection of an entry has a task, and an entry has a connection.
Tasked ==
  \A s \in ServerIds :
    Listed(s) => /\ Conns(s) # {}
                 /\ \A g \in Conns(s) : \E t \in tasks : t.gen = g /\ t.id = s

\* The link of a window is in the registry while it serves, ...
AtHome(w) ==
  /\ win[w].backoff = BackoffStart
  /\ \E t \in tasks : /\ t.win = w /\ t.gen = win[w].socket /\ t.phase = "serving"
                      /\ t.gen \in Conns(ServerOf[w])

\* ... and after it, until the window is back: its grace outlasts the retry, or
\* the host does not know yet that the link has ended.
OnTheWay(w) ==
  \E t \in tasks : /\ t.win = w /\ t.gen \in Conns(ServerOf[w])
                   /\ \/ t.phase = "grace" /\ t.wait > win[w].retry
                      \/ t.phase = "serving" /\ ~t.hears

Homes ==
  \A w \in Windows : win[w].homed =>
    /\ win[w].open /\ host.up /\ win[w].token = host.token
    /\ IF win[w].socket = None THEN OnTheWay(w) ELSE AtHome(w)

\* A link that works has been heard since its window's last ping.
Heard ==
  \A w \in Windows : (\E t \in ServingOf(w) : t.hears /\ t.gen \in Conns(t.id)) =>
    registry[ServerOf[w]].quiet + win[w].due <= PingInterval

RailRecord == [list : [ServerIds -> Labels \cup {None}], unheard : Nat]

\* A rail that has heard of every change has the list there is.
Told == rail \in RailRecord /\ RailIsTold

IInv == Typed /\ Numbered /\ Tasked /\ Homes /\ Heard /\ Told

-----------------------------------------------------------------------------
(* The operators.                                                          *)

LEMMA ServerOfType == \A w \in Windows : ServerOf[w] \in ServerIds
BY DEF ServerIds

LEMMA ClosedType == Closed \in Window
BY BridgeConstants DEF Closed, Window

LEMMA NextBackoffType ==
  ASSUME NEW d \in 1..BackoffMax PROVE nextBackoff(d) \in 1..BackoffMax
BY BridgeConstants DEF nextBackoff

\* What a window is after it has lost its socket.
LEMMA ReconnectIs ==
  ASSUME NEW x \in Window
  PROVE  /\ reconnect(x) \in Window
         /\ reconnect(x).open = x.open /\ reconnect(x).token = x.token
         /\ reconnect(x).socket = None /\ reconnect(x).retry = x.backoff
         /\ reconnect(x).due = x.due /\ reconnect(x).homed = x.homed
<1>1. x.backoff \in 1..BackoffMax /\ x.backoff \in 0..BackoffMax
  BY BridgeConstants DEF Window
<1>2. nextBackoff(x.backoff) \in 1..BackoffMax BY <1>1, NextBackoffType
<1>. QED BY <1>1, <1>2 DEF reconnect, Window

\* The windows after some sockets have closed.
LEMMA SeeCloseIs ==
  ASSUME win \in [Windows -> Window], NEW gens,
         \A w \in Windows : win[w].socket # None => win[w].open, None \notin gens
  PROVE  /\ SeeClose(gens) \in [Windows -> Window]
         /\ \A w \in Windows :
              /\ win[w].socket \notin gens => SeeClose(gens)[w] = win[w]
              /\ win[w].socket \in gens => SeeClose(gens)[w] = reconnect(win[w])
BY ReconnectIs DEF SeeClose

LEMMA EndedIs ==
  ASSUME NEW t \in Task
  PROVE  /\ Ended(t) \in Task
         /\ Ended(t).gen = t.gen /\ Ended(t).win = t.win /\ Ended(t).id = t.id
         /\ Ended(t).phase = "grace" /\ Ended(t).wait = DropGrace /\ Ended(t).hears = t.hears
<1>1. DropGrace \in 0..DropGrace /\ "grace" \in {"serving", "grace"} BY BridgeConstants
<1>. QED BY <1>1 DEF Ended, Task

\* The tasks after some have ended: the same links, those in their grace.
LEMMA TasksEndIs ==
  ASSUME tasks \in SUBSET Task, NEW ended \in SUBSET tasks
  PROVE  /\ TasksEnd(ended) \in SUBSET Task
         /\ \A t \in tasks \ ended : t \in TasksEnd(ended)
         /\ \A t \in ended : Ended(t) \in TasksEnd(ended)
         /\ \A u \in TasksEnd(ended) :
              u \in tasks \ ended \/ \E t \in ended : u = Ended(t)
BY EndedIs DEF TasksEnd

LEMMA RegisterIs ==
  ASSUME registry \in [ServerIds -> Entry \cup {None}],
         NEW s \in ServerIds, NEW g \in Nat, NEW w \in Windows
  PROVE  /\ register(s, g, LabelOf[w]) \in Entry
         /\ register(s, g, LabelOf[w]).conns = Conns(s) \cup {g}
         /\ register(s, g, LabelOf[w]).quiet = 0
         /\ Listed(s) /\ registry[s].renamed =>
              register(s, g, LabelOf[w]).label = registry[s].label
<1>1. LabelOf[w] \in Labels /\ 0 \in 0..(LivenessTimeout + 1) BY BridgeConstants DEF Labels
<1>2. CASE Listed(s)
  <2>1. registry[s] \in Entry BY <1>2 DEF Listed
  <2>2. registry[s].conns \cup {g} \in SUBSET Nat BY <2>1 DEF Entry
  <2>. QED BY <1>1, <1>2, <2>1, <2>2 DEF register, Conns, Entry
<1>3. CASE ~Listed(s)
  BY <1>1, <1>3 DEF register, Conns, Entry
<1>. QED BY <1>2, <1>3

LEMMA UnregisterIs ==
  ASSUME registry \in [ServerIds -> Entry \cup {None}], NEW s \in ServerIds, NEW g \in Nat
  PROVE  /\ unregister(s, g) \in Entry \cup {None}
         /\ unregister(s, g) # None => /\ Listed(s)
                                       /\ unregister(s, g).conns = Conns(s) \ {g}
                                       /\ unregister(s, g).quiet = registry[s].quiet
                                       /\ unregister(s, g).label = registry[s].label
                                       /\ g \in Conns(s) => Conns(s) \ {g} # {}
         /\ unregister(s, g) = None => Conns(s) \subseteq {g}
<1>1. CASE g \notin Conns(s)
  BY <1>1 DEF unregister, Conns, Listed
<1>2. CASE g \in Conns(s) /\ Conns(s) = {g}
  BY <1>2, NoneIsNew DEF unregister, Conns, Listed
<1>3. CASE g \in Conns(s) /\ Conns(s) # {g}
  <2>1. Listed(s) /\ registry[s] \in Entry BY <1>3 DEF Conns, Listed
  <2>2. unregister(s, g) = [registry[s] EXCEPT !.conns = @ \ {g}]
    BY <1>3 DEF unregister
  <2>3. unregister(s, g) \in Entry BY <2>1, <2>2 DEF Entry
  <2>. QED BY <1>3, <2>1, <2>2, <2>3, NoneIsNew DEF Conns, Entry
<1>. QED BY <1>1, <1>2, <1>3

-----------------------------------------------------------------------------
(* The steps.                                                              *)

\* The list of a registry.
LEMMA ListType ==
  ASSUME registry \in [ServerIds -> Entry \cup {None}]
  PROVE  servers(registry) \in [ServerIds -> Labels \cup {None}]
<1>1. ASSUME NEW s \in ServerIds
      PROVE  (IF registry[s] = None THEN None ELSE registry[s].label) \in Labels \cup {None}
  BY DEF Entry
<1>. QED BY <1>1 DEF servers

\* A change that the list shows is said to be one, or the rail stays told.
LEMMA BecomesTold ==
  ASSUME Told, NEW after, NEW changed \in BOOLEAN, Becomes(after, changed),
         changed \/ servers(after) = servers(registry)
  PROVE  Told' /\ registry' = after
<1>1. rail \in RailRecord /\ (rail.unheard = 0 => rail.list = servers(registry))
  BY DEF Told, RailIsTold
<1>2. registry' = after BY DEF Becomes
<1>3. CASE changed
  <2>1. rail' = [rail EXCEPT !.unheard = rail.unheard + 1] BY <1>3 DEF Becomes
  <2>2. rail.unheard + 1 \in Nat /\ rail.unheard + 1 # 0 BY <1>1 DEF RailRecord
  <2>3. rail' \in RailRecord /\ rail'.unheard = rail.unheard + 1
    BY <1>1, <2>1, <2>2 DEF RailRecord
  <2>. QED BY <1>2, <2>2, <2>3 DEF Told, RailIsTold
<1>4. CASE ~changed
  <2>1. rail' = rail /\ servers(registry') = servers(registry) BY <1>2, <1>4 DEF Becomes
  <2>2. servers(registry)' = servers(registry') BY DEF servers
  <2>. QED BY <1>1, <1>2, <2>1, <2>2 DEF Told, RailIsTold
<1>. QED BY <1>3, <1>4

\* A change of entries that does not show needs no announcement.
LEMMA SameList ==
  ASSUME NEW after, NEW before,
         \A s \in ServerIds : (after[s] = None <=> before[s] = None)
                              /\ (before[s] # None => after[s].label = before[s].label)
  PROVE  servers(after) = servers(before)
BY DEF servers

LEMMA StillTold ==
  ASSUME Told, UNCHANGED rail,
         \A s \in ServerIds : (registry'[s] = None <=> registry[s] = None)
                              /\ (registry[s] # None => registry'[s].label = registry[s].label)
  PROVE  Told'
<1>1. servers(registry') = servers(registry) BY SameList
<1>2. servers(registry)' = servers(registry') BY DEF servers
<1>. QED BY <1>1, <1>2 DEF Told, RailIsTold

LEMMA SteadyTold ==
  ASSUME Told, UNCHANGED <<registry, rail>> PROVE Told'
BY DEF Told, RailIsTold, servers

LEMMA EmptyList == servers(Empty) = Empty /\ Empty \in [ServerIds -> Labels \cup {None}]
BY DEF servers, Empty

\* What register and unregister say of a change misses none that shows.
LEMMA RegisterTells ==
  ASSUME registry \in [ServerIds -> Entry \cup {None}],
         NEW s \in ServerIds, NEW g \in Nat, NEW w \in Windows,
         ~register_changes(s, LabelOf[w])
  PROVE  servers([registry EXCEPT ![s] = register(s, g, LabelOf[w])]) = servers(registry)
<1>. DEFINE entry == register(s, g, LabelOf[w])
            after == [registry EXCEPT ![s] = entry]
<1>1. Listed(s) /\ (registry[s].renamed \/ registry[s].label = LabelOf[w])
  BY DEF register_changes
<1>2. registry[s] \in Entry BY <1>1 DEF Listed
<1>3. entry = [registry[s] EXCEPT !.label = IF registry[s].renamed THEN registry[s].label ELSE LabelOf[w],
                                  !.quiet = 0, !.conns = registry[s].conns \cup {g}]
  BY <1>1 DEF register
<1>4. entry.label = registry[s].label BY <1>1, <1>2, <1>3 DEF Entry
<1>5. entry \in Entry BY RegisterIs
<1>. HIDE DEF entry
<1>6. \A x \in ServerIds : after[x] = IF x = s THEN entry ELSE registry[x] OBVIOUS
<1>. HIDE DEF after
<1>7. servers(after) = servers(registry)
  BY <1>1, <1>4, <1>5, <1>6, SameList, NoneIsNew DEF Listed
<1>. QED BY <1>7 DEF after, entry

LEMMA UnregisterTells ==
  ASSUME registry \in [ServerIds -> Entry \cup {None}],
         NEW s \in ServerIds, NEW g \in Nat, ~unregister_changes(s, g)
  PROVE  servers([registry EXCEPT ![s] = unregister(s, g)]) = servers(registry)
<1>. DEFINE entry == unregister(s, g)
            after == [registry EXCEPT ![s] = entry]
<1>1. /\ entry # None => Listed(s) /\ entry.label = registry[s].label
      /\ entry = None => ~Listed(s)
  <2>1. entry # None => Listed(s) /\ entry.label = registry[s].label BY UnregisterIs
  <2>2. ASSUME entry = None, Listed(s) PROVE FALSE
    <3>1. registry[s] \in Entry BY <2>2 DEF Listed
    <3>2. CASE g \notin Conns(s)
      <4>1. entry = registry[s] BY <3>2 DEF unregister
      <4>. QED BY <2>2, <4>1 DEF Listed
    <3>3. CASE g \in Conns(s)
      <4>1. Conns(s) # {g} BY DEF unregister_changes
      <4>2. entry = [registry[s] EXCEPT !.conns = registry[s].conns \ {g}]
        BY <3>3, <4>1 DEF unregister
      <4>3. entry \in Entry BY <3>1, <4>2 DEF Entry
      <4>. QED BY <2>2, <4>3, NoneIsNew
    <3>. QED BY <3>2, <3>3
  <2>. QED BY <2>1, <2>2
<1>. HIDE DEF entry
<1>2. \A x \in ServerIds : after[x] = IF x = s THEN entry ELSE registry[x] OBVIOUS
<1>. HIDE DEF after
<1>3. servers(after) = servers(registry) BY <1>1, <1>2, SameList DEF Listed
<1>. QED BY <1>3 DEF after, entry

\* What is spent is counted.
LEMMA SpendType ==
  ASSUME Typed, NEW what \in {"opens", "breaks", "starts", "edits"}, NEW bound, Spend(what, bound)
  PROVE  spent' \in [opens : Nat, breaks : Nat, starts : Nat, edits : Nat]
BY DEF Typed, Spend

\* When tasks end, each is still there under its number.
LEMMA EndingKeepsNumbers ==
  ASSUME Typed, Numbered, NEW ended \in SUBSET tasks, tasks' = TasksEnd(ended),
         UNCHANGED next_generation
  PROVE  /\ tasks' \in SUBSET Task
         /\ \A t \in tasks \ ended : t \in tasks'
         /\ \A t \in ended : Ended(t) \in tasks'
         /\ \A u \in tasks' : \E t \in tasks :
              /\ u.gen = t.gen /\ u.win = t.win /\ u.id = t.id
              /\ u = (IF t \in ended THEN Ended(t) ELSE t)
         /\ \A u \in tasks' : u.gen < next_generation' /\ u.id = ServerOf[u.win]
         /\ \A u, v \in tasks' : u.gen = v.gen => u = v
<1>1. /\ TasksEnd(ended) \in SUBSET Task
      /\ \A t \in tasks \ ended : t \in TasksEnd(ended)
      /\ \A t \in ended : Ended(t) \in TasksEnd(ended)
      /\ \A u \in TasksEnd(ended) : u \in tasks \ ended \/ \E t \in ended : u = Ended(t)
  BY TasksEndIs DEF Typed
<1>2. \A t \in ended : Ended(t).gen = t.gen /\ Ended(t).win = t.win /\ Ended(t).id = t.id
  BY EndedIs DEF Typed
<1>3. \A u \in tasks' : \E t \in tasks :
        /\ u.gen = t.gen /\ u.win = t.win /\ u.id = t.id
        /\ u = (IF t \in ended THEN Ended(t) ELSE t)
  BY <1>1, <1>2
<1>4. \A u \in tasks' : u.gen < next_generation' /\ u.id = ServerOf[u.win]
  BY <1>3 DEF Numbered
<1>5. \A u, v \in tasks' : u.gen = v.gen => u = v
  <2>. SUFFICES ASSUME NEW u \in tasks', NEW v \in tasks', u.gen = v.gen PROVE u = v
    OBVIOUS
  <2>1. PICK x \in tasks : u.gen = x.gen /\ u = (IF x \in ended THEN Ended(x) ELSE x)
    BY <1>3
  <2>2. PICK y \in tasks : v.gen = y.gen /\ v = (IF y \in ended THEN Ended(y) ELSE y)
    BY <1>3
  <2>3. x = y BY <2>1, <2>2 DEF Numbered
  <2>. QED BY <2>1, <2>2, <2>3
<1>. QED BY <1>1, <1>3, <1>4, <1>5

LEMMA EndingKeepsTasked ==
  ASSUME Typed, Numbered, Tasked, NEW ended \in SUBSET tasks, tasks' = TasksEnd(ended),
         UNCHANGED <<registry, next_generation>>
  PROVE  Tasked'
<1>. SUFFICES ASSUME NEW s \in ServerIds, Listed(s), NEW g \in Conns(s)
              PROVE  \E u \in tasks' : u.gen = g /\ u.id = s
  BY DEF Tasked, Conns, Listed
<1>1. PICK t \in tasks : t.gen = g /\ t.id = s BY DEF Tasked
<1>2. Ended(t).gen = t.gen /\ Ended(t).id = t.id BY EndedIs DEF Typed
<1>3. IF t \in ended THEN Ended(t) \in tasks' ELSE t \in tasks' BY EndingKeepsNumbers
<1>. QED BY <1>1, <1>2, <1>3

LEMMA InitInv == Init => IInv
<1>. SUFFICES ASSUME Init PROVE IInv OBVIOUS
<1>1. \A s \in ServerIds : registry[s] = None BY DEF Init, Empty
<1>2. \A w \in Windows : win[w].socket = None /\ ~win[w].homed BY DEF Init, Closed
<1>3. Typed
  BY ClosedType DEF Init, Typed, Empty
<1>4. Numbered BY <1>2 DEF Init, Numbered
<1>5. Tasked BY <1>1 DEF Tasked, Listed
<1>6. Homes BY <1>2 DEF Homes
<1>7. Heard BY DEF Init, Heard, ServingOf
<1>8. Told
  <2>1. registry = Empty /\ rail = [list |-> Empty, unheard |-> 0] BY DEF Init
  <2>. QED BY <2>1, EmptyList DEF Told, RailIsTold, RailRecord
<1>. QED BY <1>3, <1>4, <1>5, <1>6, <1>7, <1>8 DEF IInv

LEMMA OpenStep ==
  ASSUME IInv, NEW w \in Windows, Open(w) PROVE IInv'
<1>. USE DEF IInv, Open
<1>. DEFINE new == [Closed EXCEPT !.open = TRUE, !.token = host.token]
<1>1. new \in Window /\ ~new.homed /\ new.socket = None
  BY ClosedType DEF Closed, Window, Typed
<1>2. /\ win' \in [Windows -> Window]
      /\ \A v \in Windows : win'[v] = IF v = w THEN new ELSE win[v]
  BY <1>1 DEF Typed
<1>. HIDE DEF new
<1>3. Typed' BY <1>2, SpendType DEF Typed
<1>4. Numbered' BY <1>1, <1>2, NoneIsNew, ZenonT(60) DEF Numbered, Typed, Task
<1>5. Tasked' BY DEF Tasked, Conns, Listed
<1>6. Homes'
  <2>. SUFFICES ASSUME NEW v \in Windows, win'[v].homed
                PROVE  /\ win'[v].open /\ host'.up /\ win'[v].token = host'.token
                       /\ IF win'[v].socket = None THEN OnTheWay(v)' ELSE AtHome(v)'
    BY DEF Homes
  <2>1. win'[v] = win[v] BY <1>1, <1>2
  <2>2. OnTheWay(v)' <=> OnTheWay(v) BY <2>1 DEF OnTheWay, Conns, Listed
  <2>3. AtHome(v)' <=> AtHome(v) BY <2>1 DEF AtHome, Conns, Listed
  <2>4. /\ win[v].open /\ host.up /\ win[v].token = host.token
        /\ IF win[v].socket = None THEN OnTheWay(v) ELSE AtHome(v)
    BY <2>1 DEF Homes
  <2>. QED BY <2>1, <2>2, <2>3, <2>4
<1>7. Heard'
  <2>. SUFFICES ASSUME NEW v \in Windows, NEW t \in tasks, t.phase = "serving",
                       t.gen = win'[v].socket, t.hears, t.gen \in Conns(t.id)
                PROVE  registry[ServerOf[v]].quiet + win'[v].due <= PingInterval
    BY DEF Heard, ServingOf, Conns, Listed
  <2>1. t.gen \in Nat BY DEF Typed, Task
  <2>2. win'[v] = win[v] BY <1>1, <1>2, <2>1, NoneIsNew
  <2>. QED BY <2>2 DEF Heard, ServingOf
<1>8. Told' BY SteadyTold
<1>. QED BY <1>3, <1>4, <1>5, <1>6, <1>7, <1>8

LEMMA StartStep ==
  ASSUME IInv, Start PROVE IInv'
<1>. USE DEF IInv, Start
<1>1. launch_token_from_path \in Nat
  BY DEF launch_token_from_path, Typed
<1>2. spent' \in [opens : Nat, breaks : Nat, starts : Nat, edits : Nat] BY SpendType
<1>3. Typed' BY <1>1, <1>2 DEF Typed
<1>4. Numbered' BY DEF Numbered
<1>5. Tasked' BY DEF Tasked, Conns, Listed
<1>6. Homes' BY DEF Homes
<1>7. Heard' BY DEF Heard, ServingOf, Conns, Listed
<1>8. Told' BY SteadyTold
<1>. QED BY <1>3, <1>4, <1>5, <1>6, <1>7, <1>8

\* A window closes: only its own link ends.
LEMMA CloseStep ==
  ASSUME IInv, NEW w \in Windows, Close(w) PROVE IInv'
<1>. USE DEF IInv, Close
<1>. DEFINE ended == {t \in ServingOf(w) : t.hears}
<1>0. ended \in SUBSET tasks /\ \A t \in ended : t.win = w
  BY DEF ServingOf, Numbered
<1>. HIDE DEF ended
<1>1. tasks' = TasksEnd(ended) BY DEF ended
<1>2. /\ tasks' \in SUBSET Task
      /\ \A t \in tasks \ ended : t \in tasks'
      /\ \A u \in tasks' : \E t \in tasks :
           /\ u.gen = t.gen /\ u.win = t.win /\ u.id = t.id
           /\ u = (IF t \in ended THEN Ended(t) ELSE t)
      /\ \A u \in tasks' : u.gen < next_generation' /\ u.id = ServerOf[u.win]
      /\ \A u, v \in tasks' : u.gen = v.gen => u = v
  BY <1>0, <1>1, EndingKeepsNumbers
<1>3. \A t \in ended : Ended(t).phase = "grace" BY <1>0, EndedIs DEF Typed
<1>4. /\ win' \in [Windows -> Window]
      /\ \A v \in Windows : win'[v] = IF v = w THEN Closed ELSE win[v]
  BY ClosedType DEF Typed
<1>5. Typed' BY <1>1, <1>2, <1>4 DEF Typed
<1>6. Numbered'
  <2>1. \A t \in tasks' : t.gen \in Nat BY <1>2 DEF Task
  <2>2. \A v \in Windows : win'[v].socket = (IF v = w THEN None ELSE win[v].socket)
                           /\ (v # w => win'[v].open = win[v].open)
    BY <1>4 DEF Closed
  <2>. QED BY <1>2, <2>1, <2>2, NoneIsNew DEF Numbered
<1>7. Tasked' BY <1>0, <1>1, EndingKeepsTasked
<1>8. Homes'
  <2>. SUFFICES ASSUME NEW v \in Windows, win'[v].homed
                PROVE  /\ win'[v].open /\ host'.up /\ win'[v].token = host'.token
                       /\ IF win'[v].socket = None THEN OnTheWay(v)' ELSE AtHome(v)'
    BY DEF Homes
  <2>1. v # w /\ win'[v] = win[v] BY <1>4 DEF Closed
  <2>2. \A t \in tasks : t.win = v => t \in tasks' BY <1>0, <1>2, <2>1
  <2>. QED BY <2>1, <2>2 DEF Homes, OnTheWay, AtHome, Conns, Listed
<1>9. Heard'
  <2>. SUFFICES ASSUME NEW v \in Windows, NEW t \in tasks', t.phase = "serving",
                       t.gen = win'[v].socket, t.hears, t.gen \in Conns(t.id)
                PROVE  registry[ServerOf[v]].quiet + win'[v].due <= PingInterval
    BY DEF Heard, ServingOf, Conns, Listed
  <2>1. t \in tasks BY <1>2, <1>3
  <2>2. t.gen \in Nat BY <2>1 DEF Typed, Task
  <2>3. win'[v] = win[v] BY <1>4, <2>2, NoneIsNew DEF Closed
  <2>. QED BY <2>1, <2>3 DEF Heard, ServingOf
<1>10. Told' BY SteadyTold
<1>. QED BY <1>5, <1>6, <1>7, <1>8, <1>9, <1>10

\* What the end of one link keeps, whether its window sees it or not.
LEMMA LinkEnds ==
  ASSUME IInv, NEW t \in tasks, t.phase = "serving", tasks' = TasksEnd({t}),
         win' = SeeClose({t.gen}) \/ win' = win,
         UNCHANGED <<host, registry, next_generation, rail>>,
         spent' \in [opens : Nat, breaks : Nat, starts : Nat, edits : Nat]
  PROVE  Typed' /\ Numbered' /\ Tasked' /\ Heard' /\ Told'
<1>. USE DEF IInv
<1>1. /\ tasks' \in SUBSET Task
      /\ \A u \in tasks' : \E x \in tasks :
           /\ u.gen = x.gen /\ u.win = x.win /\ u.id = x.id
           /\ u = (IF x \in {t} THEN Ended(x) ELSE x)
      /\ \A u \in tasks' : u.gen < next_generation' /\ u.id = ServerOf[u.win]
      /\ \A u, v \in tasks' : u.gen = v.gen => u = v
  BY EndingKeepsNumbers
<1>2. t.gen \in Nat /\ None \notin {t.gen} BY NoneIsNew DEF Typed, Task
<1>3. /\ win' \in [Windows -> Window]
      /\ \A v \in Windows : win'[v] = win[v] \/ win'[v] = reconnect(win[v])
  BY <1>2, SeeCloseIs DEF Typed, Numbered
<1>4. \A v \in Windows : /\ win'[v].open = win[v].open
                         /\ win'[v] = win[v] \/ win'[v].socket = None
  BY <1>3, ReconnectIs DEF Typed
<1>5. Typed' BY <1>1, <1>3 DEF Typed
<1>6. Numbered'
  <2>1. \A u \in tasks' : u.gen # None BY <1>1, NoneIsNew DEF Task
  <2>2. \A u \in tasks' : \E x \in tasks : u.gen = x.gen /\ u.win = x.win BY <1>1
  <2>3. \A v \in Windows, u \in tasks' : u.gen = win'[v].socket => u.win = v
    <3>. SUFFICES ASSUME NEW v \in Windows, NEW u \in tasks', u.gen = win'[v].socket
                  PROVE  u.win = v
      OBVIOUS
    <3>1. u.gen = win[v].socket BY <1>4, <2>1
    <3>2. PICK x \in tasks : u.gen = x.gen /\ u.win = x.win BY <2>2
    <3>. QED BY <3>1, <3>2, ZenonT(60) DEF Numbered
  <2>4. \A v \in Windows :
          win'[v].socket # None => win'[v].open /\ win'[v].socket < next_generation'
    BY <1>4 DEF Numbered
  <2>. QED BY <1>1, <2>3, <2>4 DEF Numbered
<1>7. Tasked' BY EndingKeepsTasked
<1>8. Heard'
  <2>. SUFFICES ASSUME NEW v \in Windows, NEW u \in tasks', u.phase = "serving",
                       u.gen = win'[v].socket, u.hears, u.gen \in Conns(u.id)
                PROVE  registry[ServerOf[v]].quiet + win'[v].due <= PingInterval
    BY DEF Heard, ServingOf, Conns, Listed
  <2>1. u.gen # None BY <1>1, NoneIsNew DEF Task
  <2>2. win'[v] = win[v] BY <1>4, <2>1
  <2>3. Ended(t).phase = "grace" BY EndedIs DEF Typed
  <2>4. u \in tasks BY <1>1, <2>3
  <2>. QED BY <2>2, <2>4 DEF Heard, ServingOf
<1>9. Told' BY SteadyTold
<1>. QED BY <1>5, <1>6, <1>7, <1>8, <1>9

\* A link that breaks leaves its window on the way home.
LEMMA DropStep ==
  ASSUME IInv, NEW t \in tasks, Drop(t) PROVE IInv'
<1>. USE DEF IInv, Drop
<1>1. Typed' /\ Numbered' /\ Tasked' /\ Heard' /\ Told' BY LinkEnds, SpendType
<1>2. /\ \A x \in tasks \ {t} : x \in tasks'
      /\ Ended(t) \in tasks'
  BY EndingKeepsNumbers
<1>3. /\ Ended(t).gen = t.gen /\ Ended(t).win = t.win
      /\ Ended(t).phase = "grace" /\ Ended(t).wait = DropGrace
  BY EndedIs DEF Typed
<1>4. None \notin {t.gen} BY NoneIsNew DEF Typed, Task
<1>5. \A v \in Windows : win'[v] = IF win[v].socket = t.gen THEN reconnect(win[v]) ELSE win[v]
  BY <1>4, SeeCloseIs DEF Typed, Numbered
<1>6. Homes'
  <2>. SUFFICES ASSUME NEW v \in Windows, win'[v].homed
                PROVE  /\ win'[v].open /\ host'.up /\ win'[v].token = host'.token
                       /\ IF win'[v].socket = None THEN OnTheWay(v)' ELSE AtHome(v)'
    BY DEF Homes
  <2>1. CASE win[v].socket = t.gen
    <3>1. /\ win'[v].open = win[v].open /\ win'[v].token = win[v].token
          /\ win'[v].homed = win[v].homed /\ win'[v].socket = None
          /\ win'[v].retry = win[v].backoff
      <4>1. win[v] \in Window /\ win'[v] = reconnect(win[v]) BY <1>5, <2>1 DEF Typed
      <4>. QED BY <4>1, ReconnectIs
    <3>2. AtHome(v) BY <1>4, <2>1, <3>1 DEF Homes
    <3>3. t.win = v /\ t.gen \in Conns(ServerOf[v]) BY <2>1, <3>2 DEF AtHome, Numbered
    <3>4. DropGrace > win'[v].retry BY <3>1, <3>2, BridgeConstants DEF AtHome
    <3>5. OnTheWay(v)' BY <1>2, <1>3, <3>3, <3>4 DEF OnTheWay, Conns, Listed
    <3>. QED BY <3>1, <3>5 DEF Homes
  <2>2. CASE win[v].socket # t.gen
    <3>1. win'[v] = win[v] BY <1>5, <2>2
    <3>2. OnTheWay(v) => OnTheWay(v)'
      BY <1>2, <3>1 DEF OnTheWay, Conns, Listed
    <3>3. AtHome(v) => AtHome(v)'
      BY <1>2, <2>2, <3>1 DEF AtHome, Conns, Listed
    <3>. QED BY <3>1, <3>2, <3>3 DEF Homes
  <2>. QED BY <2>1, <2>2
<1>. QED BY <1>1, <1>6

\* A link the registry has let go is nobody's home.
LEMMA OrphanStep ==
  ASSUME IInv, NEW t \in tasks, OrphanEnds(t) PROVE IInv'
<1>. USE DEF IInv, OrphanEnds, Orphaned
<1>1. Typed' /\ Numbered' /\ Tasked' /\ Heard' /\ Told'
  <2>1. spent' \in [opens : Nat, breaks : Nat, starts : Nat, edits : Nat] BY DEF Typed
  <2>. QED BY <2>1, LinkEnds
<1>2. \A x \in tasks \ {t} : x \in tasks' BY EndingKeepsNumbers
<1>4. None \notin {t.gen} BY NoneIsNew DEF Typed, Task
<1>5. \A v \in Windows : win[v].socket # t.gen => win'[v] = win[v]
  BY <1>4, SeeCloseIs DEF Typed, Numbered
<1>6. \A v \in Windows : win'[v].homed = win[v].homed
  BY <1>4, SeeCloseIs, ReconnectIs DEF Typed, Numbered
<1>7. Homes'
  <2>. SUFFICES ASSUME NEW v \in Windows, win'[v].homed
                PROVE  /\ win'[v].open /\ host'.up /\ win'[v].token = host'.token
                       /\ IF win'[v].socket = None THEN OnTheWay(v)' ELSE AtHome(v)'
    BY DEF Homes
  <2>1. \A x \in tasks : x.win = v /\ x.gen \in Conns(ServerOf[v]) => x # t BY DEF Numbered
  <2>2. win[v].socket # t.gen
    BY <1>4, <1>6, <2>1 DEF Homes, AtHome, Numbered
  <2>3. win'[v] = win[v] BY <1>5, <2>2
  <2>4. OnTheWay(v) => OnTheWay(v)' BY <1>2, <2>1, <2>3 DEF OnTheWay, Conns, Listed
  <2>5. AtHome(v) => AtHome(v)' BY <1>2, <2>1, <2>3 DEF AtHome, Conns, Listed
  <2>. QED BY <2>3, <2>4, <2>5 DEF Homes
<1>. QED BY <1>1, <1>7

LEMMA SilenceStep ==
  ASSUME IInv, NEW t \in tasks, Silence(t) PROVE IInv'
<1>. USE DEF IInv, Silence
<1>. DEFINE mute == [t EXCEPT !.hears = FALSE]
<1>1. /\ mute \in Task /\ mute.gen = t.gen /\ mute.win = t.win /\ mute.id = t.id
      /\ mute.phase = "serving" /\ ~mute.hears
  BY DEF Typed, Task
<1>2. tasks' = (tasks \ {t}) \cup {mute} OBVIOUS
<1>. HIDE DEF mute
<1>3. Typed' BY <1>1, <1>2, SpendType DEF Typed
<1>4. \A u \in tasks' : u \in tasks \/ (u = mute /\ u \notin tasks) BY <1>2
<1>5. Numbered'
  <2>1. \A u \in tasks' : u.gen < next_generation /\ u.id = ServerOf[u.win]
    BY <1>1, <1>2 DEF Numbered
  <2>2. \A u, v \in tasks' : u.gen = v.gen => u = v
    BY <1>1, <1>2 DEF Numbered
  <2>3. \A v \in Windows, u \in tasks' : u.gen = win[v].socket => u.win = v
    BY <1>1, <1>2 DEF Numbered
  <2>. QED BY <2>1, <2>2, <2>3 DEF Numbered
<1>6. Tasked' BY <1>1, <1>2 DEF Tasked, Conns, Listed
<1>7. Homes'
  <2>. SUFFICES ASSUME NEW v \in Windows, win[v].homed
                PROVE  /\ win[v].open /\ host.up /\ win[v].token = host.token
                       /\ IF win[v].socket = None THEN OnTheWay(v)' ELSE AtHome(v)'
    BY DEF Homes
  <2>1. OnTheWay(v) => OnTheWay(v)' BY <1>1, <1>2 DEF OnTheWay, Conns, Listed
  <2>2. AtHome(v) => AtHome(v)' BY <1>1, <1>2 DEF AtHome, Conns, Listed
  <2>. QED BY <2>1, <2>2 DEF Homes
<1>8. Heard' BY <1>1, <1>2 DEF Heard, ServingOf, Conns, Listed
<1>9. Told' BY SteadyTold
<1>. QED BY <1>3, <1>5, <1>6, <1>7, <1>8, <1>9

\* A window without a working link reconnects.
LEMMA NoticeStep ==
  ASSUME IInv, NEW w \in Windows, Notice(w) PROVE IInv'
<1>. USE DEF IInv, Notice
<1>1. /\ reconnect(win[w]) \in Window /\ reconnect(win[w]).open = win[w].open
      /\ reconnect(win[w]).token = win[w].token /\ reconnect(win[w]).socket = None
      /\ reconnect(win[w]).homed = win[w].homed
  BY ReconnectIs DEF Typed
<1>2. /\ win' \in [Windows -> Window]
      /\ \A v \in Windows : win'[v] = IF v = w THEN reconnect(win[w]) ELSE win[v]
  BY <1>1 DEF Typed
<1>3. Typed' BY <1>2 DEF Typed
<1>4. Numbered'
  <2>1. \A t \in tasks : t.gen # None BY NoneIsNew DEF Typed, Task
  <2>. QED BY <1>1, <1>2, <2>1 DEF Numbered
<1>5. Tasked' BY DEF Tasked, Conns, Listed
<1>6. Homes'
  <2>. SUFFICES ASSUME NEW v \in Windows, win'[v].homed
                PROVE  /\ win'[v].open /\ host'.up /\ win'[v].token = host'.token
                       /\ IF win'[v].socket = None THEN OnTheWay(v)' ELSE AtHome(v)'
    BY DEF Homes
  <2>1. CASE v # w
    <3>1. win'[v] = win[v] BY <1>2, <2>1
    <3>. QED BY <3>1 DEF Homes, OnTheWay, AtHome, Conns, Listed
  <2>2. CASE v = w
    <3>1. /\ win'[v].open = win[v].open /\ win'[v].token = win[v].token
          /\ win'[v].socket = None /\ win[v].homed
      BY <1>1, <1>2, <2>2
    <3>2. PICK t \in tasks : /\ t.win = v /\ t.gen = win[v].socket /\ t.phase = "serving"
                             /\ t.gen \in Conns(ServerOf[v])
      BY <2>2, <3>1 DEF Homes, AtHome
    <3>3. ~t.hears BY <2>2, <3>2 DEF ServingOf
    <3>4. OnTheWay(v)' BY <3>2, <3>3 DEF OnTheWay, Conns, Listed
    <3>. QED BY <3>1, <3>4 DEF Homes
  <2>. QED BY <2>1, <2>2
<1>7. Heard'
  <2>. SUFFICES ASSUME NEW v \in Windows, NEW t \in tasks, t.phase = "serving",
                       t.gen = win'[v].socket, t.hears, t.gen \in Conns(t.id)
                PROVE  registry[ServerOf[v]].quiet + win'[v].due <= PingInterval
    BY DEF Heard, ServingOf, Conns, Listed
  <2>1. t.gen # None BY NoneIsNew DEF Typed, Task
  <2>2. win'[v] = win[v] BY <1>1, <1>2, <2>1
  <2>. QED BY <2>2 DEF Heard, ServingOf
<1>8. Told' BY SteadyTold
<1>. QED BY <1>3, <1>4, <1>5, <1>6, <1>7, <1>8

LEMMA ConnectFailsStep ==
  ASSUME IInv, NEW w \in Windows, ConnectFails(w) PROVE IInv'
<1>. USE DEF IInv, ConnectFails
<1>1. /\ reconnect(win[w]) \in Window /\ reconnect(win[w]).open = win[w].open
      /\ reconnect(win[w]).socket = None /\ reconnect(win[w]).homed = win[w].homed
  BY ReconnectIs DEF Typed
<1>2. /\ win' \in [Windows -> Window]
      /\ \A v \in Windows : win'[v] = IF v = w THEN reconnect(win[w]) ELSE win[v]
  BY <1>1 DEF Typed
<1>3. Typed' BY <1>2 DEF Typed
<1>4. \A t \in tasks : t.gen # None BY NoneIsNew DEF Typed, Task
<1>5. Numbered' BY <1>1, <1>2, <1>4 DEF Numbered
<1>6. Tasked' BY DEF Tasked, Conns, Listed
<1>7. Homes' BY <1>1, <1>2 DEF Homes
<1>8. Heard'
  <2>. SUFFICES ASSUME NEW v \in Windows, NEW t \in tasks, t.phase = "serving",
                       t.gen = win'[v].socket, t.hears, t.gen \in Conns(t.id)
                PROVE  registry[ServerOf[v]].quiet + win'[v].due <= PingInterval
    BY DEF Heard, ServingOf, Conns, Listed
  <2>1. win'[v] = win[v] BY <1>1, <1>2, <1>4
  <2>. QED BY <2>1 DEF Heard, ServingOf
<1>9. Told' BY SteadyTold
<1>. QED BY <1>3, <1>5, <1>6, <1>7, <1>8, <1>9

\* The end of the host takes everyone's home.
LEMMA StopStep ==
  ASSUME IInv, Stop PROVE IInv'
<1>. USE DEF IInv, Stop
<1>. DEFINE gens == {t.gen : t \in {x \in tasks : x.hears}}
<1>1. None \notin gens BY NoneIsNew DEF Typed, Task
<1>2. /\ SeeClose(gens) \in [Windows -> Window]
      /\ \A v \in Windows : /\ win[v].socket \notin gens => SeeClose(gens)[v] = win[v]
                            /\ win[v].socket \in gens => SeeClose(gens)[v] = reconnect(win[v])
  BY <1>1, SeeCloseIs DEF Typed, Numbered
<1>. HIDE DEF gens
<1>3. \A v \in Windows : [SeeClose(gens)[v] EXCEPT !.homed = FALSE] \in Window
                          /\ ~[SeeClose(gens)[v] EXCEPT !.homed = FALSE].homed
                          /\ [SeeClose(gens)[v] EXCEPT !.homed = FALSE].socket = SeeClose(gens)[v].socket
                          /\ [SeeClose(gens)[v] EXCEPT !.homed = FALSE].open = SeeClose(gens)[v].open
  BY <1>2 DEF Window
<1>4. /\ win' \in [Windows -> Window]
      /\ \A v \in Windows : /\ ~win'[v].homed
                            /\ win'[v].socket = SeeClose(gens)[v].socket
                            /\ win'[v].open = SeeClose(gens)[v].open
  BY <1>3 DEF gens
<1>5. \A v \in Windows : /\ SeeClose(gens)[v].open = win[v].open
                         /\ SeeClose(gens)[v].socket = None \/ SeeClose(gens)[v].socket = win[v].socket
  BY <1>2, ReconnectIs DEF Typed
<1>6. Typed' BY <1>4 DEF Typed, Empty
<1>7. Numbered'
  <2>1. \A v \in Windows : win'[v].open = win[v].open
                           /\ (win'[v].socket # None => win'[v].socket = win[v].socket)
    BY <1>4, <1>5
  <2>. QED BY <2>1 DEF Numbered
<1>8. Tasked' BY DEF Tasked, Empty, Listed
<1>9. Homes' BY <1>4 DEF Homes
<1>10. Heard' BY DEF Heard, ServingOf
<1>11. Told'
  <2>1. registry' = Empty /\ rail' = [list |-> Empty, unheard |-> 0] BY DEF Stop
  <2>2. servers(registry)' = servers(registry') BY DEF servers
  <2>. QED BY <2>1, <2>2, EmptyList DEF Told, RailIsTold, RailRecord
<1>. QED BY <1>6, <1>7, <1>8, <1>9, <1>10, <1>11

\* What a change of the registry keeps that leaves each entry its connections
\* or takes it with the homes of its windows.
LEMMA EntriesGo ==
  ASSUME IInv, registry' \in [ServerIds -> Entry \cup {None}],
         \A s \in ServerIds : registry'[s] # None =>
           /\ registry[s] # None
           /\ registry'[s].conns = registry[s].conns /\ registry'[s].quiet = registry[s].quiet,
         win' \in [Windows -> Window],
         \A w \in Windows :
           /\ win'[w] = win[w] \/ win'[w] = [win[w] EXCEPT !.homed = FALSE]
           /\ win'[w].homed => registry'[ServerOf[w]] # None,
         Told',
         UNCHANGED <<host, tasks, next_generation>>,
         spent' \in [opens : Nat, breaks : Nat, starts : Nat, edits : Nat]
  PROVE  IInv'
<1>. USE DEF IInv
<1>1. \A w \in Windows : /\ win'[w].socket = win[w].socket /\ win'[w].open = win[w].open
                         /\ win'[w].due = win[w].due
                         /\ win'[w].homed => win'[w] = win[w]
  <2>. SUFFICES ASSUME NEW w \in Windows
                PROVE  /\ win'[w].socket = win[w].socket /\ win'[w].open = win[w].open
                       /\ win'[w].due = win[w].due
                       /\ win'[w].homed => win'[w] = win[w]
    OBVIOUS
  <2>1. win[w] \in Window BY DEF Typed
  <2>. QED BY <2>1 DEF Window
<1>2. \A s \in ServerIds : registry'[s] # None => Conns(s)' = Conns(s)
  BY DEF Conns, Listed
<1>3. \A s \in ServerIds : registry'[s] = None => Conns(s)' = {}
  BY DEF Conns, Listed
<1>4. Typed' BY DEF Typed
<1>5. Numbered' BY <1>1 DEF Numbered
<1>6. Tasked' BY <1>2 DEF Tasked, Listed
<1>7. Homes'
  <2>. SUFFICES ASSUME NEW v \in Windows, win'[v].homed
                PROVE  /\ win'[v].open /\ host'.up /\ win'[v].token = host'.token
                       /\ IF win'[v].socket = None THEN OnTheWay(v)' ELSE AtHome(v)'
    BY DEF Homes
  <2>1. win'[v] = win[v] BY <1>1
  <2>2. Conns(ServerOf[v])' = Conns(ServerOf[v]) BY <1>2, ServerOfType
  <2>. QED BY <2>1, <2>2 DEF Homes, OnTheWay, AtHome
<1>8. Heard'
  <2>. SUFFICES ASSUME NEW v \in Windows, NEW t \in tasks, t.phase = "serving",
                       t.gen = win'[v].socket, t.hears, t.gen \in Conns(t.id)'
                PROVE  registry'[ServerOf[v]].quiet + win'[v].due <= PingInterval
    BY DEF Heard, ServingOf
  <2>1. t.gen = win[v].socket BY <1>1
  <2>2. t.id = ServerOf[v] /\ t.id \in ServerIds BY <2>1, ServerOfType DEF Numbered
  <2>3. registry'[t.id] # None BY <1>3, <2>2
  <2>4. t.gen \in Conns(t.id) BY <1>2, <2>2, <2>3
  <2>5. registry[ServerOf[v]].quiet + win[v].due <= PingInterval
    BY <2>1, <2>4 DEF Heard, ServingOf
  <2>. QED BY <1>1, <2>2, <2>3, <2>5
<1>. QED BY <1>4, <1>5, <1>6, <1>7, <1>8

\* The home of a window is in the registry.
LEMMA HomedIsListed ==
  ASSUME IInv, NEW w \in Windows, win[w].homed PROVE registry[ServerOf[w]] # None
<1>1. Conns(ServerOf[w]) # {} BY DEF IInv, Homes, OnTheWay, AtHome
<1>. QED BY <1>1 DEF Conns, Listed

LEMMA HomelessIs ==
  ASSUME IInv, NEW gone
  PROVE  /\ Homeless(gone) \in [Windows -> Window]
         /\ \A w \in Windows :
              /\ Homeless(gone)[w] = win[w] \/ Homeless(gone)[w] = [win[w] EXCEPT !.homed = FALSE]
              /\ Homeless(gone)[w].homed => win[w].homed /\ ServerOf[w] \notin gone
<1>1. \A w \in Windows : win[w] \in Window BY DEF IInv, Typed
<1>2. \A w \in Windows : [win[w] EXCEPT !.homed = FALSE] \in Window
                         /\ ~[win[w] EXCEPT !.homed = FALSE].homed
  BY <1>1 DEF Window
<1>. QED BY <1>1, <1>2 DEF Homeless

LEMMA ReapStep ==
  ASSUME IInv, reap_stale PROVE IInv'
<1>. DEFINE gone == {s \in ServerIds : Stale(s)}
<1>1. /\ Told'
      /\ registry' = [s \in ServerIds |-> IF Stale(s) THEN None ELSE registry[s]]
  <2>. DEFINE after == [s \in ServerIds |-> IF Stale(s) THEN None ELSE registry[s]]
  <2>1. Told /\ Becomes(after, TRUE) BY DEF reap_stale, IInv
  <2>. HIDE DEF after
  <2>2. Told' /\ registry' = after BY <2>1, BecomesTold
  <2>. QED BY <2>2 DEF after
<1>2. registry' \in [ServerIds -> Entry \cup {None}] BY <1>1 DEF IInv, Typed
<1>3. win' = Homeless(gone) BY DEF reap_stale
<1>4. \A w \in Windows : win'[w].homed => registry'[ServerOf[w]] # None
  BY <1>1, <1>3, HomelessIs, HomedIsListed, ServerOfType
<1>5. UNCHANGED <<host, tasks, next_generation>>
      /\ spent' \in [opens : Nat, breaks : Nat, starts : Nat, edits : Nat]
  BY DEF reap_stale, IInv, Typed
<1>6. \A s \in ServerIds : registry'[s] # None => registry'[s] = registry[s] BY <1>1
<1>7. /\ win' \in [Windows -> Window]
      /\ \A w \in Windows : win'[w] = win[w] \/ win'[w] = [win[w] EXCEPT !.homed = FALSE]
  BY <1>3, HomelessIs
<1>. QED BY <1>1, <1>2, <1>4, <1>5, <1>6, <1>7, EntriesGo

LEMMA ForgetStep ==
  ASSUME IInv, NEW s \in ServerIds, forget(s) PROVE IInv'
<1>1. Told' /\ registry' = [registry EXCEPT ![s] = None]
  <2>. DEFINE after == [registry EXCEPT ![s] = None]
  <2>1. Told /\ Becomes(after, TRUE) BY DEF forget, IInv
  <2>. HIDE DEF after
  <2>2. Told' /\ registry' = after BY <2>1, BecomesTold
  <2>. QED BY <2>2 DEF after
<1>2. registry' \in [ServerIds -> Entry \cup {None}] BY <1>1 DEF IInv, Typed
<1>3. \A x \in ServerIds : registry'[x] = IF x = s THEN None ELSE registry[x]
  BY <1>1 DEF IInv, Typed
<1>4. win' = Homeless({s}) BY DEF forget
<1>5. \A w \in Windows : win'[w].homed => registry'[ServerOf[w]] # None
  BY <1>3, <1>4, HomelessIs, HomedIsListed, ServerOfType
<1>6. UNCHANGED <<host, tasks, next_generation>>
      /\ spent' \in [opens : Nat, breaks : Nat, starts : Nat, edits : Nat]
  BY SpendType DEF forget, IInv
<1>7. \A x \in ServerIds : registry'[x] # None => registry'[x] = registry[x] BY <1>3
<1>8. /\ win' \in [Windows -> Window]
      /\ \A w \in Windows : win'[w] = win[w] \/ win'[w] = [win[w] EXCEPT !.homed = FALSE]
  BY <1>4, HomelessIs
<1>. QED BY <1>1, <1>2, <1>5, <1>6, <1>7, <1>8, EntriesGo

LEMMA RenameStep ==
  ASSUME IInv, NEW s \in ServerIds, rename(s) PROVE IInv'
<1>. DEFINE named == [registry[s] EXCEPT !.label = "renamed", !.renamed = TRUE]
<1>1. Told' /\ registry' = [registry EXCEPT ![s] = named]
  <2>. DEFINE after == [registry EXCEPT ![s] = named]
  <2>1. registry[s] \in Entry BY DEF rename, Listed, IInv, Typed
  <2>2. [registry EXCEPT ![s].label = "renamed", ![s].renamed = TRUE] = after
    BY <2>1 DEF IInv, Typed
  <2>3. Told /\ Becomes(after, TRUE) BY <2>2 DEF rename, IInv
  <2>. HIDE DEF after
  <2>4. Told' /\ registry' = after BY <2>3, BecomesTold
  <2>. QED BY <2>4 DEF after
<1>2. registry[s] \in Entry BY DEF rename, Listed, IInv, Typed
<1>3. named \in Entry /\ named.conns = registry[s].conns /\ named.quiet = registry[s].quiet
  <2>1. "renamed" \in Labels BY DEF Labels
  <2>2. named.conns = registry[s].conns /\ named.quiet = registry[s].quiet
    BY <1>2 DEF Entry
  <2>3. named \in Entry BY <1>2, <2>1 DEF Entry
  <2>. QED BY <2>2, <2>3
<1>. HIDE DEF named
<1>4. /\ registry' \in [ServerIds -> Entry \cup {None}]
      /\ \A x \in ServerIds : registry'[x] = IF x = s THEN named ELSE registry[x]
  BY <1>1, <1>3 DEF IInv, Typed
<1>5. /\ UNCHANGED <<host, tasks, next_generation, win>>
      /\ spent' \in [opens : Nat, breaks : Nat, starts : Nat, edits : Nat]
  BY SpendType DEF rename, IInv
<1>6. \A x \in ServerIds : registry'[x] # None =>
        /\ registry[x] # None
        /\ registry'[x].conns = registry[x].conns /\ registry'[x].quiet = registry[x].quiet
  BY <1>2, <1>3, <1>4, NoneIsNew
<1>7. \A w \in Windows : win'[w].homed => registry'[ServerOf[w]] # None
  BY <1>3, <1>4, <1>5, HomedIsListed, ServerOfType, NoneIsNew
<1>8. win' \in [Windows -> Window] /\ \A w \in Windows : win'[w] = win[w]
  BY <1>5 DEF IInv, Typed
<1>. QED BY <1>1, <1>4, <1>5, <1>6, <1>7, <1>8, EntriesGo

\* A window that connects is home, or is turned away and was not home.
LEMMA ConnectStep ==
  ASSUME IInv, NEW w \in Windows, Connect(w) PROVE IInv'
<1>. DEFINE s == ServerOf[w]
            n == next_generation
            new == [gen |-> n, win |-> w, id |-> s, phase |-> "serving",
                    wait |-> 0, hears |-> TRUE]
<1>0. /\ s \in ServerIds /\ n \in Nat /\ win[w] \in Window /\ Due(w) /\ host.up
      /\ UNCHANGED <<host, spent>>
      /\ \A t \in tasks : t.gen # None /\ t.gen # n
  BY ServerOfType, NoneIsNew DEF Connect, IInv, Typed, Numbered, Task
<1>1. CASE win[w].token = host.token
  <2>. DEFINE home == [win[w] EXCEPT !.socket = n, !.backoff = BackoffStart,
                                     !.due = PingInterval, !.homed = TRUE]
              entry == register(s, n, LabelOf[w])
  <2>1. /\ win' = [win EXCEPT ![w] = home]
        /\ tasks' = tasks \cup {new}
        /\ next_generation' = n + 1
        /\ Told' /\ registry' = [registry EXCEPT ![s] = entry]
    <3>. DEFINE after == [registry EXCEPT ![s] = entry]
                changed == register_changes(s, LabelOf[w])
    <3>1. registry \in [ServerIds -> Entry \cup {None}] /\ Told BY DEF IInv, Typed
    <3>2. /\ win' = [win EXCEPT ![w] = home]
          /\ tasks' = tasks \cup {new}
          /\ next_generation' = n + 1
          /\ Becomes(after, changed)
      BY <1>1 DEF Connect, IInv, Typed
    <3>3. changed \in BOOLEAN
      <4>1. Listed(s) => registry[s].renamed \in BOOLEAN BY <1>0, <3>1 DEF Listed, Entry
      <4>. QED BY <4>1 DEF register_changes, Listed
    <3>4. changed \/ servers(after) = servers(registry) BY <1>0, <3>1, RegisterTells
    <3>. HIDE DEF after, changed
    <3>5. Told' /\ registry' = after BY <3>1, <3>2, <3>3, <3>4, BecomesTold
    <3>. QED BY <3>2, <3>5 DEF after
  <2>2. /\ home \in Window /\ home.open /\ home.token = host.token /\ home.socket = n
        /\ home.backoff = BackoffStart /\ home.due = PingInterval /\ home.homed
    <3>1. BackoffStart \in 1..BackoffMax /\ PingInterval \in 0..PingInterval
      BY BridgeConstants
    <3>. QED BY <1>0, <1>1, <3>1 DEF Due, Window
  <2>3. /\ new \in Task /\ new.gen = n /\ new.win = w /\ new.id = s /\ new.phase = "serving"
    <3>1. 0 \in 0..DropGrace /\ "serving" \in {"serving", "grace"} BY BridgeConstants
    <3>. QED BY <1>0, <3>1 DEF Task
  <2>4. entry \in Entry /\ entry.conns = Conns(s) \cup {n} /\ entry.quiet = 0
    <3>1. registry \in [ServerIds -> Entry \cup {None}] BY DEF IInv, Typed
    <3>. QED BY ONLY <1>0, <3>1, RegisterIs
  <2>. HIDE DEF home, entry, new
  <2>5. \A v \in Windows : win'[v] = IF v = w THEN home ELSE win[v]
    BY <2>1 DEF IInv, Typed
  <2>6. \A x \in ServerIds : registry'[x] = IF x = s THEN entry ELSE registry[x]
    BY <2>1 DEF IInv, Typed
  <2>7. \A x \in ServerIds : Conns(x)' = IF x = s THEN Conns(x) \cup {n} ELSE Conns(x)
    BY <2>4, <2>6, NoneIsNew DEF Conns, Listed
  <2>8. Typed'
    <3>1. win' \in [Windows -> Window] BY <2>1, <2>2 DEF IInv, Typed
    <3>2. tasks' \in SUBSET Task BY <2>1, <2>3 DEF IInv, Typed
    <3>3. registry' \in [ServerIds -> Entry \cup {None}] BY <2>1, <2>4 DEF IInv, Typed
    <3>. QED BY <1>0, <2>1, <3>1, <3>2, <3>3 DEF IInv, Typed
  <2>9. Numbered'
    <3>1. \A t \in tasks' : t.gen < n + 1 /\ t.id = ServerOf[t.win]
      BY <1>0, <2>1, <2>3 DEF IInv, Numbered, Typed, Task
    <3>2. \A t, u \in tasks' : t.gen = u.gen => t = u
      BY <1>0, <2>1, <2>3 DEF IInv, Numbered
    <3>3. \A v \in Windows : win'[v].socket # None => win'[v].open /\ win'[v].socket < n + 1
      <4>. SUFFICES ASSUME NEW v \in Windows, win'[v].socket # None
                    PROVE  win'[v].open /\ win'[v].socket < n + 1
        OBVIOUS
      <4>1. CASE v = w BY <1>0, <2>2, <2>5, <4>1
      <4>2. CASE v # w
        <5>1. win'[v] = win[v] BY <2>5, <4>2
        <5>2. win[v].socket \in Nat BY <5>1 DEF IInv, Typed, Window
        <5>. QED BY <1>0, <5>1, <5>2 DEF IInv, Numbered
      <4>. QED BY <4>1, <4>2
    <3>4. \A v \in Windows, t \in tasks' : t.gen = win'[v].socket => t.win = v
      <4>. SUFFICES ASSUME NEW v \in Windows, NEW t \in tasks', t.gen = win'[v].socket
                    PROVE  t.win = v
        OBVIOUS
      <4>1. CASE v = w BY <1>0, <2>1, <2>2, <2>3, <2>5, <4>1
      <4>2. CASE v # w
        <5>1. win'[v] = win[v] BY <2>5, <4>2
        <5>2. t.gen # None BY <1>0, <2>1, <2>3, NoneIsNew
        <5>3. win[v].socket < n BY <5>1, <5>2 DEF IInv, Numbered
        <5>4. t \in tasks BY <1>0, <2>1, <2>3, <5>1, <5>3
        <5>. QED BY <5>1, <5>4 DEF IInv, Numbered
      <4>. QED BY <4>1, <4>2
    <3>. QED BY <2>1, <3>1, <3>2, <3>3, <3>4 DEF Numbered
  <2>10. Tasked'
    <3>. SUFFICES ASSUME NEW x \in ServerIds, Listed(x)'
                  PROVE  /\ Conns(x)' # {}
                         /\ \A g \in Conns(x)' : \E t \in tasks' : t.gen = g /\ t.id = x
      BY DEF Tasked
    <3>1. CASE x = s
      <4>1. \A g \in Conns(s) : \E t \in tasks : t.gen = g /\ t.id = s
        BY <1>0 DEF IInv, Tasked, Conns
      <4>. QED BY <2>1, <2>3, <2>7, <3>1, <4>1
    <3>2. CASE x # s
      <4>1. Listed(x) BY <2>6, <3>2 DEF Listed
      <4>. QED BY <2>1, <2>7, <3>2, <4>1 DEF IInv, Tasked
    <3>. QED BY <3>1, <3>2
  <2>11. Homes'
    <3>. SUFFICES ASSUME NEW v \in Windows, win'[v].homed
                  PROVE  /\ win'[v].open /\ host'.up /\ win'[v].token = host'.token
                         /\ IF win'[v].socket = None THEN OnTheWay(v)' ELSE AtHome(v)'
      BY DEF Homes
    <3>1. CASE v = w
      <4>1. n \in Conns(s)' BY <1>0, <2>7
      <4>2. AtHome(w)' BY <2>1, <2>2, <2>3, <2>5, <4>1 DEF AtHome
      <4>. QED BY <1>0, <2>2, <2>5, <3>1, <4>2, NoneIsNew
    <3>2. CASE v # w
      <4>1. win'[v] = win[v] BY <2>5, <3>2
      <4>2. Conns(ServerOf[v]) \subseteq Conns(ServerOf[v])' BY <2>7, ServerOfType
      <4>3. tasks \subseteq tasks' BY <2>1
      <4>. QED BY <1>0, <4>1, <4>2, <4>3 DEF IInv, Homes, OnTheWay, AtHome
    <3>. QED BY <3>1, <3>2
  <2>12. Heard'
    <3>. SUFFICES ASSUME NEW v \in Windows, NEW t \in tasks', t.phase = "serving",
                         t.gen = win'[v].socket, t.hears, t.gen \in Conns(t.id)'
                  PROVE  registry'[ServerOf[v]].quiet + win'[v].due <= PingInterval
      BY DEF Heard, ServingOf
    <3>1. CASE ServerOf[v] = s
      <4>1. registry'[ServerOf[v]].quiet = 0 BY <1>0, <2>4, <2>6, <3>1
      <4>2. win'[v].due \in 0..PingInterval BY <2>8 DEF Typed, Window
      <4>. QED BY <4>1, <4>2, BridgeConstants
    <3>2. CASE ServerOf[v] # s
      <4>1. v # w /\ win'[v] = win[v] BY <2>5, <3>2
      <4>2. t.win = v /\ t.id = ServerOf[v] BY <2>9 DEF Numbered
      <4>3. t \in tasks BY <2>1, <2>3, <4>1, <4>2
      <4>4. t.gen \in Conns(t.id) BY <2>7, <3>2, <4>2, ServerOfType
      <4>5. registry'[ServerOf[v]] = registry[ServerOf[v]] BY <2>6, <3>2, ServerOfType
      <4>. QED BY <4>1, <4>3, <4>4, <4>5 DEF IInv, Heard, ServingOf
    <3>. QED BY <3>1, <3>2
  <2>. QED BY <2>1, <2>8, <2>9, <2>10, <2>11, <2>12 DEF IInv
<1>2. CASE win[w].token # host.token
  <2>. DEFINE away == reconnect([win[w] EXCEPT !.backoff = BackoffStart])
  <2>1. /\ win' = [win EXCEPT ![w] = away]
        /\ UNCHANGED <<registry, next_generation, tasks, rail>>
    BY <1>2 DEF Connect, IInv, Typed
  <2>2. away \in Window /\ away.open = win[w].open /\ away.socket = None /\ away.homed = win[w].homed
    <3>1. BackoffStart \in 1..BackoffMax BY BridgeConstants
    <3>. DEFINE x == [win[w] EXCEPT !.backoff = BackoffStart]
    <3>2. x \in Window /\ x.open = win[w].open /\ x.homed = win[w].homed
      BY <1>0, <3>1 DEF Window
    <3>. HIDE DEF x
    <3>3. /\ reconnect(x) \in Window /\ reconnect(x).open = x.open
          /\ reconnect(x).socket = None /\ reconnect(x).homed = x.homed
      BY <3>2, ReconnectIs
    <3>. QED BY <3>2, <3>3 DEF x
  <2>. HIDE DEF away
  <2>3. \A v \in Windows : win'[v] = IF v = w THEN away ELSE win[v]
    BY <2>1 DEF IInv, Typed
  <2>4. Typed' BY <1>0, <2>1, <2>2 DEF IInv, Typed
  <2>5. Numbered' BY <1>0, <2>1, <2>2, <2>3 DEF IInv, Numbered
  <2>6. Tasked' BY <2>1 DEF IInv, Tasked, Conns, Listed
  <2>7. Homes'
    <3>. SUFFICES ASSUME NEW v \in Windows, win'[v].homed
                  PROVE  /\ win'[v].open /\ host'.up /\ win'[v].token = host'.token
                         /\ IF win'[v].socket = None THEN OnTheWay(v)' ELSE AtHome(v)'
      BY DEF Homes
    <3>1. win'[v] = win[v] BY <1>2, <2>2, <2>3 DEF IInv, Homes
    <3>. QED BY <1>0, <2>1, <3>1 DEF IInv, Homes, OnTheWay, AtHome, Conns, Listed
  <2>8. Heard'
    <3>. SUFFICES ASSUME NEW v \in Windows, NEW t \in tasks, t.phase = "serving",
                         t.gen = win'[v].socket, t.hears, t.gen \in Conns(t.id)
                  PROVE  registry[ServerOf[v]].quiet + win'[v].due <= PingInterval
      BY <2>1 DEF Heard, ServingOf, Conns, Listed
    <3>1. win'[v] = win[v] BY <1>0, <2>2, <2>3
    <3>. QED BY <3>1 DEF IInv, Heard, ServingOf
  <2>9. Told' BY <2>1, SteadyTold DEF IInv
  <2>. QED BY <2>4, <2>5, <2>6, <2>7, <2>8, <2>9 DEF IInv
<1>. QED BY <1>1, <1>2

LEMMA TouchIs ==
  ASSUME registry \in [ServerIds -> Entry \cup {None}], NEW s \in ServerIds
  PROVE  /\ touch(s) \in Entry \cup {None} /\ (touch(s) = None <=> registry[s] = None)
         /\ Listed(s) => /\ touch(s).conns = registry[s].conns /\ touch(s).quiet = 0
                         /\ touch(s).label = registry[s].label
<1>1. 0 \in 0..(LivenessTimeout + 1) BY BridgeConstants
<1>2. CASE Listed(s)
  <2>1. registry[s] \in Entry BY <1>2 DEF Listed
  <2>2. touch(s) = [registry[s] EXCEPT !.quiet = 0] BY <1>2 DEF touch
  <2>3. touch(s) \in Entry BY <1>1, <2>1, <2>2 DEF Entry
  <2>. QED BY <1>2, <2>1, <2>2, <2>3, NoneIsNew DEF Entry, Listed
<1>3. CASE ~Listed(s) BY <1>3 DEF touch, Listed
<1>. QED BY <1>2, <1>3

\* A heartbeat that is heard starts the silence of its server anew.
LEMMA PingStep ==
  ASSUME IInv, NEW w \in Windows, Ping(w) PROVE IInv'
<1>. USE DEF IInv
<1>. DEFINE heard == {t.id : t \in {x \in ServingOf(w) : x.hears}}
            pinged == [win[w] EXCEPT !.due = PingInterval]
<1>1. /\ UNCHANGED <<host, next_generation, tasks, rail, spent>>
      /\ win' = [win EXCEPT ![w] = pinged]
      /\ registry' = [s \in ServerIds |-> IF s \in heard THEN touch(s) ELSE registry[s]]
  BY DEF Ping, Typed
<1>2. /\ pinged \in Window /\ pinged.open = win[w].open /\ pinged.token = win[w].token
      /\ pinged.socket = win[w].socket /\ pinged.retry = win[w].retry
      /\ pinged.backoff = win[w].backoff /\ pinged.homed = win[w].homed
      /\ pinged.due = PingInterval
  <2>1. win[w] \in Window /\ PingInterval \in 0..PingInterval BY BridgeConstants DEF Typed
  <2>. QED BY <2>1 DEF Window
<1>. HIDE DEF pinged
<1>3. \A v \in Windows :
        /\ win'[v] = IF v = w THEN pinged ELSE win[v]
        /\ win'[v].open = win[v].open /\ win'[v].token = win[v].token
        /\ win'[v].socket = win[v].socket /\ win'[v].retry = win[v].retry
        /\ win'[v].backoff = win[v].backoff /\ win'[v].homed = win[v].homed
  BY <1>1, <1>2 DEF Typed
<1>4. /\ registry' \in [ServerIds -> Entry \cup {None}]
      /\ \A s \in ServerIds :
           /\ registry'[s] = None <=> registry[s] = None
           /\ Listed(s) => /\ registry'[s].conns = registry[s].conns
                           /\ registry'[s].label = registry[s].label
                           /\ s \in heard => registry'[s].quiet = 0
                           /\ s \notin heard => registry'[s].quiet = registry[s].quiet
  BY <1>1, TouchIs DEF Typed
<1>. HIDE DEF heard
<1>5. \A s \in ServerIds : Conns(s)' = Conns(s) BY <1>4 DEF Conns, Listed
<1>6. Typed'
  <2>1. win' \in [Windows -> Window] BY <1>1, <1>2 DEF Typed
  <2>. QED BY <1>1, <1>4, <2>1 DEF Typed
<1>7. Numbered' BY <1>1, <1>3 DEF Numbered
<1>8. Tasked' BY <1>1, <1>4, <1>5 DEF Tasked, Listed
<1>9. Homes'
  <2>. SUFFICES ASSUME NEW v \in Windows, win'[v].homed
                PROVE  /\ win'[v].open /\ host'.up /\ win'[v].token = host'.token
                       /\ IF win'[v].socket = None THEN OnTheWay(v)' ELSE AtHome(v)'
    BY DEF Homes
  <2>. QED BY <1>1, <1>3, <1>5, ServerOfType DEF Homes, OnTheWay, AtHome
<1>10. Heard'
  <2>. SUFFICES ASSUME NEW v \in Windows, NEW t \in tasks, t.phase = "serving",
                       t.gen = win[v].socket, t.hears, t.gen \in Conns(t.id)'
                PROVE  registry'[ServerOf[v]].quiet + win'[v].due <= PingInterval
    BY <1>1, <1>3 DEF Heard, ServingOf
  <2>1. t.win = v /\ t.id = ServerOf[v] /\ t.id \in ServerIds
    BY ServerOfType DEF Numbered
  <2>2. t.gen \in Conns(t.id) /\ Listed(t.id) BY <1>5, <2>1 DEF Conns
  <2>3. registry[t.id].quiet + win[v].due <= PingInterval
    BY <2>1, <2>2 DEF Heard, ServingOf
  <2>4. registry[t.id].quiet \in Nat /\ win[v].due \in Nat
    <3>1. registry[t.id] \in Entry BY <2>1, <2>2 DEF Listed, Typed
    <3>2. win[v] \in Window BY DEF Typed
    <3>. QED BY <3>1, <3>2, BridgeConstants DEF Entry, Window
  <2>5. CASE v = w
    <3>1. t.id \in heard BY <2>5 DEF heard, ServingOf
    <3>. QED BY <1>2, <1>3, <1>4, <2>1, <2>2, <2>5, <3>1, BridgeConstants
  <2>6. CASE v # w
    <3>1. win'[v].due = win[v].due BY <1>3, <2>6
    <3>2. registry'[t.id].quiet = 0 \/ registry'[t.id].quiet = registry[t.id].quiet
      BY <1>4, <2>1, <2>2
    <3>. QED BY <2>1, <2>3, <2>4, <3>1, <3>2, BridgeConstants
  <2>. QED BY <2>5, <2>6
<1>11. Told' BY <1>1, <1>4, StillTold DEF Listed
<1>. QED BY <1>6, <1>7, <1>8, <1>9, <1>10, <1>11

\* The grace of a link ends: nobody who is home or on the way counts on it.
LEMMA GraceOverStep ==
  ASSUME IInv, NEW t \in tasks, GraceOver(t) PROVE IInv'
<1>. USE DEF IInv
<1>. DEFINE left == unregister(t.id, t.gen)
<1>1. t \in Task /\ t.id \in ServerIds /\ t.gen \in Nat /\ t.phase = "grace" /\ t.wait = 0
  BY DEF GraceOver, Typed, Task
<1>2. /\ UNCHANGED <<host, next_generation, win, spent>>
      /\ tasks' = tasks \ {t}
      /\ Told' /\ registry' = [registry EXCEPT ![t.id] = left]
  <2>. DEFINE after == [registry EXCEPT ![t.id] = left]
              changed == unregister_changes(t.id, t.gen)
  <2>1. /\ UNCHANGED <<host, next_generation, win, spent>>
        /\ tasks' = tasks \ {t} /\ Becomes(after, changed)
    BY DEF GraceOver
  <2>2. changed \in BOOLEAN BY DEF unregister_changes
  <2>3. changed \/ servers(after) = servers(registry) BY <1>1, UnregisterTells DEF Typed
  <2>. HIDE DEF after, changed
  <2>4. Told' /\ registry' = after BY <2>1, <2>2, <2>3, BecomesTold
  <2>. QED BY <2>1, <2>4 DEF after
<1>3. /\ left \in Entry \cup {None}
      /\ left # None => /\ Listed(t.id) /\ left.conns = Conns(t.id) \ {t.gen}
                        /\ left.quiet = registry[t.id].quiet
                        /\ t.gen \in Conns(t.id) => Conns(t.id) \ {t.gen} # {}
      /\ left = None => Conns(t.id) \subseteq {t.gen}
  <2>1. registry \in [ServerIds -> Entry \cup {None}] BY DEF Typed
  <2>. QED BY ONLY <1>1, <2>1, UnregisterIs
<1>. HIDE DEF left
<1>4. /\ registry' \in [ServerIds -> Entry \cup {None}]
      /\ \A s \in ServerIds : registry'[s] = IF s = t.id THEN left ELSE registry[s]
  BY <1>1, <1>2, <1>3 DEF Typed
<1>5. \A s \in ServerIds : Conns(s)' = IF s = t.id THEN Conns(s) \ {t.gen} ELSE Conns(s)
  BY <1>3, <1>4 DEF Conns, Listed
<1>6. Typed' BY <1>2, <1>4 DEF Typed
<1>7. Numbered' BY <1>2 DEF Numbered
<1>8. \A u \in tasks : u # t => u \in tasks' /\ u.gen # t.gen BY <1>2 DEF Numbered
<1>9. Tasked'
  <2>. SUFFICES ASSUME NEW s \in ServerIds, Listed(s)'
                PROVE  /\ Conns(s)' # {}
                       /\ \A g \in Conns(s)' : \E u \in tasks' : u.gen = g /\ u.id = s
    BY DEF Tasked
  <2>1. Listed(s) BY <1>3, <1>4 DEF Listed
  <2>2. Conns(s)' # {}
    <3>1. CASE s = t.id /\ t.gen \in Conns(s)
      BY <1>3, <1>4, <1>5, <3>1 DEF Listed
    <3>2. CASE ~(s = t.id /\ t.gen \in Conns(s))
      BY <1>5, <2>1, <3>2 DEF Tasked
    <3>. QED BY <3>1, <3>2
  <2>3. ASSUME NEW g \in Conns(s)' PROVE \E u \in tasks' : u.gen = g /\ u.id = s
    <3>1. g \in Conns(s) BY <1>5
    <3>2. PICK u \in tasks : u.gen = g /\ u.id = s BY <2>1, <3>1 DEF Tasked
    <3>3. u # t BY <1>5, <3>2
    <3>. QED BY <1>8, <3>2, <3>3
  <2>. QED BY <2>2, <2>3
<1>10. Homes'
  <2>. SUFFICES ASSUME NEW v \in Windows, win[v].homed
                PROVE  /\ win[v].open /\ host.up /\ win[v].token = host.token
                       /\ IF win[v].socket = None THEN OnTheWay(v)' ELSE AtHome(v)'
    BY <1>2 DEF Homes
  <2>0. ServerOf[v] \in ServerIds BY ServerOfType
  <2>1. CASE win[v].socket # None
    <3>1. AtHome(v) BY <2>1 DEF Homes
    <3>2. PICK u \in tasks : /\ u.win = v /\ u.gen = win[v].socket /\ u.phase = "serving"
                             /\ u.gen \in Conns(ServerOf[v])
      BY <3>1 DEF AtHome
    <3>3. u # t BY <1>1, <3>2
    <3>4. u \in tasks' /\ u.gen \in Conns(ServerOf[v])' BY <1>5, <1>8, <2>0, <3>2, <3>3
    <3>5. AtHome(v)' BY <1>2, <3>1, <3>2, <3>4 DEF AtHome
    <3>. QED BY <2>1, <3>5 DEF Homes
  <2>2. CASE win[v].socket = None
    <3>1. PICK u \in tasks : /\ u.win = v /\ u.gen \in Conns(ServerOf[v])
                             /\ \/ u.phase = "grace" /\ u.wait > win[v].retry
                                \/ u.phase = "serving" /\ ~u.hears
      BY <2>2 DEF Homes, OnTheWay
    <3>2. u # t
      <4>1. win[v].retry \in Nat BY DEF Typed, Window
      <4>. QED BY <1>1, <3>1, <4>1
    <3>3. u \in tasks' /\ u.gen \in Conns(ServerOf[v])' BY <1>5, <1>8, <2>0, <3>1, <3>2
    <3>4. OnTheWay(v)' BY <1>2, <3>1, <3>3 DEF OnTheWay
    <3>. QED BY <2>2, <3>4 DEF Homes
  <2>. QED BY <2>1, <2>2
<1>11. Heard'
  <2>. SUFFICES ASSUME NEW v \in Windows, NEW u \in tasks, u.phase = "serving",
                       u.gen = win[v].socket, u.hears, u.gen \in Conns(u.id)'
                PROVE  registry'[ServerOf[v]].quiet + win[v].due <= PingInterval
    BY <1>2 DEF Heard, ServingOf
  <2>1. u.id = ServerOf[v] /\ u.id \in ServerIds BY ServerOfType DEF Numbered
  <2>2. u.gen \in Conns(u.id) BY <1>5, <2>1
  <2>3. registry[u.id].quiet + win[v].due <= PingInterval BY <2>1, <2>2 DEF Heard, ServingOf
  <2>4. registry'[u.id] # None BY <2>1 DEF Conns, Listed
  <2>5. registry'[u.id].quiet = registry[u.id].quiet BY <1>3, <1>4, <2>1, <2>4
  <2>. QED BY <2>1, <2>3, <2>5
<1>. QED BY <1>2, <1>6, <1>7, <1>9, <1>10, <1>11

\* A tick of the clocks: what was not due is one tick closer, and a server that
\* has been quiet one tick longer has a window that is one tick closer to its
\* ping.
LEMMA TickStep ==
  ASSUME IInv, Tick PROVE IInv'
<1>. USE DEF IInv
<1>. DEFINE aged(t) == [t EXCEPT !.wait = Down(@)]
<1>1. /\ UNCHANGED <<host, next_generation, rail, spent>>
      /\ \A w \in Windows : ~Due(w) /\ ~PingDue(w)
      /\ tasks' = {aged(t) : t \in tasks}
  BY DEF Tick
<1>2. \A t \in tasks : /\ aged(t) \in Task /\ aged(t).gen = t.gen /\ aged(t).win = t.win
                       /\ aged(t).id = t.id /\ aged(t).phase = t.phase /\ aged(t).hears = t.hears
                       /\ aged(t).wait = Down(t.wait)
  <2>. SUFFICES ASSUME NEW t \in tasks
                PROVE  /\ aged(t) \in Task /\ aged(t).gen = t.gen /\ aged(t).win = t.win
                       /\ aged(t).id = t.id /\ aged(t).phase = t.phase /\ aged(t).hears = t.hears
                       /\ aged(t).wait = Down(t.wait)
    OBVIOUS
  <2>1. t \in Task /\ t.wait \in 0..DropGrace BY DEF Typed, Task
  <2>2. Down(t.wait) \in 0..DropGrace BY <2>1, BridgeConstants DEF Down
  <2>. QED BY <2>1, <2>2 DEF Task
<1>. HIDE DEF aged
<1>3. /\ tasks' \in SUBSET Task
      /\ \A t \in tasks : aged(t) \in tasks'
      /\ \A u \in tasks' : \E t \in tasks : u = aged(t)
  BY <1>1, <1>2
<1>4. \A w \in Windows :
        /\ win'[w] \in Window
        /\ win'[w].open = win[w].open /\ win'[w].token = win[w].token
        /\ win'[w].socket = win[w].socket /\ win'[w].backoff = win[w].backoff
        /\ win'[w].homed = win[w].homed
        /\ win[w].open => win'[w].retry = Down(win[w].retry)
        /\ win[w].open /\ win[w].socket # None => win'[w].due = Down(win[w].due)
  <2>. SUFFICES ASSUME NEW w \in Windows
                PROVE  /\ win'[w] \in Window
                       /\ win'[w].open = win[w].open /\ win'[w].token = win[w].token
                       /\ win'[w].socket = win[w].socket /\ win'[w].backoff = win[w].backoff
                       /\ win'[w].homed = win[w].homed
                       /\ win[w].open => win'[w].retry = Down(win[w].retry)
                       /\ win[w].open /\ win[w].socket # None => win'[w].due = Down(win[w].due)
    OBVIOUS
  <2>1. win[w] \in Window /\ win[w].retry \in 0..BackoffMax /\ win[w].due \in 0..PingInterval
    BY DEF Typed, Window
  <2>2. Down(win[w].retry) \in 0..BackoffMax /\ Down(win[w].due) \in 0..PingInterval
    BY <2>1, BridgeConstants DEF Down
  <2>3. CASE ~win[w].open
    <3>1. win'[w] = win[w] BY <2>3 DEF Tick
    <3>. QED BY <2>1, <2>3, <3>1
  <2>4. CASE win[w].open
    <3>1. win'[w] = [win[w] EXCEPT !.retry = Down(win[w].retry),
                       !.due = IF win[w].socket = None THEN win[w].due ELSE Down(win[w].due)]
      BY <2>4 DEF Tick
    <3>. QED BY <2>1, <2>2, <3>1 DEF Window
  <2>. QED BY <2>3, <2>4
<1>5. win' \in [Windows -> Window]
  <2>1. win' = [w \in Windows |-> win'[w]] BY DEF Tick
  <2>. QED BY <1>4, <2>1
<1>6. \A s \in ServerIds :
        /\ registry'[s] \in Entry \cup {None}
        /\ registry'[s] = None <=> registry[s] = None
        /\ Listed(s) => /\ registry'[s].conns = registry[s].conns
                        /\ registry'[s].label = registry[s].label
                        /\ registry'[s].quiet <= registry[s].quiet + 1
                        /\ registry'[s].quiet \in Nat /\ registry[s].quiet \in Nat
  <2>. SUFFICES ASSUME NEW s \in ServerIds, Listed(s)
                PROVE  /\ registry'[s] \in Entry
                       /\ registry'[s].conns = registry[s].conns
                       /\ registry'[s].label = registry[s].label
                       /\ registry'[s].quiet <= registry[s].quiet + 1
                       /\ registry'[s].quiet \in Nat /\ registry[s].quiet \in Nat
    BY NoneIsNew DEF Listed, Tick
  <2>1. registry[s] \in Entry /\ registry[s].quiet \in 0..(LivenessTimeout + 1)
    BY DEF Listed, Typed, Entry
  <2>2. CASE registry[s].quiet <= LivenessTimeout
    <3>1. registry'[s] = [registry[s] EXCEPT !.quiet = registry[s].quiet + 1]
      BY <2>2 DEF Tick
    <3>2. registry[s].quiet + 1 \in 0..(LivenessTimeout + 1) BY <2>1, <2>2, BridgeConstants
    <3>. QED BY <2>1, <3>1, <3>2, BridgeConstants DEF Entry
  <2>3. CASE ~(registry[s].quiet <= LivenessTimeout)
    <3>1. registry'[s] = registry[s] BY <2>3 DEF Tick
    <3>. QED BY <2>1, <3>1, BridgeConstants
  <2>. QED BY <2>2, <2>3
<1>7. registry' \in [ServerIds -> Entry \cup {None}]
  <2>1. registry' = [s \in ServerIds |-> registry'[s]] BY DEF Tick
  <2>. QED BY <1>6, <2>1
<1>8. \A s \in ServerIds : Conns(s)' = Conns(s) BY <1>6 DEF Conns, Listed
<1>9. Typed' BY <1>1, <1>3, <1>5, <1>7 DEF Typed
<1>10. Numbered'
  <2>1. \A t \in tasks' : t.gen < next_generation' /\ t.id = ServerOf[t.win]
    BY <1>1, <1>2, <1>3 DEF Numbered
  <2>2. \A t, u \in tasks' : t.gen = u.gen => t = u BY <1>2, <1>3 DEF Numbered
  <2>3. \A w \in Windows :
          win'[w].socket # None => win'[w].open /\ win'[w].socket < next_generation'
    BY <1>1, <1>4 DEF Numbered
  <2>4. \A w \in Windows, t \in tasks' : t.gen = win'[w].socket => t.win = w
    BY <1>2, <1>3, <1>4 DEF Numbered
  <2>. QED BY <2>1, <2>2, <2>3, <2>4 DEF Numbered
<1>11. Tasked'
  <2>. SUFFICES ASSUME NEW s \in ServerIds, Listed(s)'
                PROVE  /\ Conns(s)' # {}
                       /\ \A g \in Conns(s)' : \E t \in tasks' : t.gen = g /\ t.id = s
    BY DEF Tasked
  <2>1. Listed(s) /\ Conns(s)' = Conns(s) BY <1>6, <1>8 DEF Listed
  <2>2. \A g \in Conns(s) : \E t \in tasks : t.gen = g /\ t.id = s BY <2>1 DEF Tasked
  <2>. QED BY <1>2, <1>3, <2>1, <2>2 DEF Tasked
<1>12. Homes'
  <2>. SUFFICES ASSUME NEW v \in Windows, win'[v].homed
                PROVE  /\ win'[v].open /\ host'.up /\ win'[v].token = host'.token
                       /\ IF win'[v].socket = None THEN OnTheWay(v)' ELSE AtHome(v)'
    BY DEF Homes
  <2>0. Conns(ServerOf[v])' = Conns(ServerOf[v]) BY <1>8, ServerOfType
  <2>1. win[v].homed /\ win[v].open /\ win'[v].retry = Down(win[v].retry)
    BY <1>4 DEF Homes
  <2>2. CASE win[v].socket # None
    <3>1. AtHome(v) BY <2>1, <2>2 DEF Homes
    <3>2. PICK t \in tasks : /\ t.win = v /\ t.gen = win[v].socket /\ t.phase = "serving"
                             /\ t.gen \in Conns(ServerOf[v])
      BY <3>1 DEF AtHome
    <3>3. AtHome(v)' BY <1>2, <1>3, <1>4, <2>0, <3>1, <3>2 DEF AtHome
    <3>. QED BY <1>1, <1>4, <2>1, <2>2, <3>3 DEF Homes
  <2>3. CASE win[v].socket = None
    <3>1. PICK t \in tasks : /\ t.win = v /\ t.gen \in Conns(ServerOf[v])
                             /\ \/ t.phase = "grace" /\ t.wait > win[v].retry
                                \/ t.phase = "serving" /\ ~t.hears
      BY <2>1, <2>3 DEF Homes, OnTheWay
    <3>2. aged(t).phase = "grace" /\ t.wait > win[v].retry => aged(t).wait > win'[v].retry
      <4>1. win[v].retry # 0 BY <1>1, <2>1, <2>3 DEF Due
      <4>2. win[v].retry \in Nat /\ t.wait \in Nat BY DEF Typed, Window, Task
      <4>. QED BY <1>2, <2>1, <4>1, <4>2 DEF Down
    <3>3. OnTheWay(v)' BY <1>2, <1>3, <2>0, <3>1, <3>2 DEF OnTheWay
    <3>. QED BY <1>1, <1>4, <2>1, <2>3, <3>3 DEF Homes
  <2>. QED BY <2>2, <2>3
<1>13. Heard'
  <2>. SUFFICES ASSUME NEW v \in Windows, NEW u \in tasks', u.phase = "serving",
                       u.gen = win'[v].socket, u.hears, u.gen \in Conns(u.id)'
                PROVE  registry'[ServerOf[v]].quiet + win'[v].due <= PingInterval
    BY DEF Heard, ServingOf
  <2>1. PICK t \in tasks : u = aged(t) BY <1>3
  <2>2. /\ t.phase = "serving" /\ t.gen = win[v].socket /\ t.hears
        /\ t.gen \in Nat /\ t.id = ServerOf[v] /\ t.id \in ServerIds /\ u.id = t.id
    BY <1>2, <1>4, <2>1, ServerOfType DEF Numbered, Typed, Task
  <2>3. t.gen \in Conns(t.id) /\ Listed(t.id) BY <1>2, <1>8, <2>1, <2>2 DEF Conns
  <2>4. registry[t.id].quiet + win[v].due <= PingInterval
    BY <2>2, <2>3 DEF Heard, ServingOf
  <2>5. win[v].socket # None /\ win[v].open BY <2>2, NoneIsNew DEF Numbered
  <2>6. win[v].due # 0 /\ win[v].due \in Nat
    <3>1. win[v] \in Window BY DEF Typed
    <3>. QED BY <1>1, <2>5, <3>1 DEF PingDue, Window
  <2>7. win'[v].due = win[v].due - 1 BY <1>4, <2>5, <2>6 DEF Down
  <2>8. /\ registry'[t.id].quiet <= registry[t.id].quiet + 1
        /\ registry'[t.id].quiet \in Nat /\ registry[t.id].quiet \in Nat
    BY <1>6, <2>2, <2>3
  <2>. QED BY <2>2, <2>4, <2>6, <2>7, <2>8, BridgeConstants
<1>14. Told' BY <1>1, <1>6, StillTold DEF Listed
<1>. QED BY <1>9, <1>10, <1>11, <1>12, <1>13, <1>14

LEMMA RailHearsStep ==
  ASSUME IInv, RailHears PROVE IInv'
<1>. USE DEF IInv
<1>1. /\ rail.unheard > 0 /\ rail' = [list |-> servers(registry), unheard |-> rail.unheard - 1]
      /\ UNCHANGED <<host, registry, next_generation, tasks, win, spent>>
  BY DEF RailHears
<1>2. servers(registry) \in [ServerIds -> Labels \cup {None}] BY ListType DEF Typed
<1>3. rail.unheard - 1 \in Nat BY <1>1 DEF Told, RailRecord
<1>4. servers(registry)' = servers(registry) BY <1>1 DEF servers
<1>5. rail' \in RailRecord /\ rail'.list = servers(registry) BY <1>1, <1>2, <1>3 DEF RailRecord
<1>6. Told' BY <1>4, <1>5 DEF Told, RailIsTold
<1>. QED BY <1>1, <1>6 DEF Typed, Numbered, Tasked, Homes, Heard, AtHome, OnTheWay,
                         ServingOf, Conns, Listed

LEMMA NextInv == IInv /\ [Next]_vars => IInv'
<1>. SUFFICES ASSUME IInv, [Next]_vars PROVE IInv' OBVIOUS
<1>1. CASE \E w \in Windows : Open(w) BY <1>1, OpenStep
<1>2. CASE \E w \in Windows : Close(w) BY <1>2, CloseStep
<1>3. CASE \E w \in Windows : Connect(w) BY <1>3, ConnectStep
<1>4. CASE \E w \in Windows : ConnectFails(w) BY <1>4, ConnectFailsStep
<1>5. CASE \E w \in Windows : Ping(w) BY <1>5, PingStep
<1>6. CASE \E w \in Windows : Notice(w) BY <1>6, NoticeStep
<1>7. CASE \E t \in tasks : Drop(t) BY <1>7, DropStep
<1>8. CASE \E t \in tasks : Silence(t) BY <1>8, SilenceStep
<1>9. CASE \E t \in tasks : OrphanEnds(t) BY <1>9, OrphanStep
<1>10. CASE \E t \in tasks : GraceOver(t) BY <1>10, GraceOverStep
<1>11. CASE reap_stale BY <1>11, ReapStep
<1>12. CASE \E s \in ServerIds : forget(s) BY <1>12, ForgetStep
<1>13. CASE \E s \in ServerIds : rename(s) BY <1>13, RenameStep
<1>14. CASE Start BY <1>14, StartStep
<1>15. CASE Stop BY <1>15, StopStep
<1>16. CASE Tick BY <1>16, TickStep
<1>18. CASE RailHears BY <1>18, RailHearsStep
<1>17. CASE UNCHANGED vars
  <2>1. Told' BY <1>17, SteadyTold DEF vars, IInv
  <2>. QED BY <1>17, <2>1 DEF vars, IInv, Typed, Numbered, Tasked, Homes, Heard, AtHome,
                              OnTheWay, ServingOf, Conns, Listed
<1>. QED BY <1>1, <1>2, <1>3, <1>4, <1>5, <1>6, <1>7, <1>8, <1>9, <1>10, <1>11, <1>12,
            <1>13, <1>14, <1>15, <1>16, <1>17, <1>18 DEF Next

THEOREM Invariance == Spec => []IInv
BY InitInv, NextInv, PTL DEF Spec

-----------------------------------------------------------------------------
(* The theorems.                                                           *)

\* Every variable holds what its type can hold, the counters of silence, of
\* retries and of grace within their limits.
THEOREM TypeCorrect == Spec => []TypeOK
<1>1. IInv => TypeOK BY DEF IInv, Typed, Told, RailRecord, TypeOK
<1>. QED BY <1>1, Invariance, PTL

\* No entry of the registry outlives its connection tasks (bridge.rs:224
\* unregister): whatever connects, breaks, is reaped or forgotten, every
\* connection of an entry has the one task that will take it back.
THEOREM EntriesKept == Spec => []EntriesHaveTasks
<1>1. IInv => EntriesHaveTasks BY DEF IInv, Numbered, Tasked, EntriesHaveTasks
<1>. QED BY <1>1, Invariance, PTL

\* Whatever order the connection tasks, the GC and the commands reach their events
\* in after they have let the registry's lock go (bridge.rs 484, 571, 628-636,
\* 656-658, mux.rs 427, 789), a rail that has heard of every change has the list
\* there is: what register, unregister and the others say of a change misses none
\* that shows, and the rail asks when it hears.
THEOREM RailAlwaysTold == Spec => []RailIsTold
<1>1. IInv => RailIsTold BY DEF IInv, Told
<1>. QED BY <1>1, Invariance, PTL

\* The liveness GC (bridge.rs:138 reap_stale) takes no server of which a window
\* has a link that works: the window's ping is due before the timeout is over.
THEOREM WorkingLinksKept == Spec => WorkingLinksAreNotReaped
<1>1. IInv /\ [Next]_vars =>
        [reap_stale => \A w \in Windows : (\E t \in ServingOf(w) : t.hears /\ ~Orphaned(t)) =>
           registry'[ServerOf[w]] # None]_vars
  <2>. SUFFICES ASSUME IInv, reap_stale, NEW w \in Windows, NEW t \in ServingOf(w),
                       t.hears, ~Orphaned(t)
                PROVE  registry'[ServerOf[w]] # None
    OBVIOUS
  <2>1. /\ t \in tasks /\ t.gen \in Conns(t.id) /\ t.id = ServerOf[w] /\ t.id \in ServerIds
    BY ServerOfType DEF ServingOf, Orphaned, IInv, Numbered
  <2>2. registry[t.id].quiet + win[w].due <= PingInterval
    BY <2>1 DEF IInv, Heard
  <2>3. Listed(t.id) BY <2>1 DEF Conns
  <2>4. registry[t.id].quiet \in Nat /\ win[w].due \in Nat
    <3>1. registry[t.id] \in Entry /\ win[w] \in Window
      BY <2>1, <2>3 DEF Listed, IInv, Typed
    <3>. QED BY <3>1, BridgeConstants DEF Entry, Window
  <2>5. ~Stale(t.id) BY <2>2, <2>4, BridgeConstants DEF Stale
  <2>6. registry' = [s \in ServerIds |-> IF Stale(s) THEN None ELSE registry[s]]
    BY DEF reap_stale, Becomes
  <2>. QED BY <2>1, <2>3, <2>5, <2>6 DEF Listed
<1>. QED BY <1>1, Invariance, PTL DEF Spec, WorkingLinksAreNotReaped

\* The registry keeps the entry of a server and the name it was given through
\* any step but the hand of the person, a silence, or the end of the host.
LEMMA HomesStay ==
  ASSUME IInv, Next, NEW s \in ServerIds, Listed(s), host.up, host'.up,
         ~forget(s), ~rename(s), registry[s].quiet <= LivenessTimeout,
         NEW w \in Windows, ServerOf[w] = s, win[w].open, win[w].homed
  PROVE  registry'[s] # None /\ (registry[s].renamed => registry'[s].label = registry[s].label)
<1>. DEFINE Stays == registry'[s] # None
                     /\ (registry[s].renamed => registry'[s].label = registry[s].label)
<1>0. registry \in [ServerIds -> Entry \cup {None}] /\ registry[s] # None
  BY DEF IInv, Typed, Listed
<1>. SUFFICES Stays OBVIOUS
<1>1. ASSUME registry'[s] = registry[s] PROVE Stays BY <1>0, <1>1
<1>2. ASSUME NEW v \in Windows, Connect(v) PROVE Stays
  <2>. DEFINE entry == register(ServerOf[v], next_generation, LabelOf[v])
  <2>1. CASE win[v].token = host.token
    <3>1. registry' = [registry EXCEPT ![ServerOf[v]] = entry]
      BY <1>2, <2>1 DEF Connect, Becomes
    <3>2. /\ entry \in Entry
          /\ Listed(ServerOf[v]) /\ registry[ServerOf[v]].renamed =>
               entry.label = registry[ServerOf[v]].label
      <4>1. next_generation \in Nat BY DEF IInv, Typed
      <4>. QED BY ONLY <1>0, <4>1, ServerOfType, RegisterIs, ZenonT(60)
    <3>. HIDE DEF entry
    <3>3. registry'[s] = IF s = ServerOf[v] THEN entry ELSE registry[s]
      BY <1>0, <3>1
    <3>. QED BY <1>0, <3>2, <3>3, NoneIsNew
  <2>2. CASE win[v].token # host.token BY <1>1, <1>2, <2>2 DEF Connect
  <2>. QED BY <2>1, <2>2
<1>3. ASSUME NEW v \in Windows, Ping(v) PROVE Stays
  <2>1. registry'[s] = touch(s) \/ registry'[s] = registry[s] BY <1>3 DEF Ping
  <2>. QED BY <1>0, <1>1, <2>1, TouchIs
<1>4. ASSUME NEW t \in tasks, GraceOver(t) PROVE Stays
  <2>1. registry' = [registry EXCEPT ![t.id] = unregister(t.id, t.gen)]
    BY <1>4 DEF GraceOver, Becomes
  <2>2. CASE s # t.id BY <1>0, <1>1, <2>1, <2>2
  <2>3. CASE s = t.id
    <3>1. registry'[s] = unregister(s, t.gen) BY <1>0, <2>1, <2>3
    <3>2. /\ unregister(s, t.gen) # None => unregister(s, t.gen).label = registry[s].label
          /\ unregister(s, t.gen) = None => Conns(s) \subseteq {t.gen}
      <4>1. t.gen \in Nat BY DEF IInv, Typed, Task
      <4>. QED BY ONLY <1>0, <4>1, UnregisterIs
    <3>3. PICK u \in tasks : /\ u.gen \in Conns(s)
                             /\ \/ u.phase = "grace" /\ u.wait > win[w].retry
                                \/ u.phase = "serving"
      BY DEF IInv, Homes, AtHome, OnTheWay
    <3>4. u # t
      <4>1. win[w].retry \in Nat BY DEF IInv, Typed, Window
      <4>. QED BY <1>4, <3>3, <4>1 DEF GraceOver
    <3>5. u.gen # t.gen BY <3>4 DEF IInv, Numbered
    <3>. QED BY <3>1, <3>2, <3>3, <3>5
  <2>. QED BY <2>2, <2>3
<1>5. ASSUME reap_stale PROVE Stays
  <2>1. registry' = [x \in ServerIds |-> IF Stale(x) THEN None ELSE registry[x]]
    BY <1>5 DEF reap_stale, Becomes
  <2>2. ~Stale(s)
    <3>1. registry[s].quiet \in Nat BY <1>0, BridgeConstants DEF Entry
    <3>. QED BY <3>1, BridgeConstants DEF Stale
  <2>. QED BY <1>1, <2>1, <2>2
<1>6. ASSUME NEW x \in ServerIds, forget(x) \/ rename(x) PROVE Stays
  <2>1. x # s BY <1>6
  <2>2. \E y : registry' = [registry EXCEPT ![x] = y] BY <1>6 DEF forget, rename, Becomes
  <2>. QED BY <1>0, <1>1, <2>1, <2>2
<1>7. ASSUME Tick PROVE Stays
  <2>1. registry[s] \in Entry BY <1>0
  <2>2. registry'[s] = registry[s]
        \/ registry'[s] = [registry[s] EXCEPT !.quiet = registry[s].quiet + 1]
    BY <1>7 DEF Tick
  <2>3. registry[s].quiet + 1 \in 0..(LivenessTimeout + 1) BY <2>1, BridgeConstants DEF Entry
  <2>4. LET e == [registry[s] EXCEPT !.quiet = registry[s].quiet + 1]
        IN  e \in Entry /\ e.label = registry[s].label
    BY <2>1, <2>3 DEF Entry
  <2>. QED BY <1>1, <2>2, <2>4, NoneIsNew
<1>8. CASE Start \/ Stop BY <1>8 DEF Start, Stop, IInv, Typed
<1>11. CASE RailHears BY <1>1, <1>11 DEF RailHears
<1>9. CASE \E v \in Windows : Open(v) \/ Close(v) \/ ConnectFails(v) \/ Notice(v)
  <2>1. UNCHANGED registry BY <1>9 DEF Open, Close, ConnectFails, Notice
  <2>. QED BY <1>1, <2>1
<1>10. CASE \E t \in tasks : Drop(t) \/ Silence(t) \/ OrphanEnds(t)
  <2>1. UNCHANGED registry BY <1>10 DEF Drop, Silence, OrphanEnds
  <2>. QED BY <1>1, <2>1
<1>. HIDE DEF Stays
<1>. QED BY <1>2, <1>3, <1>4, <1>5, <1>6, <1>7, <1>8, <1>9, <1>10, <1>11 DEF Next

\* No reconnect shows (bridge.rs:654 the drop grace): while the host runs and a
\* window that has come home stays open, its server leaves the list or loses its
\* name only by a silence longer than the timeout or by the person's hand.
THEOREM ReconnectsHidden == Spec => ReconnectsDoNotShow
<1>1. IInv /\ [Next]_vars =>
        [\A s \in ServerIds :
           /\ Listed(s) /\ host.up /\ host'.up
           /\ ~forget(s) /\ ~rename(s) /\ registry[s].quiet <= LivenessTimeout
           /\ \E w \in Windows : ServerOf[w] = s /\ win[w].open /\ win[w].homed
           => registry'[s] # None
              /\ (registry[s].renamed => registry'[s].label = registry[s].label)]_vars
  BY HomesStay
<1>. QED BY <1>1, Invariance, PTL DEF Spec, ReconnectsDoNotShow
=============================================================================
