------------------------------ MODULE FleetInbox ------------------------------
(***************************************************************************)
(* What the Hub promises about its inbox, with the log, the badges and the *)
(* dedup left out.  A reporter changes what a session shows and never its  *)
(* flags; a command changes flags and never what is shown; a solo moves in *)
(* one step; a removal takes one session.  A command that fails or is cut  *)
(* short by the end of the process shows nothing, but a restart may bring  *)
(* some of it back: loose are the sessions whose flags it may change.      *)
(* Unless the inbox is ephemeral nothing else happens to it.               *)
(***************************************************************************)
CONSTANTS
  SessionIds,
  Absent,
  Views,     \* what a session can show
  Durable    \* whether the inbox outlives the process

VARIABLES
  inbox,  \* what each session shows and how it is flagged
  loose   \* the sessions a failed command may have left with other flags in the log

vars == <<inbox, loose>>

Entry == [runs : Views, muted : BOOLEAN, soloed : BOOLEAN]

Init ==
  /\ inbox = [s \in SessionIds |-> Absent]
  /\ loose = {}

Report(s) ==
  /\ inbox'[s] \in Entry
  /\ inbox[s] = Absent => ~inbox'[s].muted /\ ~inbox'[s].soloed
  /\ inbox[s] # Absent => /\ inbox'[s].muted = inbox[s].muted
                          /\ inbox'[s].soloed = inbox[s].soloed
  /\ inbox' = [inbox EXCEPT ![s] = inbox'[s]]

Remove(s) ==
  /\ inbox[s] # Absent
  /\ inbox' = [inbox EXCEPT ![s] = Absent]

\* What a command makes of the inbox.
Flagged(s, muted) == [inbox EXCEPT ![s].muted = muted, ![s].soloed = FALSE]

SoloedOnly(s) ==
  [t \in SessionIds |->
     IF inbox[t] = Absent THEN Absent
     ELSE [inbox[t] EXCEPT !.muted = @ /\ t # s, !.soloed = t = s]]

Outcomes ==
  UNION {{Flagged(s, TRUE), Flagged(s, FALSE), SoloedOnly(s)} :
           s \in {t \in SessionIds : inbox[t] # Absent}}

Command == inbox' \in Outcomes

\* A report, a removal or a command; a row of the log replaced settles its session.
Change ==
  /\ (\E s \in SessionIds : Report(s) \/ Remove(s)) \/ Command \/ UNCHANGED inbox
  /\ loose' \subseteq loose

\* A command that writes some of its outcome and then fails.
Fail ==
  /\ UNCHANGED inbox
  /\ \E after \in Outcomes : loose' \subseteq loose \cup {t \in SessionIds : after[t] # inbox[t]}

SameView(a, b) == IF a = Absent \/ b = Absent THEN a = b ELSE a.runs = b.runs

\* The process ends, in the middle of a command at worst, and starts anew.
Recover ==
  /\ Durable
  /\ \E after \in Outcomes \cup {inbox} : \A t \in SessionIds :
       /\ SameView(inbox'[t], inbox[t])
       /\ t \notin loose => inbox'[t] \in {inbox[t], after[t]}
  /\ loose' = {}

Forget ==
  /\ ~Durable
  /\ inbox' = [s \in SessionIds |-> Absent]
  /\ loose' = {}

Next == Change \/ Fail \/ Recover \/ Forget

Spec == Init /\ [][Next]_vars
=============================================================================
