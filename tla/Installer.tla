------------------------------ MODULE Installer ------------------------------
(***************************************************************************)
(* fleet init and fleet uninit, crates/fleet-cli/src/init.rs: they write   *)
(* Fleet's hooks into the settings of Claude and of Codex, keep what was   *)
(* there beside them, and put it back.  Every read, backup, write and      *)
(* removal is a step, before which the command may fail or be killed; the  *)
(* user changes the files between two commands.                            *)
(*                                                                         *)
(* A file is what the user has in it, as the number of the user's change,  *)
(* and the events that Fleet's hooks in it are for.                        *)
(***************************************************************************)
EXTENDS Integers

CONSTANTS
  Events,   \* the hook events Fleet relays
  NoFile,   \* the content of a file that is not there
  MaxActs   \* bound on the user's changes

Agents == {"claude", "codex"}

Content == [own : Nat, hooks : SUBSET Events]

ASSUME InstallerConstants ==
  /\ Events # {}
  /\ NoFile \notin Content
  /\ MaxActs \in Nat

VARIABLES
  file,      \* the settings of each tool
  backup,    \* the .fleet-backup beside them
  manifest,  \* each tool's entry in the manifest, which is there iff it has one
  cmd,       \* the command that runs
  acts,      \* the changes the user has made
  pre,       \* history: the settings as the user had them before Fleet's hooks
  astray,    \* history: an init without an entry met hooks, or another backup
  cut        \* history: an uninit has ended before its manifest was removed

disk == <<file, backup, manifest>>
past == <<pre, astray, cut>>
installVars == <<disk, cmd, acts, past>>

\* "fresh": Fleet created the file; "kept": it has a backup.
Entry == {"none", "fresh", "kept"}

NoEntries == [t \in Agents |-> "none"]

\* The command's place, the tool it is at, the manifest it holds and, of init,
\* whether it has written a file, of uninit, the entries it has still to undo.
Idle == [name |-> "none", at |-> "start", tool |-> "claude", log |-> NoEntries,
         modified |-> FALSE, left |-> {}]

InstallInit ==
  /\ file \in [Agents -> {NoFile, [own |-> 0, hooks |-> {}]}]
  /\ backup   = [t \in Agents |-> NoFile]
  /\ manifest = NoEntries
  /\ cmd      = Idle
  /\ acts     = 0
  /\ pre      = file
  /\ astray   = [t \in Agents |-> FALSE]
  /\ cut      = FALSE

HooksIn(c) == IF c = NoFile THEN {} ELSE c.hooks
OwnIn(c)   == IF c = NoFile THEN 0 ELSE c.own

At(name, place) == cmd.name = name /\ cmd.at = place

-----------------------------------------------------------------------------
(* fleet init.                                                             *)

\* Claude's hooks are left alone if one of them is there, ...
inject_claude_hooks(c) == IF HooksIn(c) # {} THEN HooksIn(c) ELSE Events

\* ... Codex's are completed event by event.
inject_codex_config(c) == HooksIn(c) \cup Events

Injected(t, c) == IF t = "claude" THEN inject_claude_hooks(c) ELSE inject_codex_config(c)

do_init ==
  /\ cmd.name = "none"
  /\ cmd' = [Idle EXCEPT !.name = "init", !.at = "read", !.log = manifest]
  /\ UNCHANGED <<disk, acts, past>>

\* Claude's settings come first, then Codex's, then the manifest.
AfterTool(c) ==
  IF c.tool = "claude" THEN [c EXCEPT !.at = "read", !.tool = "codex"]
  ELSE IF c.modified THEN [c EXCEPT !.at = "save"]
  ELSE Idle

\* What an uninit is to restore: the settings an init finds without a hook of
\* Fleet's, unless an entry tells that this is not its first.
Begins(t) ==
  /\ HooksIn(file[t]) = {}
  /\ cmd.log[t] = "none" \/ (cmd.log[t] = "kept" /\ backup[t] = NoFile)

\* Without an entry, hooks are what a cut init left behind, and a backup that is
\* not the file is what a cut init or an earlier round did.
Remains(t) == HooksIn(file[t]) # {} \/ backup[t] \notin {NoFile, file[t]}

Read ==
  LET t == cmd.tool
  IN  /\ At("init", "read")
      /\ cmd' = IF Injected(t, file[t]) = HooksIn(file[t]) THEN AfterTool(cmd)
                ELSE [cmd EXCEPT !.at = "backup"]
      /\ pre' = IF Begins(t) THEN [pre EXCEPT ![t] = file[t]] ELSE pre
      /\ astray' = IF cmd.log[t] = "none" THEN [astray EXCEPT ![t] = Remains(t)] ELSE astray
      /\ UNCHANGED <<disk, acts, cut>>

\* A faulty backup that is taken whether or not there is one.
BackupAlways(t) == file[t]

\* A file that is there is copied beside it; the first copy stays.
maybe_backup(t) == IF backup[t] = NoFile THEN file[t] ELSE backup[t]

Backup ==
  /\ At("init", "backup")
  /\ backup' = IF file[cmd.tool] = NoFile THEN backup
               ELSE [backup EXCEPT ![cmd.tool] = maybe_backup(cmd.tool)]
  /\ cmd' = [cmd EXCEPT !.at = "write"]
  /\ UNCHANGED <<file, manifest, acts, past>>

\* A faulty record that overwrites the entry of an earlier init.
RecordLast(t) == IF file[t] = NoFile THEN "fresh" ELSE "kept"

\* An entry is made once: what maybe_backup said the first time.
Recorded(t) ==
  IF cmd.log[t] # "none" THEN cmd.log[t]
  ELSE IF file[t] = NoFile THEN "fresh" ELSE "kept"

Write ==
  LET t == cmd.tool
  IN  /\ At("init", "write")
      /\ file' = [file EXCEPT ![t] = [own |-> OwnIn(@), hooks |-> Injected(t, @)]]
      /\ cmd' = AfterTool([cmd EXCEPT !.log[t] = Recorded(t), !.modified = TRUE])
      /\ UNCHANGED <<backup, manifest, acts, past>>

Save ==
  /\ At("init", "save")
  /\ manifest' = cmd.log
  /\ cmd' = Idle
  /\ UNCHANGED <<file, backup, acts, past>>

-----------------------------------------------------------------------------
(* fleet uninit.                                                           *)

do_uninit ==
  /\ cmd.name = "none"
  /\ cmd' = [Idle EXCEPT !.name = "uninit", !.at = "entry", !.log = manifest,
                         !.left = {t \in Agents : manifest[t] # "none"}]
  /\ UNCHANGED <<disk, acts, past>>

Undone(t) == [cmd EXCEPT !.at = "entry", !.left = @ \ {t}]

\* The file is written from its backup.
Restore(t) ==
  /\ At("uninit", "entry") /\ t \in cmd.left
  /\ cmd.log[t] = "kept" /\ backup[t] # NoFile
  /\ file' = [file EXCEPT ![t] = backup[t]]
  /\ cmd' = [cmd EXCEPT !.at = "unback", !.tool = t]
  /\ UNCHANGED <<backup, manifest, acts, past>>

RemoveBackup ==
  /\ At("uninit", "unback")
  /\ backup' = [backup EXCEPT ![cmd.tool] = NoFile]
  /\ cmd' = Undone(cmd.tool)
  /\ UNCHANGED <<file, manifest, acts, past>>

\* A file that Fleet created, or whose backup is gone, is removed.
Remove(t) ==
  /\ At("uninit", "entry") /\ t \in cmd.left
  /\ cmd.log[t] = "kept" => backup[t] = NoFile
  /\ file' = [file EXCEPT ![t] = NoFile]
  /\ cmd' = Undone(t)
  /\ UNCHANGED <<backup, manifest, acts, past>>

RemoveManifest ==
  /\ At("uninit", "entry") /\ cmd.left = {}
  /\ manifest' = NoEntries
  /\ cmd' = Idle
  /\ UNCHANGED <<file, backup, acts, past>>

-----------------------------------------------------------------------------
(* What may happen to the commands and the files.                          *)

\* The next step fails, be it for a file that does not parse, or is never made.
Stop ==
  /\ cmd.name # "none"
  /\ cmd' = Idle
  /\ cut' = (cut \/ cmd.name = "uninit")
  /\ UNCHANGED <<disk, acts, pre, astray>>

\* The user changes what is theirs, takes hooks out, or removes the file.
UserWrites(t, hooks) ==
  /\ cmd.name = "none" /\ acts < MaxActs
  /\ acts' = acts + 1
  /\ file' = [file EXCEPT ![t] = [own |-> acts', hooks |-> hooks]]
  /\ UNCHANGED <<backup, manifest, cmd, past>>

UserRemoves(t) ==
  /\ cmd.name = "none" /\ acts < MaxActs
  /\ file[t] # NoFile
  /\ acts' = acts + 1
  /\ file' = [file EXCEPT ![t] = NoFile]
  /\ UNCHANGED <<backup, manifest, cmd, past>>

InstallNext ==
  \/ do_init
  \/ Read
  \/ Backup
  \/ Write
  \/ Save
  \/ do_uninit
  \/ \E t \in Agents : Restore(t)
  \/ RemoveBackup
  \/ \E t \in Agents : Remove(t)
  \/ RemoveManifest
  \/ Stop
  \/ \E t \in Agents, hooks \in SUBSET Events :
       hooks \subseteq HooksIn(file[t]) /\ UserWrites(t, hooks)
  \/ \E t \in Agents : UserRemoves(t)

InstallSpec == InstallInit /\ [][InstallNext]_installVars

-----------------------------------------------------------------------------
(* Properties.                                                             *)

\* Every variable keeps its type.
InstallTypeOK ==
  /\ file \in [Agents -> Content \cup {NoFile}]
  /\ backup \in [Agents -> Content \cup {NoFile}]
  /\ manifest \in [Agents -> Entry]
  /\ cmd \in [name : {"none", "init", "uninit"}, tool : Agents, log : [Agents -> Entry],
              at : {"start", "read", "backup", "write", "save", "entry", "unback"},
              modified : BOOLEAN, left : SUBSET Agents]
  /\ acts \in Nat
  /\ pre \in [Agents -> Content \cup {NoFile}]
  /\ astray \in [Agents -> BOOLEAN]
  /\ cut \in BOOLEAN

\* "The very-first pre-Fleet state is preserved" (init.rs 31-34): wherever inits
\* and uninits are cut short, and whatever the user does to the file, while
\* Fleet's hooks are in it the settings from before them are beside it, or there
\* were none; unless an init that found no entry met what another had left, hooks or
\* a backup (astray): one killed after its backup, an edit by the user, and a second
\* init, which trusts the old backup.
OriginalAtHand ==
  \A t \in Agents :
    ~astray[t] /\ HooksIn(file[t]) # {} => backup[t] = pre[t] \/ pre[t] = NoFile

\* "Reversible" (init.rs 35-38): an uninit leaves each file it undoes as it was
\* before Fleet, after any number of inits that failed, were killed or repeated,
\* unless one of them met the remains of another or an uninit was cut short.
UninitRestores ==
  [][\A t \in Agents :
       t \in cmd.left /\ cmd'.name = "uninit" /\ t \notin cmd'.left /\ ~astray[t] /\ ~cut
         => file'[t] = pre[t]]_installVars
=============================================================================
