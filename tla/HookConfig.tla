----------------------------- MODULE HookConfig -----------------------------
(***************************************************************************)
(* Installing Vibe Island's hooks in Claude Code's settings.json, and      *)
(* removing them (hook_config.rs, hook_manifest.rs): the settings, the     *)
(* manifest, the timestamped backups and the stored mode are files, and a  *)
(* file is written or copied in two steps, truncated first, and removed in *)
(* one, before and after each of which the app may be killed.  The app     *)
(* does one thing at a time; the user and Claude Code edit the settings at *)
(* any moment.                                                             *)
(*                                                                         *)
(* An event's hooks are a sequence of groups: "user" has only hooks that   *)
(* are not ours, "vibe" is the group we write, "shared" is our group with  *)
(* a hook of the user's in it.                                             *)
(***************************************************************************)
EXTENDS Naturals, Sequences, Subsequence

CONSTANTS Events,     \* REQUIRED_HOOKS
          Missing,    \* there is no such file
          Torn,       \* truncated, and not written
          MaxBackups, \* MAX_BACKUPS
          MaxTasks,   \* bound: tasks of the app
          MaxFaults,  \* bound: kills and I/O errors
          MaxEdits    \* bound: edits from outside

Modes == {"auto", "autoCleanup", "manual"}
Groups == {"user", "vibe", "shared"}

\* What a settings.json says: the groups of hooks of some of the events, and
\* whether there is anything but hooks.
IsSettings(s) == \E D \in SUBSET Events : s \in [hooks : [D -> Seq(Groups)], rest : BOOLEAN]

ASSUME HookConfigAssumption ==
    /\ Missing # Torn
    /\ \A file \in {Missing, Torn} :
          ~IsSettings(file) /\ file \notin Modes /\ \A m \in SUBSET Events : file # m
    /\ MaxBackups \in Nat \ {0}
    /\ MaxTasks \in Nat /\ MaxFaults \in Nat /\ MaxEdits \in Nat

VARIABLES
    settings,  \* settings.json
    manifest,  \* vibe-island-manifest.json: the events we wrote
    backups,   \* settings.json.<seconds>.backup, newest first
    mode,      \* vibe-island-config.json
    app,       \* the app's task, its next step, and its copy of the settings
    user,      \* history: the user's part of the settings, until a fault
    harmed,    \* history: the task in which a fault first cost the settings, or 0
    mishaps,   \* history: an edit during the backup, the read and the rewrite of a
               \* task, two backups in one second
    last,      \* history: the task that ended well last, nothing having begun since
    tasks, faults, edits

Sequence == INSTANCE SequencesExt

files == <<settings, manifest, backups, mode>>
bounds == <<tasks, faults, edits>>
vars == <<files, app, user, harmed, mishaps, last, bounds>>

Empty == [hooks |-> <<>>, rest |-> FALSE]

\* read_settings_json: a file that is missing or not JSON reads as {}.
Parsed(file) == IF file \in {Missing, Torn} THEN Empty ELSE file

GroupsOf(s, e) == IF e \in DOMAIN s.hooks THEN s.hooks[e] ELSE <<>>
IsOurs(g) == g \in {"vibe", "shared"}
Ours(groups) == Keep(groups, {i \in DOMAIN groups : IsOurs(groups[i])})
Theirs(groups) == Keep(groups, {i \in DOMAIN groups : ~IsOurs(groups[i])})

\* What is the user's: the settings that are not hooks, and the groups of hooks
\* without one of ours.
UserPart(s) == [groups |-> [e \in Events |-> Theirs(GroupsOf(s, e))], rest |-> s.rest]

Down == [task |-> "down", at |-> "down", read |-> Empty, quits |-> FALSE]
Ready == [task |-> "ready", at |-> "ready", read |-> Empty, quits |-> FALSE]

\* A backup has been begun, and the old ones are not all removed yet.
BackingUp == app.at \in {"copying", "prune"}

\* There are MaxBackups backups at most, one more while one is made, and one more for
\* every kill or failed removal that may have left one over.
FewBackups == Len(backups) <= MaxBackups + faults + (IF BackingUp THEN 1 ELSE 0)

HookTypeOK ==
    /\ settings \in {Missing, Torn} \/ IsSettings(settings)
    /\ manifest \in {Missing, Torn} \cup SUBSET Events
    /\ backups \in Seq({backups[i] : i \in DOMAIN backups})
    /\ FewBackups
    /\ \A i \in DOMAIN backups : backups[i] = Torn \/ IsSettings(backups[i])
    /\ mode \in {Missing, Torn} \cup Modes
    /\ app \in [task : {"down", "ready", "auto", "install", "uninstall", "setMode"},
                at : {"down", "ready", "check", "dedup", "backup", "copying", "prune", "read",
                      "truncate", "write", "record", "recording", "forget", "choose"} \cup Modes,
                read : {app.read}, quits : BOOLEAN]
    /\ IsSettings(app.read)
    /\ last \in {"none", "install", "uninstall"}
    /\ harmed \in 0..MaxTasks /\ mishaps \subseteq {"unsaved", "overlap", "sameSecond"}
    /\ tasks \in 0..MaxTasks /\ faults \in 0..MaxFaults /\ edits \in 0..MaxEdits

Init ==
    /\ \/ settings = Missing
       \/ \E own \in SUBSET Events :
             settings = [hooks |-> [e \in own |-> <<"user">>], rest |-> TRUE]
    /\ manifest = Missing /\ backups = <<>> /\ mode = Missing
    /\ app = Down
    /\ user = UserPart(Parsed(settings))
    /\ harmed = 0 /\ mishaps = {} /\ last = "none"
    /\ tasks = 0 /\ faults = 0 /\ edits = 0
-----------------------------------------------------------------------------
\* merge_hooks keeps the groups that are not ours and appends ours.
\* Mutant: ours is appended to whatever there is.
MergeAppends(s) == [s EXCEPT !.hooks = [e \in Events |-> Append(GroupsOf(s, e), "vibe")]]
Merge(s) == [s EXCEPT !.hooks = [e \in Events |-> Append(Theirs(GroupsOf(s, e)), "vibe")]]

\* remove_vibe_hooks_filtered; an event left without groups loses its key.
\* Mutant: the event goes with our group.
RemoveEvents(s, named) ==
    [s EXCEPT !.hooks = [e \in DOMAIN s.hooks \ named |-> s.hooks[e]]]
Remove(s, named) ==
    LET kept == {e \in DOMAIN s.hooks : e \in named => Theirs(s.hooks[e]) # <<>>} IN
    [s EXCEPT !.hooks =
        [e \in kept |-> IF e \in named THEN Theirs(s.hooks[e]) ELSE s.hooks[e]]]

\* uninstall_hooks removes what the manifest names, or everything required.
Recorded(m) == IF m \in {Missing, Torn} THEN Events ELSE m

\* What prune_old_backups removes, of the backups by their seconds, newest first.
\* Mutants: nothing; they are sorted the other way.
ExcessNone(b) == {}
ExcessNewest(b) == 1..(Len(b) - MaxBackups)
Excess(b) == (MaxBackups + 1)..Len(b)

\* compute_hook_details counts an event by its key, whosever its groups are.
Configured == Events \subseteq DOMAIN Parsed(settings).hooks

\* install_hooks believes the manifest only with the settings beside it.
\* Mutant: it believes the manifest.
BelieveManifest == manifest = Events
AlreadyInstalled == manifest = Events /\ settings # Missing /\ Configured

StoredMode == IF mode \in {Missing, Torn} THEN "auto" ELSE mode
-----------------------------------------------------------------------------
(* Tasks begin.                                                              *)

Begin(task, at, quits) ==
    /\ tasks < MaxTasks
    /\ tasks' = tasks + 1
    /\ app' = [Ready EXCEPT !.task = task, !.at = at, !.quits = quits]
    /\ last' = "none"
    /\ UNCHANGED <<files, user, harmed, mishaps, faults, edits>>

\* run: auto_configure_hooks ...
AppStart == app = Down /\ Begin("auto", "check", FALSE)

\* ... and the tray's menu, the control center's commands.
InstallHooks == app = Ready /\ Begin("install", "dedup", FALSE)
UninstallHooks == app = Ready /\ Begin("uninstall", "backup", FALSE)
SetStoredMode == app = Ready /\ Begin("setMode", "choose", FALSE)

Quit ==
    /\ app = Ready
    /\ IF StoredMode = "autoCleanup" THEN Begin("uninstall", "backup", TRUE)
       ELSE app' = Down /\ UNCHANGED <<files, user, harmed, mishaps, last, bounds>>
-----------------------------------------------------------------------------
(* A task's steps.                                                           *)

Goto(at) == app' = [app EXCEPT !.at = at] /\ UNCHANGED last

\* The app is gone after the task if that was the cleanup of a quit.
Return(result) ==
    /\ app' = IF app.quits THEN Down ELSE Ready
    /\ last' = result

Check ==
    /\ app.at = "check"
    /\ IF Configured \/ StoredMode = "manual" THEN Return("none")
       ELSE app' = [app EXCEPT !.task = "install", !.at = "dedup"] /\ UNCHANGED last
    /\ UNCHANGED <<files, user, harmed, mishaps, bounds>>

Dedup ==
    /\ app.at = "dedup"
    /\ IF AlreadyInstalled THEN Return("install") ELSE Goto("backup")
    /\ UNCHANGED <<files, user, harmed, mishaps, bounds>>

\* create_timestamped_backup: fs::copy, over a backup of the same second ...
Copy ==
    /\ \/ /\ app.at = "backup" /\ settings # Missing
          /\ \/ backups' = <<Torn>> \o backups /\ UNCHANGED mishaps
             \/ /\ backups # <<>>
                /\ backups' = [backups EXCEPT ![1] = Torn]
                /\ mishaps' = mishaps \cup {"sameSecond"}
          /\ Goto("copying")
       \/ /\ app.at = "copying"
          /\ backups' = [backups EXCEPT ![1] = settings]
          /\ Goto("prune")
          /\ UNCHANGED mishaps
    /\ UNCHANGED <<settings, manifest, mode, user, harmed, bounds>>

\* ... and prune_old_backups, which removes one file after the other.
Prune ==
    /\ app.at = "prune"
    /\ \/ /\ \E i \in Excess(backups) : backups' = Sequence!RemoveAt(backups, i)
          /\ UNCHANGED <<app, last>>
       \/ /\ Excess(backups) = {}
          /\ Goto("read")
          /\ UNCHANGED backups
    /\ UNCHANGED <<settings, manifest, mode, user, harmed, mishaps, bounds>>

NothingToBackUp ==
    /\ app.at = "backup" /\ settings = Missing
    /\ Goto(IF app.task = "install" THEN "read" ELSE "forget")
    /\ UNCHANGED <<files, user, harmed, mishaps, bounds>>

ReadSettings ==
    /\ app.at = "read"
    /\ app' = [app EXCEPT !.at = "truncate", !.read = Parsed(settings)]
    /\ UNCHANGED <<files, user, harmed, mishaps, last, bounds>>

\* write_settings_json: File::create ...
Truncate ==
    /\ app.at = "truncate"
    /\ settings' = Torn
    /\ Goto("write")
    /\ UNCHANGED <<manifest, backups, mode, user, harmed, mishaps, bounds>>

\* ... and write_all.
Write ==
    /\ app.at = "write"
    /\ \/ /\ app.task = "install"
          /\ settings' = Merge(app.read)
          /\ Goto("record")
       \/ /\ app.task = "uninstall"
          /\ settings' = Remove(app.read, Recorded(manifest))
          /\ Goto("forget")
    /\ UNCHANGED <<manifest, backups, mode, user, harmed, mishaps, bounds>>

\* write_manifest, in two steps again, and delete_manifest.
WriteManifest ==
    /\ \/ /\ app.at = "record"
          /\ manifest' = Torn
          /\ Goto("recording")
       \/ /\ app.at = "recording"
          /\ manifest' = Events
          /\ Return("install")
    /\ UNCHANGED <<settings, backups, mode, user, harmed, mishaps, bounds>>

DeleteManifest ==
    /\ app.at = "forget"
    /\ manifest' = Missing
    /\ Return("uninstall")
    /\ UNCHANGED <<settings, backups, mode, user, harmed, mishaps, bounds>>

\* set_stored_mode.
WriteMode ==
    /\ \/ /\ app.at = "choose"
          /\ mode' = Torn
          /\ \E m \in Modes : Goto(m)
       \/ /\ app.at \in Modes
          /\ mode' = app.at
          /\ Return("none")
    /\ UNCHANGED <<settings, manifest, backups, user, harmed, mishaps, bounds>>
-----------------------------------------------------------------------------
(* What goes wrong, and the world outside.                                   *)

Fault ==
    /\ faults < MaxFaults
    /\ faults' = faults + 1
    /\ UNCHANGED <<files, user, mishaps, tasks, edits>>

Harm == harmed' = IF harmed = 0 THEN tasks ELSE harmed

\* The app is killed, or the machine stops.
Kill ==
    /\ app # Down
    /\ app' = Down /\ last' = "none"
    /\ IF app.at = "write" THEN Harm ELSE UNCHANGED harmed
    /\ Fault

\* A file operation fails: the task ends with an error, and the file as far as it got.
Fail ==
    /\ app.at \in {"backup", "copying", "truncate", "write", "record", "recording", "forget"} \cup Modes
    /\ Return("none")
    /\ IF app.at = "write" THEN Harm ELSE UNCHANGED harmed
    /\ Fault

\* The directory cannot be listed or files cannot be removed: those backups stay, and
\* the task goes on.
FailPrune ==
    /\ app.at = "prune" /\ Excess(backups) # {}
    /\ Goto("read")
    /\ UNCHANGED harmed
    /\ Fault

\* The settings cannot be opened: they read as {}, too.
FailRead ==
    /\ app.at = "read"
    /\ app' = [app EXCEPT !.at = "truncate", !.read = Empty]
    /\ Harm
    /\ Fault
    /\ UNCHANGED last

\* The hooks of an event are the user's, or ours with one of his in its group.
Edited(s) ==
    {[s EXCEPT !.hooks = [f \in DOMAIN s.hooks \cup {e} |->
         IF f = e THEN <<"user">> ELSE s.hooks[f]]] : e \in Events}
    \cup
    {[s EXCEPT !.hooks[e] = Append(Theirs(@), "shared")] :
       e \in {f \in DOMAIN s.hooks : Ours(s.hooks[f]) # <<>>}}

\* The user, another tool or Claude Code changes an event's hooks, or makes the
\* file where there is none.
Edit ==
    /\ edits < MaxEdits
    /\ edits' = edits + 1
    /\ settings # Torn
    /\ settings' \in IF settings = Missing THEN {[Empty EXCEPT !.rest = TRUE]}
                     ELSE Edited(settings)
    /\ user' = IF harmed = 0 THEN UserPart(settings') ELSE user
    /\ mishaps' = mishaps \cup (IF BackingUp \/ app.at = "read" THEN {"unsaved"}
                                ELSE IF app.at = "truncate" THEN {"overlap"} ELSE {})
    /\ last' = "none"
    /\ UNCHANGED <<manifest, backups, mode, app, harmed, tasks, faults>>

Next ==
    \/ AppStart \/ InstallHooks \/ UninstallHooks \/ SetStoredMode \/ Quit
    \/ Check \/ Dedup \/ Copy \/ Prune \/ NothingToBackUp \/ ReadSettings \/ Truncate \/ Write
    \/ WriteManifest \/ DeleteManifest \/ WriteMode
    \/ Kill \/ Fail \/ FailPrune \/ FailRead \/ Edit

Spec == Init /\ [][Next]_vars
-----------------------------------------------------------------------------
(* Properties.                                                               *)

\* Whatever is installed and removed, by whichever path and however often it is
\* cut short, the user's settings and groups of hooks are as he left them, in
\* their order; but for a fault in a rewrite and an edit that fell into one.
UserSettingsKept ==
    harmed = 0 /\ "overlap" \notin mishaps /\ app.at # "write"
       => UserPart(Parsed(settings)) = user

\* Whatever was cut short before, an install that ends well leaves every event
\* configured and on record, and an uninstall that does nothing of ours and no
\* record.
CutShortIsRepaired ==
    /\ last = "install" => Configured /\ manifest = Events
    /\ last = "uninstall" =>
          /\ manifest = Missing
          /\ \A e \in Events : Ours(GroupsOf(Parsed(settings), e)) = <<>>

\* No event runs our hook twice.
OneGroupOfOurs == \A e \in Events : Len(Ours(GroupsOf(Parsed(settings), e))) <= 1

\* After a fault that cost the user's settings they are in a backup, for as long
\* as fewer than MaxBackups tasks have followed, but for those mishaps.
RollbackWindow ==
    /\ harmed # 0 /\ tasks < harmed + MaxBackups
    /\ mishaps = {}
    /\ user # UserPart(Empty)
    => \E i \in DOMAIN backups : UserPart(Parsed(backups[i])) = user

\* merge_hooks "preserves all user hook groups".
UserHooksPreserved ==
    settings # Torn => UserPart(Parsed(settings)).groups = user.groups
=============================================================================
