---------------------------- MODULE SessionStore ----------------------------
(***************************************************************************)
(* The overlay's sessions across restarts: sessions.json                   *)
(* (session_store.rs) and the saves and the restore around it              *)
(* (useSessionPersistence.ts).  The overlay starts empty, asks for the     *)
(* file and adds what it holds, while hooks already make sessions; it      *)
(* saves again and again, and the file is truncated before it is written.  *)
(***************************************************************************)
EXTENDS Naturals, Sequences, FiniteSets, Subsequence

CONSTANTS Ids, Groups,
          Expiry,     \* EXPIRY_DAYS
          MaxDay,     \* bound: days
          MaxStarts   \* bound: starts of the app

ASSUME StoreAssumption == Expiry \in Nat /\ MaxDay \in Nat /\ MaxStarts \in Nat

VARIABLES
    file,     \* sessions.json: its state, and its entries if it is whole
    overlay,  \* the sessions in their order, and the groups
    app,      \* "down", "loading", "restoring" or "up"
    answer,   \* what load_sessions returned
    writing,  \* the entries of a save whose file is truncated, or no save
    day, starts,
    active,   \* history: of each id, the days it had an event
    ended     \* history: ids removed since the app was started

storeVars == <<file, overlay, app, answer, writing, day, starts, active, ended>>

NoSave == [on |-> FALSE, entries |-> <<>>]
Empty == [sessions |-> <<>>, groups |-> {}]

\* An entry is a session, or carries the groups and no day.
MetaEntry(groups) == [meta |-> TRUE, groups |-> groups]
IdsIn(sessions) == {sessions[i].id : i \in DOMAIN sessions}
Sessions(entries) == Keep(entries, {k \in DOMAIN entries : ~entries[k].meta})

Rows == [meta : {FALSE}, id : Ids, at : 0..MaxDay, state : {"live", "completed"}]

StoreTypeOK ==
    /\ file.state \in {"missing", "torn", "whole"}
    /\ file.state # "whole" => file.entries = <<>>
    /\ overlay.groups \subseteq Groups
    /\ \A i \in DOMAIN overlay.sessions : overlay.sessions[i] \in Rows
    /\ \A i \in DOMAIN answer : answer[i] \in Rows
    /\ app \in {"down", "loading", "restoring", "up"}
    /\ app = "down" => overlay = Empty /\ ~writing.on
    /\ day \in 0..MaxDay /\ starts \in 0..MaxStarts

StoreInit ==
    /\ file = [state |-> "missing", entries |-> <<>>]
    /\ overlay = Empty /\ app = "down" /\ answer = <<>> /\ writing = NoSave
    /\ day = 0 /\ starts = 0
    /\ active = [i \in Ids |-> {}] /\ ended = {}
-----------------------------------------------------------------------------
(* Hooks and the user.                                                       *)

Running == app # "down"

\* Any event of a session: it is added at the end, or its lastActivity is renewed.  That
\* a process is linked to it (process_detected, updateSessionInfo) is one too; it leaves
\* the state as it was, on which nothing here depends.
Touch(sessions, i) ==
    IF i \in IdsIn(sessions)
    THEN [k \in DOMAIN sessions |->
             IF sessions[k].id = i THEN [sessions[k] EXCEPT !.at = day, !.state = "live"] ELSE sessions[k]]
    ELSE Append(sessions, [meta |-> FALSE, id |-> i, at |-> day, state |-> "live"])

HookEvent(i) ==
    /\ Running
    /\ overlay' = [overlay EXCEPT !.sessions = Touch(@, i)]
    /\ active' = [active EXCEPT ![i] = @ \cup {day}]
    /\ ended' = ended \ {i}
    /\ UNCHANGED <<file, app, answer, writing, day, starts>>

RemoveSession(i) ==
    /\ i \in IdsIn(overlay.sessions)
    /\ overlay' = [overlay EXCEPT !.sessions = Keep(@, {k \in DOMAIN @ : @[k].id # i})]
    /\ ended' = ended \cup {i}
    /\ UNCHANGED <<file, app, answer, writing, day, starts, active>>

CreateGroup(g) ==
    /\ Running /\ g \notin overlay.groups
    /\ overlay' = [overlay EXCEPT !.groups = @ \cup {g}]
    /\ UNCHANGED <<file, app, answer, writing, day, starts, active, ended>>

DeleteGroup(g) ==
    /\ g \in overlay.groups
    /\ overlay' = [overlay EXCEPT !.groups = @ \ {g}]
    /\ UNCHANGED <<file, app, answer, writing, day, starts, active, ended>>

DayPasses ==
    /\ day < MaxDay /\ day' = day + 1
    /\ UNCHANGED <<file, overlay, app, answer, writing, starts, active, ended>>
-----------------------------------------------------------------------------
(* Saves.                                                                    *)

Serialized == overlay.sessions \o
    (IF overlay.groups = {} THEN <<>> ELSE <<MetaEntry(overlay.groups)>>)

\* persistSessions: every ten seconds, and when the page is hidden.  The commands are
\* handled one after another, and the first one is the load of the start.
BeginSave ==
    /\ app \in {"restoring", "up"} /\ ~writing.on
    /\ Serialized # <<>>
    /\ writing' = [on |-> TRUE, entries |-> Serialized]
    /\ file' = [state |-> "torn", entries |-> <<>>]
    /\ UNCHANGED <<overlay, app, answer, day, starts, active, ended>>

EndSave ==
    /\ writing.on
    /\ file' = [state |-> "whole", entries |-> writing.entries]
    /\ writing' = NoSave
    /\ UNCHANGED <<overlay, app, answer, day, starts, active, ended>>
-----------------------------------------------------------------------------
(* Restarts.                                                                 *)

Down ==
    /\ app' = "down" /\ overlay' = Empty /\ answer' = <<>> /\ writing' = NoSave /\ ended' = {}
    /\ UNCHANGED <<day, starts, active>>

\* The page is unloaded: its last save leaves out the groups, and may come too late.
Quit ==
    /\ Running /\ ~writing.on
    /\ \/ UNCHANGED file
       \/ /\ overlay.sessions # <<>>
          /\ file' = [state |-> "whole", entries |-> overlay.sessions]
    /\ Down

\* A kill, in the middle of a save too.
Kill == Running /\ UNCHANGED file /\ Down

Start ==
    /\ app = "down" /\ starts < MaxStarts
    /\ app' = "loading" /\ starts' = starts + 1
    /\ UNCHANGED <<file, overlay, answer, writing, day, active, ended>>

\* Mutant: an entry is kept for a day more each time it is loaded.
Renewed(entries) ==
    [k \in DOMAIN Sessions(entries) |-> [Sessions(entries)[k] EXCEPT !.state = "completed", !.at = day]]

\* What is recent enough, as completed.  An entry without a day is never recent,
\* and that is the one with the groups.
Cleaned(entries) ==
    LET sessions == Sessions(entries)
        recent == Keep(sessions, {k \in DOMAIN sessions : sessions[k].at + Expiry >= day})
    IN  [k \in DOMAIN recent |-> [recent[k] EXCEPT !.state = "completed"]]

\* load_sessions.  A file that is missing and one that cannot be read end alike.
Load ==
    /\ app = "loading" /\ ~writing.on
    /\ answer' = Cleaned(file.entries)
    /\ app' = "restoring"
    /\ UNCHANGED <<file, overlay, writing, day, starts, active, ended>>

\* Mutant: a session that is there already ends the restore.
RestoreUntilKnown ==
    /\ app = "restoring"
    /\ LET known == {k \in DOMAIN answer : answer[k].id \in IdsIn(overlay.sessions)}
           end == IF known = {} THEN Len(answer) ELSE (CHOOSE k \in known : \A j \in known : k <= j) - 1
       IN  overlay' = [overlay EXCEPT !.sessions = @ \o SubSeq(answer, 1, end)]
    /\ app' = "up" /\ answer' = <<>>
    /\ UNCHANGED <<file, writing, day, starts, active, ended>>

\* Mutant: nothing is skipped.
RestoreAll ==
    /\ app = "restoring"
    /\ overlay' = [overlay EXCEPT !.sessions = @ \o answer]
    /\ app' = "up" /\ answer' = <<>>
    /\ UNCHANGED <<file, writing, day, starts, active, ended>>

\* restoreSessions, from the answer on: what hooks have made meanwhile is kept.
Restore ==
    /\ app = "restoring"
    /\ overlay' = [overlay EXCEPT !.sessions =
          @ \o Keep(answer, {k \in DOMAIN answer : answer[k].id \notin IdsIn(@)})]
    /\ app' = "up" /\ answer' = <<>>
    /\ UNCHANGED <<file, writing, day, starts, active, ended>>
-----------------------------------------------------------------------------
StoreNext ==
    \/ \E i \in Ids : HookEvent(i) \/ RemoveSession(i)
    \/ \E g \in Groups : CreateGroup(g) \/ DeleteGroup(g)
    \/ DayPasses \/ BeginSave \/ EndSave
    \/ Start \/ Load \/ Restore \/ Quit \/ Kill
-----------------------------------------------------------------------------
(* Properties.                                                               *)

\* However events, saves and the restore of a start interleave, a session is in the
\* overlay once, and once in the file.
OneRowPerSession ==
    /\ \A i, j \in DOMAIN overlay.sessions : overlay.sessions[i].id = overlay.sessions[j].id => i = j
    /\ \A i, j \in DOMAIN Sessions(file.entries) :
          Sessions(file.entries)[i].id = Sessions(file.entries)[j].id => i = j

\* What a whole file holds and is not too old is in the overlay of a running app
\* too, if it was not removed since: no save can lose a session, however early it
\* came after the start.
FileIsOnScreen ==
    app = "up" =>
       \A i \in DOMAIN Sessions(file.entries) :
          LET e == Sessions(file.entries)[i]
          IN  e.at + Expiry >= day => e.id \in IdsIn(overlay.sessions) \cup ended

\* The day by which a session expires is one on which it had an event (a hook's, or
\* the watcher's that links a process to it, which the code counts too), and never an
\* earlier one than a save of the overlay has: no number of saves and restarts renews
\* a session, and none of them ages it (but one that is removed while the file is
\* being read comes back as the file had it).
ActivityIsTrue ==
    \A i \in DOMAIN overlay.sessions :
       LET s == overlay.sessions[i]
       IN  /\ s.at \in active[s.id]
           /\ app = "up" /\ s.id \notin ended => \A j \in DOMAIN Sessions(file.entries) :
                 Sessions(file.entries)[j].id = s.id => Sessions(file.entries)[j].at <= s.at
=============================================================================
