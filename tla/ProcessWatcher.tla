--------------------------- MODULE ProcessWatcher ---------------------------
(***************************************************************************)
(* The process watcher (process_watcher.rs) and what the overlay makes of  *)
(* its events (useAgentEvents.ts).  A watcher is a thread with a state of  *)
(* its own that polls the processes; it can be stopped and started again,  *)
(* and the thread of a stopped one ends at its next look at its flag.      *)
(*                                                                         *)
(* Processes are identified by pid only, and the system reuses pids: a     *)
(* process of the model has one life, and two may have the same pid, not   *)
(* at the same time.                                                       *)
(***************************************************************************)
EXTENDS Naturals, Sequences, FiniteSets

CONSTANTS Procs,        \* agent processes, each with one life
          PidOf,
          AgentOf,      \* the agent of a process or a session
          HookSessions, \* sessions that hooks made and that have no terminal
          None,
          MaxWatchers,  \* bound: watchers started
          MaxNotices    \* bound: notices waiting when a watcher adds its own

ASSUME WatcherAssumption ==
    /\ IsFiniteSet(Procs)
    /\ None \notin Procs \cup {PidOf[x] : x \in Procs}
    /\ MaxWatchers \in Nat \ {0} /\ MaxNotices \in Nat

VARIABLES
    life,       \* of each process: "unborn", "live" or "gone"
    watchers,   \* the watchers started, in order
    current,    \* PROCESS_WATCHER_STATE: the number of a watcher, or 0
    notices,    \* emitted and not yet handled by the overlay
    linked,     \* of each hook session: its pid and whether it is detached
    rows        \* the overlay's sessions made for a process, as often as added

watcherVars == <<life, watchers, current, notices, linked, rows>>

Pids == {PidOf[x] : x \in Procs}
Live == {x \in Procs : life[x] = "live"}
PidsOf(S) == {PidOf[x] : x \in S}

WatcherTypeOK ==
    /\ life \in [Procs -> {"unborn", "live", "gone"}]
    /\ watchers \in Seq([running : BOOLEAN, failed : BOOLEAN, detected : SUBSET Procs,
                         at : {"idle", "update", "over"}, scan : SUBSET Procs])
    /\ current \in 0..Len(watchers) /\ Len(watchers) <= MaxWatchers
    /\ notices \in Seq([type : {"detected", "terminated"}, proc : Procs])
    /\ linked \in [HookSessions -> [pid : Pids \cup {None}, detached : BOOLEAN]]
    /\ rows \in Seq([proc : Procs, detached : BOOLEAN])

WatcherInit ==
    /\ life \in [Procs -> {"unborn", "live"}]
    /\ \A x, y \in Live : PidOf[x] = PidOf[y] => x = y
    /\ watchers = <<>> /\ current = 0
    /\ notices = <<>>
    /\ linked = [s \in HookSessions |-> [pid |-> None, detached |-> FALSE]]
    /\ rows = <<>>
-----------------------------------------------------------------------------
(* The system.                                                               *)

Begins(x) ==
    /\ life[x] = "unborn" /\ PidOf[x] \notin PidsOf(Live)
    /\ life' = [life EXCEPT ![x] = "live"]
    /\ UNCHANGED <<watchers, current, notices, linked, rows>>

Ends(x) ==
    /\ life[x] = "live"
    /\ life' = [life EXCEPT ![x] = "gone"]
    /\ UNCHANGED <<watchers, current, notices, linked, rows>>
-----------------------------------------------------------------------------
(* The watcher.                                                              *)

Fresh == [running |-> TRUE, failed |-> FALSE, at |-> "idle", scan |-> {}, detected |-> {}]

StartWatcher ==
    /\ current # 0 => ~watchers[current].running
    /\ Len(watchers) < MaxWatchers
    /\ watchers' = Append(watchers, Fresh)
    /\ current' = Len(watchers) + 1
    /\ UNCHANGED <<life, notices, linked, rows>>

\* Mutant: the state is dropped, and its thread not told.
ForgetWatcher ==
    /\ current # 0 /\ watchers[current].running
    /\ current' = 0
    /\ UNCHANGED <<life, watchers, notices, linked, rows>>

StopWatcher ==
    /\ current # 0 /\ watchers[current].running
    /\ watchers' = [watchers EXCEPT ![current].running = FALSE]
    /\ current' = 0
    /\ UNCHANGED <<life, notices, linked, rows>>

\* The sleep is over: the flag is looked at, and the processes enumerated.  An error
\* ends the thread and leaves the flag as it is.
Poll(i) ==
    /\ watchers[i].at = "idle"
    /\ \/ /\ ~watchers[i].running
          /\ watchers' = [watchers EXCEPT ![i].at = "over"]
       \/ /\ watchers[i].running
          /\ watchers' = [watchers EXCEPT ![i].at = "update", ![i].scan = Live]
    /\ UNCHANGED <<life, current, notices, linked, rows>>

PollFails(i) ==
    /\ watchers[i].at = "idle" /\ watchers[i].running
    /\ watchers' = [watchers EXCEPT ![i].at = "over", ![i].failed = TRUE]
    /\ UNCHANGED <<life, current, notices, linked, rows>>

Notice(type, S) == {[type |-> type, proc |-> x] : x \in S}

Listed(S) == {q \in [1..Cardinality(S) -> S] : \A a, b \in DOMAIN q : q[a] = q[b] => a = b}

\* What a scan adds and removes.  Both go by the pid: a process that took the pid
\* of one that ended since the last scan is neither added nor is that one removed.
Departed(detected, scan) == {x \in detected : PidOf[x] \notin PidsOf(scan)}
Arrived(detected, scan) == {x \in scan : PidOf[x] \notin PidsOf(detected)}

\* Mutant: those that are gone are reported, and kept in the map.
ReportOnly(i) ==
    LET w == watchers[i]
    IN  watchers' = [watchers EXCEPT ![i].detected = @ \cup Arrived(w.detected, w.scan),
                                     ![i].scan = {}, ![i].at = "idle"]

Remember(i) ==
    LET w == watchers[i]
    IN  watchers' = [watchers EXCEPT
            ![i].detected = (@ \ Departed(w.detected, w.scan))
                               \cup Arrived(w.detected, w.scan),
            ![i].scan = {}, ![i].at = "idle"]

\* update_detected_processes: terminated first, in the order of a hash map, then
\* detected, in the order of the snapshot.
Update(i) ==
    /\ watchers[i].at = "update" /\ Len(notices) <= MaxNotices
    /\ \E gone \in Listed(Notice("terminated", Departed(watchers[i].detected, watchers[i].scan))),
          new \in Listed(Notice("detected", Arrived(watchers[i].detected, watchers[i].scan))) :
          notices' = notices \o gone \o new
    /\ Remember(i)
    /\ UNCHANGED <<life, current, linked, rows>>
-----------------------------------------------------------------------------
(* The overlay.                                                              *)

\* A new process is linked to a session of its agent that has no terminal, one that
\* is linked already included, and otherwise gets a row of its own; addSession
\* appends, whatever ids there are.
HandleDetected(x) ==
    LET same == {s \in HookSessions : AgentOf[s] = AgentOf[x]} IN
    IF same # {}
    THEN /\ \E s \in same : linked' = [linked EXCEPT ![s].pid = PidOf[x]]
         /\ UNCHANGED rows
    ELSE /\ rows' = Append(rows, [proc |-> x, detached |-> FALSE])
         /\ UNCHANGED linked

\* Mutant: every session of the agent is taken for the one that ended.
DetachAgent(x) ==
    /\ rows' = [k \in DOMAIN rows |->
                  IF PidOf[rows[k].proc] = PidOf[x] THEN [rows[k] EXCEPT !.detached = TRUE] ELSE rows[k]]
    /\ linked' = [s \in HookSessions |->
                  IF AgentOf[s] = AgentOf[x] THEN [linked[s] EXCEPT !.detached = TRUE] ELSE linked[s]]

HandleTerminated(x) ==
    /\ rows' = [k \in DOMAIN rows |->
                  IF PidOf[rows[k].proc] = PidOf[x] THEN [rows[k] EXCEPT !.detached = TRUE] ELSE rows[k]]
    /\ linked' = [s \in HookSessions |->
                  IF linked[s].pid = PidOf[x] THEN [linked[s] EXCEPT !.detached = TRUE] ELSE linked[s]]

HandleNotice ==
    /\ notices # <<>>
    /\ LET n == Head(notices)
       IN  IF n.type = "detected" THEN HandleDetected(n.proc) ELSE HandleTerminated(n.proc)
    /\ notices' = Tail(notices)
    /\ UNCHANGED <<life, watchers, current>>
-----------------------------------------------------------------------------
WatcherTurn(i) == i \in DOMAIN watchers /\ (Poll(i) \/ Update(i))

WatcherNext ==
    \/ \E x \in Procs : Begins(x) \/ Ends(x)
    \/ StartWatcher \/ StopWatcher
    \/ \E i \in DOMAIN watchers : Poll(i) \/ PollFails(i) \/ Update(i)
    \/ HandleNotice

\* A thread runs on, its sleeps end, and the overlay's event loop runs.
WatcherFairness ==
    /\ \A i \in 1..MaxWatchers : WF_watcherVars(WatcherTurn(i))
    /\ WF_watcherVars(HandleNotice)
-----------------------------------------------------------------------------
(* Properties.                                                               *)

\* Sessions of the overlay that show pid p as running.
Shown(p) ==
    \/ \E s \in HookSessions : linked[s].pid = p /\ ~linked[s].detached
    \/ \E k \in DOMAIN rows : PidOf[rows[k].proc] = p /\ ~rows[k].detached

\* A session becomes detached only when a process with its pid has ended, in
\* whatever order the restarts of the watcher and the reuse of pids put the events.
DetachedByExit ==
    [][/\ \A s \in HookSessions : linked'[s].detached /\ ~linked[s].detached
             => \E x \in Procs : PidOf[x] = linked[s].pid /\ life[x] = "gone"
       /\ \A k \in DOMAIN rows : rows'[k].detached /\ ~rows[k].detached
             => \E x \in Procs : PidOf[x] = PidOf[rows[k].proc] /\ life[x] = "gone"]_watcherVars

\* However often the watcher is stopped and started, only the current one begins
\* another poll: two loops would report every process twice.
OneWatcherPolls ==
    [][\A i \in DOMAIN watchers :
          watchers[i].at = "idle" /\ watchers'[i].at = "update" => i = current]_watcherVars

\* Liveness: as long as the current watcher has not failed on an enumeration it
\* catches up with the system, by pid, and the overlay with what the first
\* watcher saw.  What ends while no watcher runs is never reported: a watcher
\* begins with an empty map, so the second part is about the first one only.
WatcherCatchesUp ==
    \A i \in 1..MaxWatchers :
       []<>(\/ current # i
            \/ watchers[i].failed
            \/ /\ PidsOf(watchers[i].detected) = PidsOf(Live)
               /\ i = 1 => \A p \in Pids : Shown(p) => p \in PidsOf(Live))
=============================================================================
