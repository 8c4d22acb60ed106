---------------------------- MODULE SessionFlow ----------------------------
(***************************************************************************)
(* Sessions and their two mirrors.  A hook handler changes a session by    *)
(* two paths: it applies AgentEvents to the backend's reducer              *)
(* (session_state.rs), which forwards each to the overlay as agent_event,  *)
(* and it emits events of its own (session_start, state_change, tool_use   *)
(* ...) straight to the overlay.  The overlay folds both kinds, in the     *)
(* order they were emitted, into its copy of the session                   *)
(* (session-reducer.ts, useAgentEvents.ts).                                *)
(*                                                                         *)
(* Handlers run concurrently and every apply and every emit is a step of   *)
(* its own, so a handler is here the sequence of the effects it has left.  *)
(***************************************************************************)
EXTENDS Naturals, Sequences, FiniteSets

CONSTANTS Sessions,
          Tools,      \* tool uses, by tool_use_id
          NameOf,     \* their tool names
          None,
          MaxHooks,   \* bound: hooks of all sessions
          MaxInFlight, \* bound: handlers of one session at a time
          MaxWire      \* bound: events the overlay has not handled

ToolHooks == {"PreToolUse", "PermissionRequest", "PostToolUse", "PostToolUseFailure",
              "PermissionDenied"}
PromptHooks == {"SessionStart", "UserPromptSubmit", "Stop", "StopFailure"}
NotificationHooks == {"permission_prompt", "idle_prompt", "notification"}
Hooks == ToolHooks \cup PromptHooks \cup NotificationHooks

ASSUME SessionAssumption ==
    /\ None \notin Tools \cup Hooks
    /\ \A t \in Tools : NameOf[t] # None
    /\ MaxHooks \in Nat /\ MaxInFlight \in Nat \ {0} /\ MaxWire \in Nat \ {0}

VARIABLES
    via,       \* the transport of a session's hooks, as its agent is configured
    backend,   \* SessionState: phase and current tool of a session
    ui,        \* the overlay's copy
    wire,      \* emitted and not yet handled by the overlay
    handlers,  \* the handlers under way; slot 0 is the title task of a Stop
    delayed,   \* title tasks that Stop handlers have left sleeping
    tools,     \* the agent's side: how far each tool use got
    last,      \* history: the hook of a session that started last
    alone,     \* history: ... and has had its session for itself since
    hooks      \* hooks so far

vars == <<via, backend, ui, wire, handlers, delayed, tools, last, alone, hooks>>

Phases == {"running", "waitingForApproval", "completed"}
States == Phases \cup {"idle"}
Names == {NameOf[t] : t \in Tools} \cup {"unknown"}
Slots == 1..MaxInFlight

\* The HTTP server has no route for two of the hooks the pipe knows.
HooksOf(s) ==
    Hooks \ (IF via[s] = "http" THEN {"StopFailure", "PermissionDenied"} ELSE {})

Idle == [hook |-> None, tool |-> None, left |-> <<>>]

SessionTypeOK ==
    /\ via \in [Sessions -> {"http", "pipe"}]
    /\ backend \in [Sessions -> [phase : Phases \cup {None}, tool : Tools \cup {None}]]
    /\ ui \in [Sessions -> [state : States \cup {None}, tool : Names \cup {None}]]
    /\ \A i \in 1..Len(wire) : wire[i].of \in Sessions
    /\ \A s \in Sessions, i \in 0..MaxInFlight :
          handlers[s][i] = Idle <=> handlers[s][i].left = <<>>
    /\ delayed \in [Sessions -> Nat]
    /\ tools \in [Sessions -> [Tools -> {"new", "used", "done", "dropped"}]]
    /\ last \in [Sessions -> Hooks \cup {None}]
    /\ alone \in [Sessions -> BOOLEAN]
    /\ hooks \in 0..MaxHooks

\* The app may have been started in the middle of an agent's turn.
Init ==
    /\ via \in [Sessions -> {"http", "pipe"}]
    /\ backend = [s \in Sessions |-> [phase |-> None, tool |-> None]]
    /\ ui = [s \in Sessions |-> [state |-> None, tool |-> None]]
    /\ wire = <<>>
    /\ handlers = [s \in Sessions |-> [i \in 0..MaxInFlight |-> Idle]]
    /\ delayed = [s \in Sessions |-> 0]
    /\ tools \in [Sessions -> [Tools -> {"new", "used"}]]
    /\ last = [s \in Sessions |-> None]
    /\ alone = [s \in Sessions |-> FALSE]
    /\ hooks = 0
-----------------------------------------------------------------------------
(* Effects.  An event is its type, its state or outcome, and its tool use.   *)

Event(type, arg, t) == [type |-> type, arg |-> arg, tool |-> t]
Apply(type, arg, t) == [do |-> "apply", event |-> Event(type, arg, t)]
Emit(type, arg, t) == [do |-> "emit", event |-> Event(type, arg, t)]

Activity(phase) == Apply("activityUpdated", phase, None)
StateChange(state) == Emit("state_change", state, None)

\* The phase a title refresh puts its session in.
\* Mutant: whoever calls it, the session runs.
RefreshAlwaysRuns(caller) == "running"
RefreshPhase(caller) == IF caller = "Stop" THEN "completed" ELSE "running"

\* try_refresh_title, when it is not throttled and finds a title.
RefreshTitle(caller) == <<Activity(RefreshPhase(caller)), StateChange(RefreshPhase(caller))>>

\* to_tool_use_completed.  A success is a payload without an "error" key; the
\* HTTP server's payload always has one, null if there was no error.
ToolUseCompleted(s, t, failed) ==
    Apply("toolUseCompleted",
          IF failed THEN "failed" ELSE IF via[s] = "http" THEN "unmarked" ELSE "succeeded", t)

\* to_permission_requested looks for the tool's name in the first suggestion.
NamesAsked(t) == {NameOf[t], "unknown"}

\* handle_permission_request ends with a state_change if the user decided; the
\* pipe's handler never tells the overlay that the wait is over.
AfterPermission(s) ==
    IF via[s] = "http" THEN {<<>>, <<StateChange("running")>>} ELSE {<<>>}

AfterPostToolUse(s) ==
    IF via[s] = "http" THEN {<<>>, RefreshTitle("PostToolUse")} ELSE {<<>>}

\* Mutant: handle_stop on the pipe does not reach the reducer.
StopOnlyEmits(s) ==
    <<StateChange("completed")>> \o
        (IF via[s] = "pipe" THEN <<>> ELSE <<Apply("sessionCompleted", None, None)>>)
StopEffects(s) == <<StateChange("completed"), Apply("sessionCompleted", None, None)>>

\* What the handler of a hook does, in order; more than one where that depends
\* on data the model leaves out.
Scripts(s, h, t) ==
    CASE h = "SessionStart" ->
           {<<Emit("session_start", None, None), Apply("sessionStarted", None, None),
              StateChange("idle")>>}
      [] h = "UserPromptSubmit" -> {<<Activity("running"), StateChange("running")>>}
      [] h = "PreToolUse" ->
           {<<Emit("session_start", None, None), StateChange("running"), Activity("running"),
              Apply("toolUseStarted", None, t), Emit("tool_use", None, t)>>}
      [] h = "PermissionRequest" ->
           {<<Apply("permissionRequested", name, t), Emit("permission_request", None, t),
              StateChange("waitingForApproval")>> \o end :
                 name \in NamesAsked(t), end \in AfterPermission(s)}
      [] h = "PostToolUse" ->
           {<<ToolUseCompleted(s, t, FALSE), Emit("tool_complete", None, t),
              StateChange("running")>> \o end : end \in AfterPostToolUse(s)}
      [] h = "PostToolUseFailure" ->
           {<<ToolUseCompleted(s, t, TRUE), Emit("tool_error", None, t),
              StateChange("completed")>>}
      [] h = "PermissionDenied" -> {<<StateChange("running")>>}
      [] h = "Stop" -> {StopEffects(s)}
      [] h = "StopFailure" -> {<<StateChange("completed")>>}
      [] h = "permission_prompt" ->
           {<<Activity("waitingForApproval"), StateChange("waitingForApproval")>>}
      [] h = "idle_prompt" -> {<<Activity("running"), StateChange("idle")>>}
      [] h = "notification" -> {<<Activity("running"), Emit("notification", None, None)>>}
-----------------------------------------------------------------------------
(* The two reducers.                                                         *)

\* Mutant: only a tool that succeeded is no longer current.
KeepFailedTool(b, e) ==
    IF e.arg = "succeeded" /\ b.tool = e.tool THEN None ELSE b.tool

\* add_tool_to_history aside, on_tool_use_completed clears by tool_use_id ...
ToolAfter(b, e) == IF b.tool = e.tool THEN None ELSE b.tool

\* SessionState::apply.  A session that is not known is made, completed, first.
Reduce(b, e) ==
    LET known == IF b.phase = None THEN "completed" ELSE b.phase IN
    CASE e.type \in {"sessionStarted", "sessionCompleted"} -> [b EXCEPT !.phase = "completed"]
      [] e.type = "activityUpdated" -> [b EXCEPT !.phase = e.arg]
      [] e.type = "permissionRequested" -> [b EXCEPT !.phase = "waitingForApproval"]
      [] e.type = "toolUseStarted" -> [phase |-> "running", tool |-> e.tool]
      [] e.type = "toolUseCompleted" ->
           [phase |-> IF e.arg = "succeeded" THEN known ELSE "completed",
            tool |-> ToolAfter(b, e)]

\* ... and sessionReducer by name, and fails a tool only if there is an error.
UiToolCompleted(u, e) ==
    [state |-> IF e.arg = "failed" THEN "completed"
               ELSE IF u.state = None THEN "idle" ELSE u.state,
     tool |-> IF u.tool = NameOf[e.tool] THEN None ELSE u.tool]

\* The listeners of useAgentEvents and sessionReducer.
Listen(u, e) ==
    CASE e.type \in {"session_start", "sessionStarted"} -> [u EXCEPT !.state = "idle"]
      [] e.type \in {"state_change", "activityUpdated"} -> [u EXCEPT !.state = e.arg]
      [] e.type = "sessionCompleted" -> [u EXCEPT !.state = "completed"]
      [] e.type = "permission_request" ->
           IF u.state = None THEN u ELSE [u EXCEPT !.state = "waitingForApproval"]
      [] e.type = "permissionRequested" ->
           [state |-> "waitingForApproval", tool |-> e.arg]
      [] e.type \in {"toolUseStarted", "tool_use"} ->
           [state |-> "running", tool |-> NameOf[e.tool]]
      [] e.type = "toolUseCompleted" -> UiToolCompleted(u, e)
      [] e.type \in {"tool_complete", "tool_error"} -> [u EXCEPT !.tool = None]
      [] e.type = "notification" -> u
-----------------------------------------------------------------------------
(* The agent.                                                                *)

InFlight(s) == {i \in 0..MaxInFlight : handlers[s][i] # Idle}

\* An agent waits for the answer to an HTTP hook.  The CLI it runs for a hook on
\* the pipe waits only for two of them, and exits once the others are written.
Waits(s, h) == via[s] = "http" \/ h \in {"PreToolUse", "PermissionRequest"}

\* Parallel tool calls run their hooks side by side, nothing else does.
MayOverlap(s, h, t) ==
    \A i \in InFlight(s) \ {0} :
       LET g == handlers[s][i] IN
       Waits(s, g.hook) => {g.hook, h} \subseteq ToolHooks /\ g.tool # t

ToolStep(h) ==
    CASE h = "PreToolUse" -> <<"new", "used">>
      [] h = "PermissionRequest" -> <<"used", "used">>
      [] h \in {"PostToolUse", "PostToolUseFailure"} -> <<"used", "done">>
      [] h = "PermissionDenied" -> <<"used", "dropped">>

Start(s, i, h, t) ==
    /\ \E script \in Scripts(s, h, t) :
          handlers' = [handlers EXCEPT ![s][i] = [hook |-> h, tool |-> t, left |-> script]]
    /\ last' = [last EXCEPT ![s] = h]
    /\ alone' = [alone EXCEPT ![s] = InFlight(s) = {}]
    /\ hooks' = hooks + 1
    /\ UNCHANGED <<via, backend, ui, wire, delayed>>

Free(s, i) == handlers[s][i] = Idle /\ hooks < MaxHooks

ToolHook(s, i, h, t) ==
    /\ Free(s, i)
    /\ h \in ToolHooks \cap HooksOf(s)
    /\ MayOverlap(s, h, t)
    /\ tools[s][t] = ToolStep(h)[1]
    /\ tools' = [tools EXCEPT ![s][t] = ToolStep(h)[2]]
    /\ Start(s, i, h, t)

\* A prompt, an end of turn or a new start comes between tool calls.
PromptHook(s, i, h) ==
    /\ Free(s, i)
    /\ h \in PromptHooks \cap HooksOf(s)
    /\ MayOverlap(s, h, None)
    /\ \A t \in Tools : tools[s][t] # "used"
    /\ Start(s, i, h, None)
    /\ UNCHANGED tools

NotificationHook(s, i, h) ==
    /\ Free(s, i)
    /\ h \in NotificationHooks
    /\ MayOverlap(s, h, None)
    /\ Start(s, i, h, None)
    /\ UNCHANGED tools

\* A tool the user denied, or interrupted, is not run: no hook says so.
DropTool(s, t) ==
    /\ tools[s][t] = "used"
    /\ \A i \in InFlight(s) : handlers[s][i].tool # t
    /\ tools' = [tools EXCEPT ![s][t] = "dropped"]
    /\ UNCHANGED <<via, backend, ui, wire, handlers, delayed, last, alone, hooks>>
-----------------------------------------------------------------------------
(* The handlers and the overlay.                                             *)

\* One apply or one emit.  apply emits under the lock of the session state.  The
\* handler that has nothing left returns; an HTTP Stop leaves a task behind.
Step(s, i) ==
    LET g == handlers[s][i]
        effect == Head(g.left)
        done == Len(g.left) = 1
    IN
    /\ g # Idle
    /\ Len(wire) < MaxWire
    /\ wire' = Append(wire, [of |-> s, event |-> effect.event])
    /\ backend' = IF effect.do = "apply"
                  THEN [backend EXCEPT ![s] = Reduce(@, effect.event)] ELSE backend
    /\ handlers' = [handlers EXCEPT ![s][i] =
                       IF done THEN Idle ELSE [g EXCEPT !.left = Tail(@)]]
    /\ delayed' = [delayed EXCEPT ![s] =
                      IF done /\ g.hook = "Stop" /\ via[s] = "http" /\ i # 0 THEN @ + 1 ELSE @]
    /\ UNCHANGED <<via, ui, tools, last, alone, hooks>>

\* 200 ms later: the task ends at once if it finds no title.
TitleTask(s) ==
    /\ delayed[s] > 0
    /\ handlers[s][0] = Idle
    /\ delayed' = [delayed EXCEPT ![s] = @ - 1]
    /\ \/ /\ handlers' = [handlers EXCEPT ![s][0] =
                             [hook |-> "Stop", tool |-> None, left |-> RefreshTitle("Stop")]]
          /\ alone' = [alone EXCEPT ![s] = FALSE]
       \/ UNCHANGED <<handlers, alone>>
    /\ UNCHANGED <<via, backend, ui, wire, tools, last, hooks>>

HandleEvent ==
    /\ wire # <<>>
    /\ LET m == Head(wire) IN ui' = [ui EXCEPT ![m.of] = Listen(@, m.event)]
    /\ wire' = Tail(wire)
    /\ UNCHANGED <<via, backend, handlers, delayed, tools, last, alone, hooks>>

Next ==
    \/ \E s \in Sessions :
          \/ \E i \in Slots :
                \/ \E h \in ToolHooks, t \in Tools : ToolHook(s, i, h, t)
                \/ \E h \in PromptHooks : PromptHook(s, i, h)
                \/ \E h \in NotificationHooks : NotificationHook(s, i, h)
          \/ \E i \in 0..MaxInFlight : Step(s, i)
          \/ \E t \in Tools : DropTool(s, t)
          \/ TitleTask(s)
    \/ HandleEvent

Spec == Init /\ [][Next]_vars
-----------------------------------------------------------------------------
(* Properties.                                                               *)

\* No handler of the session is under way and the overlay has heard everything.
AtRest(s) ==
    /\ \A i \in Slots : handlers[s][i] = Idle
    /\ \A i \in 1..Len(wire) : wire[i].of # s

\* The overlay shows the reducer's phase; "idle" is the overlay's own word for a
\* session that is completed and has only started.
Agrees(s) ==
    \/ backend[s].phase = ui[s].state
    \/ backend[s].phase = "completed" /\ ui[s].state = "idle"

\* The state-machine specification's "Stop Phase Permanence": the last hook being
\* a Stop, the session stays completed in both mirrors, whatever the title task
\* of this or an earlier Stop does, and when.  (HTTP: on the pipe hooks overtake.)
StopIsFinal ==
    \A s \in Sessions :
       via[s] = "http" /\ last[s] = "Stop" /\ AtRest(s)
          => ui[s].state = "completed" /\ backend[s].phase = "completed"

\* Where the two paths of one handler tell different things: a finished tool puts the
\* overlay to running, over HTTP the reducer to completed (no title was found), on the
\* pipe the reducer stays where it was; a decided HTTP request waits on in the reducer
\* alone; an idle agent runs in the reducer and is idle in the overlay.
Parted(s) ==
    \/ /\ last[s] = "PostToolUse" /\ ui[s].state = "running"
       /\ via[s] = "http" => backend[s].phase = "completed"
    \/ /\ last[s] = "PermissionRequest" /\ via[s] = "http"
       /\ backend[s].phase = "waitingForApproval" /\ ui[s].state = "running"
    \/ last[s] = "idle_prompt" /\ backend[s].phase = "running" /\ ui[s].state = "idle"

\* A hook that both paths report, if no other handler runs beside it, leaves the mirrors
\* equal in whatever state the earlier ones left them, but for three hooks that part
\* them, each in the one way it has.  (The other two hooks tell the overlay alone.)
LoneHookAgrees ==
    \A s \in Sessions :
       alone[s] /\ AtRest(s) /\ last[s] \in Hooks \ {"PermissionDenied", "StopFailure"}
          => Agrees(s) \/ Parted(s)

\* Once every tool call was reported complete, no mirror shows a current tool,
\* whatever the order of the reports: one clears by id, the other by name.
NoStuckTool ==
    \A s \in Sessions :
       AtRest(s) /\ (\A t \in Tools : tools[s][t] \in {"new", "done"})
          => ui[s].tool = None /\ backend[s].tool = None
=============================================================================
