-------------------------- MODULE SessionFlowProofs --------------------------
(* Theorems about the two mirrors of a session, for any sessions, tools,       *)
(* handlers in flight and events under way: the last word of a Stop, how a lone *)
(* hook leaves the mirrors, and the tools that are no longer current.           *)
EXTENDS SessionFlow, TLAPS, SequenceTheorems
-----------------------------------------------------------------------------
(* What events do to the mirrors, whatever they were.                        *)

\* The hooks that both paths report, and what one leaves over transport v: the phases
\* in the reducer and the states in the overlay.
Lone == Hooks \ {"PermissionDenied", "StopFailure"}
AnyPhase == Phases \cup {None}
PhasesAfter(v, h) ==
    IF h \in {"UserPromptSubmit", "PreToolUse", "idle_prompt", "notification"} THEN {"running"}
    ELSE IF h \in {"PermissionRequest", "permission_prompt"} THEN {"waitingForApproval"}
    ELSE IF h = "PostToolUse" THEN IF v = "http" THEN {"running", "completed"} ELSE AnyPhase
    ELSE {"completed"}
StatesAfter(v, h) ==
    IF h \in {"SessionStart", "idle_prompt"} THEN {"idle"}
    ELSE IF h \in {"UserPromptSubmit", "PreToolUse", "PostToolUse", "notification"} THEN {"running"}
    ELSE IF h = "permission_prompt" THEN {"waitingForApproval"}
    ELSE IF h = "PermissionRequest"
         THEN {"waitingForApproval"} \cup (IF v = "http" THEN {"running"} ELSE {})
    ELSE {"completed"}

LeavesState(e, v) ==
    \/ e.type \in {"state_change", "activityUpdated"} /\ e.arg = v
    \/ e.type = "sessionCompleted" /\ v = "completed"
    \/ e.type \in {"toolUseStarted", "tool_use"} /\ v = "running"
LeavesPhase(e, v) ==
    \/ e.type \in {"sessionStarted", "sessionCompleted"} /\ v = "completed"
    \/ e.type = "activityUpdated" /\ e.arg = v
    \/ e.type = "permissionRequested" /\ v = "waitingForApproval"
    \/ e.type = "toolUseStarted" /\ v = "running"
    \/ e.type = "toolUseCompleted" /\ e.arg # "succeeded" /\ v = "completed"

LeavesOneOf(e, S) == S = AnyPhase \/ \E v \in S : LeavesPhase(e, v)

\* A notification says nothing of the session's state.
Tells(e) == e.type # "notification"

\* The events that make a tool the overlay's current one, and those that end any.
Sets(e) == e.type \in {"toolUseStarted", "tool_use", "permissionRequested"}
Clears(e) == e.type \in {"tool_complete", "tool_error"}

Applies(left) == \E k \in DOMAIN left : left[k].do = "apply"
Telling(left) == \E k \in DOMAIN left : Tells(left[k].event)
-----------------------------------------------------------------------------
(* The inductive invariant.                                                  *)

Shape(type, arg, tool) == [type : type, arg : arg, tool : tool]
AppliedEvents ==
    Shape({"sessionStarted", "sessionCompleted"}, {None}, {None})
    \cup Shape({"activityUpdated"}, Phases, {None})
    \cup Shape({"toolUseStarted"}, {None}, Tools)
    \cup Shape({"permissionRequested"}, Names, Tools)
    \cup Shape({"toolUseCompleted"}, {"failed", "unmarked", "succeeded"}, Tools)
EmittedEvents ==
    Shape({"session_start", "notification"}, {None}, {None})
    \cup Shape({"state_change"}, States, {None})
    \cup Shape({"permission_request", "tool_use", "tool_complete", "tool_error"}, {None}, Tools)
Events == AppliedEvents \cup EmittedEvents
Effects == [do : {"apply"}, event : AppliedEvents] \cup [do : {"emit"}, event : EmittedEvents]
Wired == [of : Sessions, event : Events]
Handlers == [hook : Hooks \cup {None}, tool : Tools \cup {None}, left : Seq(Effects)]

FlowTypes ==
    /\ via \in [Sessions -> {"http", "pipe"}]
    /\ backend \in [Sessions -> [phase : Phases \cup {None}, tool : Tools \cup {None}]]
    /\ ui \in [Sessions -> [state : States \cup {None}, tool : Names \cup {None}]]
    /\ wire \in Seq(Wired)
    /\ handlers \in [Sessions -> [0..MaxInFlight -> Handlers]]
    /\ delayed \in [Sessions -> Nat]
    /\ tools \in [Sessions -> [Tools -> {"new", "used", "done", "dropped"}]]
    /\ last \in [Sessions -> Hooks \cup {None}]
    /\ alone \in [Sessions -> BOOLEAN]
    /\ hooks \in 0..MaxHooks

\* What a handler of hook h for tool t may have left: the effects of a Stop all leave
\* the session completed, a lone hook's last apply and the last effect that tells a
\* state decide, and the tool is the handler's.
Proper(v, h, t, left) ==
    /\ left # <<>>
    /\ \A k \in DOMAIN left :
          LET e == left[k].event IN
          /\ Sets(e) => h \in {"PreToolUse", "PermissionRequest"} /\ e.tool = t
          /\ e.type = "toolUseCompleted" => e.tool = t
          /\ h = "Stop" => /\ LeavesState(e, "completed")
                           /\ left[k].do = "apply" => LeavesPhase(e, "completed")
          /\ /\ h \in Lone /\ left[k].do = "apply"
             /\ \A j \in DOMAIN left : k < j => left[j].do # "apply"
             => LeavesOneOf(e, PhasesAfter(v, h))
          /\ /\ h \in Lone /\ Tells(e)
             /\ \A j \in DOMAIN left : k < j => ~Tells(left[j].event)
             => \E x \in StatesAfter(v, h) : LeavesState(e, x)

HandlersProper ==
    \A s \in Sessions :
       /\ \A i \in 0..MaxInFlight :
             handlers[s][i] # Idle =>
                LET g == handlers[s][i] IN
                /\ g.hook \in Hooks /\ Proper(via[s], g.hook, g.tool, g.left)
                /\ g.hook \in {"PreToolUse", "PermissionRequest"} =>
                      g.tool \in Tools /\ tools[s][g.tool] = "used"
       /\ handlers[s][0] # Idle => handlers[s][0].hook = "Stop"

\* The last hook of s decides alone what its mirrors will show.
Decides(s) == (via[s] = "http" /\ last[s] = "Stop") \/ (alone[s] /\ last[s] \in Lone)

\* Once it has handled the wire, the overlay will show s in state v.
Heard(m, s) == m.of = s /\ Tells(m.event)
Coming(s, v) ==
    /\ (\A k \in DOMAIN wire : ~Heard(wire[k], s)) => ui[s].state = v
    /\ \A k \in DOMAIN wire :
          Heard(wire[k], s) /\ (\A j \in DOMAIN wire : k < j => ~Heard(wire[j], s))
             => LeavesState(wire[k].event, v)
WillShow(s, S) == \E v \in S : Coming(s, v)

DecidersRule ==
    \A s \in Sessions : Decides(s) =>
       /\ \A i \in 0..MaxInFlight : handlers[s][i] # Idle => handlers[s][i].hook = last[s]
       /\ \A i, j \in Slots : handlers[s][i] # Idle /\ handlers[s][j] # Idle => i = j
       /\ (\A i \in Slots : ~Telling(handlers[s][i].left)) => WillShow(s, StatesAfter(via[s], last[s]))
       /\ (\A i \in Slots : ~Applies(handlers[s][i].left))
             => backend[s].phase \in PhasesAfter(via[s], last[s])

\* A tool is open until the report that clears it: for the overlay any report does,
\* for the reducer that of the tool.
InUse(s, t) == tools[s][t] \in {"used", "dropped"}
WillClear(s, t) ==
    \E i \in Slots : handlers[s][i].tool = t /\
       \E k \in DOMAIN handlers[s][i].left : Clears(handlers[s][i].left[k].event)
WillComplete(s, t) ==
    \E i \in Slots : handlers[s][i].tool = t /\
       \E k \in DOMAIN handlers[s][i].left : handlers[s][i].left[k].event.type = "toolUseCompleted"

ReducersTool ==
    \A s \in Sessions : backend[s].tool # None =>
       InUse(s, backend[s].tool) \/ WillComplete(s, backend[s].tool)

ClearedAfter(s, k) == \E j \in DOMAIN wire : k < j /\ wire[j].of = s /\ Clears(wire[j].event)

OverlaysTool ==
    \A s \in Sessions :
       /\ \A k \in DOMAIN wire :
             wire[k].of = s /\ Sets(wire[k].event) =>
                \/ ClearedAfter(s, k)
                \/ \E t \in Tools : InUse(s, t) \/ WillClear(s, t)
       /\ ui[s].tool # None =>
                \/ ClearedAfter(s, 0)
                \/ \E t \in Tools : InUse(s, t) \/ WillClear(s, t)

FlowInv == FlowTypes /\ HandlersProper /\ DecidersRule /\ ReducersTool /\ OverlaysTool
-----------------------------------------------------------------------------
(* One event, in either mirror.                                              *)

Backends == [phase : Phases \cup {None}, tool : Tools \cup {None}]
Shown == [state : States \cup {None}, tool : Names \cup {None}]

LEMMA Reduced ==
    ASSUME NEW b \in Backends, NEW e \in AppliedEvents
    PROVE  /\ Reduce(b, e) \in Backends
           /\ \A v : LeavesPhase(e, v) => Reduce(b, e).phase = v
           /\ \A S : LeavesOneOf(e, S) => Reduce(b, e).phase \in S
           /\ e.type = "toolUseStarted" => Reduce(b, e).tool = e.tool /\ e.tool \in Tools
           /\ e.type = "toolUseCompleted" =>
                 Reduce(b, e).tool = IF b.tool = e.tool THEN None ELSE b.tool
           /\ e.type \notin {"toolUseStarted", "toolUseCompleted"} => Reduce(b, e).tool = b.tool
<1> USE DEF LeavesPhase, LeavesOneOf, AnyPhase, Backends
<1>1. CASE e \in Shape({"sessionStarted", "sessionCompleted"}, {None}, {None})
  <2>1. e.type \in {"sessionStarted", "sessionCompleted"}
    BY <1>1 DEF Shape
  <2>2. Reduce(b, e) = [b EXCEPT !.phase = "completed"]
    BY <2>1 DEF Reduce
  <2> QED
    BY <2>1, <2>2 DEF Phases
<1>2. CASE e \in Shape({"activityUpdated"}, Phases, {None})
  <2>1. e.type = "activityUpdated" /\ e.arg \in Phases
    BY <1>2 DEF Shape
  <2>2. Reduce(b, e) = [b EXCEPT !.phase = e.arg]
    BY <2>1 DEF Reduce
  <2> QED
    BY <2>1, <2>2 DEF Phases
<1>3. CASE e \in Shape({"toolUseStarted"}, {None}, Tools)
  <2>1. e.type = "toolUseStarted" /\ e.tool \in Tools
    BY <1>3 DEF Shape
  <2>2. Reduce(b, e) = [phase |-> "running", tool |-> e.tool]
    BY <2>1 DEF Reduce
  <2> QED
    BY <2>1, <2>2 DEF Phases
<1>4. CASE e \in Shape({"permissionRequested"}, Names, Tools)
  <2>1. e.type = "permissionRequested"
    BY <1>4 DEF Shape
  <2>2. Reduce(b, e) = [b EXCEPT !.phase = "waitingForApproval"]
    BY <2>1 DEF Reduce
  <2> QED
    BY <2>1, <2>2 DEF Phases
<1>5. CASE e \in Shape({"toolUseCompleted"}, {"failed", "unmarked", "succeeded"}, Tools)
  <2>1. e.type = "toolUseCompleted"
    BY <1>5 DEF Shape
  <2>2. Reduce(b, e) = [phase |-> IF e.arg = "succeeded"
                                  THEN IF b.phase = None THEN "completed" ELSE b.phase ELSE "completed",
                        tool |-> IF b.tool = e.tool THEN None ELSE b.tool]
    BY <2>1 DEF Reduce, ToolAfter
  <2> QED
    BY <2>1, <2>2 DEF Phases
<1> QED
  BY <1>1, <1>2, <1>3, <1>4, <1>5 DEF AppliedEvents

LEMMA Listened ==
    ASSUME NEW u \in Shown, NEW e \in Events
    PROVE  /\ Listen(u, e) \in Shown
           /\ \A v : LeavesState(e, v) => Listen(u, e).state = v
           /\ ~Tells(e) => Listen(u, e).state = u.state
           /\ Clears(e) => Listen(u, e).tool = None
           /\ ~Sets(e) => Listen(u, e).tool \in {u.tool, None}
<1> USE DEF LeavesState, Tells, Clears, Sets, Shown
<1>0. None \notin Tools /\ \A t \in Tools : NameOf[t] \in Names
  BY SessionAssumption DEF Names
<1>1. CASE e.type \in {"session_start", "sessionStarted"}
  <2>1. Listen(u, e) = [u EXCEPT !.state = "idle"]
    BY <1>1 DEF Listen
  <2> QED
    BY <1>1, <2>1 DEF States
<1>2. CASE e.type \in {"state_change", "activityUpdated"}
  <2>1. Listen(u, e) = [u EXCEPT !.state = e.arg]
    BY <1>2 DEF Listen
  <2>2. e.arg \in States
    BY <1>2 DEF Events, AppliedEvents, EmittedEvents, Shape, States
  <2> QED
    BY <1>2, <2>1, <2>2
<1>3. CASE e.type = "sessionCompleted"
  <2>1. Listen(u, e) = [u EXCEPT !.state = "completed"]
    BY <1>3 DEF Listen
  <2> QED
    BY <1>3, <2>1 DEF States, Phases
<1>4. CASE e.type = "permission_request"
  <2>1. Listen(u, e) = IF u.state = None THEN u ELSE [u EXCEPT !.state = "waitingForApproval"]
    BY <1>4 DEF Listen
  <2> QED
    BY <1>4, <2>1 DEF States, Phases
<1>5. CASE e.type = "permissionRequested"
  <2>1. Listen(u, e) = [state |-> "waitingForApproval", tool |-> e.arg]
    BY <1>5 DEF Listen
  <2>2. e.arg \in Names
    BY <1>5 DEF Events, AppliedEvents, EmittedEvents, Shape
  <2> QED
    BY <1>5, <2>1, <2>2 DEF States, Phases
<1>6. CASE e.type \in {"toolUseStarted", "tool_use"}
  <2>1. Listen(u, e) = [state |-> "running", tool |-> NameOf[e.tool]]
    BY <1>6 DEF Listen
  <2>2. e.tool \in Tools
    BY <1>6 DEF Events, AppliedEvents, EmittedEvents, Shape
  <2> QED
    BY <1>0, <1>6, <2>1, <2>2 DEF States, Phases
<1>7. CASE e.type = "toolUseCompleted"
  <2>1. Listen(u, e) = UiToolCompleted(u, e)
    BY <1>7 DEF Listen
  <2> QED
    BY <1>7, <2>1 DEF States, Phases, UiToolCompleted
<1>8. CASE e.type \in {"tool_complete", "tool_error"}
  <2>1. Listen(u, e) = [u EXCEPT !.tool = None]
    BY <1>8 DEF Listen
  <2> QED
    BY <1>8, <2>1
<1>9. CASE e.type = "notification"
  <2>1. Listen(u, e) = u
    BY <1>9 DEF Listen
  <2> QED
    BY <1>9, <2>1
<1> QED
  BY <1>1, <1>2, <1>3, <1>4, <1>5, <1>6, <1>7, <1>8, <1>9
     DEF Events, AppliedEvents, EmittedEvents, Shape
-----------------------------------------------------------------------------
(* What handlers have left.                                                  *)

\* What is true of the whole script of a hook.
Begun(v, h, t, script) ==
    /\ script \in Seq(Effects) /\ Proper(v, h, t, script)
    /\ h \in Lone => Applies(script) /\ Telling(script)
    /\ h \in {"PostToolUse", "PostToolUseFailure"} =>
          /\ \E k \in DOMAIN script : Clears(script[k].event)
          /\ \E k \in DOMAIN script : script[k].event.type = "toolUseCompleted"

LEMMA PromptScripts ==
    ASSUME NEW s \in Sessions, NEW h \in PromptHooks \cup NotificationHooks, NEW t,
           NEW script \in Scripts(s, h, t)
    PROVE  Begun(via[s], h, t, script)
<1> USE DEF Begun, Proper, Applies, Telling, LeavesState, LeavesPhase, LeavesOneOf, Tells, Sets, Clears,
            PhasesAfter, StatesAfter, Lone, Hooks, ToolHooks, PromptHooks, NotificationHooks, Effects,
            AppliedEvents, EmittedEvents, Shape, Apply, Emit, Event, Phases, States, Activity, StateChange
<1>1. CASE h = "SessionStart"
  <2>1. script = <<Emit("session_start", None, None), Apply("sessionStarted", None, None), StateChange("idle")>>
    BY <1>1 DEF Scripts
  <2> QED
    BY <1>1, <2>1
<1>2. CASE h = "UserPromptSubmit"
  <2>1. script = <<Activity("running"), StateChange("running")>>
    BY <1>2 DEF Scripts
  <2> QED
    BY <1>2, <2>1
<1>3. CASE h = "Stop"
  <2>1. script = <<StateChange("completed"), Apply("sessionCompleted", None, None)>>
    BY <1>3 DEF Scripts, StopEffects
  <2> QED
    BY <1>3, <2>1
<1>4. CASE h = "StopFailure"
  <2>1. script = <<StateChange("completed")>>
    BY <1>4 DEF Scripts
  <2> QED
    BY <1>4, <2>1
<1>5. CASE h = "permission_prompt"
  <2>1. script = <<Activity("waitingForApproval"), StateChange("waitingForApproval")>>
    BY <1>5 DEF Scripts
  <2> QED
    BY <1>5, <2>1
<1>6. CASE h = "idle_prompt"
  <2>1. script = <<Activity("running"), StateChange("idle")>>
    BY <1>6 DEF Scripts
  <2> QED
    BY <1>6, <2>1
<1>7. CASE h = "notification"
  <2>1. script = <<Activity("running"), Emit("notification", None, None)>>
    BY <1>7 DEF Scripts
  <2> QED
    BY <1>7, <2>1
<1> QED
  BY <1>1, <1>2, <1>3, <1>4, <1>5, <1>6, <1>7 DEF PromptHooks, NotificationHooks

\* A script of three effects, and one or two behind it.
LEMMA Behind ==
    ASSUME NEW x, NEW y, NEW z, NEW u, NEW v
    PROVE  /\ <<x, y, z>> \o <<>> = <<x, y, z>>
           /\ <<x, y, z>> \o <<u>> = <<x, y, z, u>>
           /\ <<x, y, z>> \o <<u, v>> = <<x, y, z, u, v>>
<1> DEFINE S == {x, y, z, u, v}
           p == <<x, y, z>>
           q == <<u>>
           r == <<u, v>>
           pq == <<x, y, z, u>>
           pr == <<x, y, z, u, v>>
<1>1. p \in Seq(S) /\ Len(p) = 3 /\ p[1] = x /\ p[2] = y /\ p[3] = z
  OBVIOUS
<1>2. q \in Seq(S) /\ Len(q) = 1 /\ q[1] = u
  OBVIOUS
<1>3. r \in Seq(S) /\ Len(r) = 2 /\ r[1] = u /\ r[2] = v
  OBVIOUS
<1>4. pq \in Seq(S) /\ Len(pq) = 4 /\ pq[1] = x /\ pq[2] = y /\ pq[3] = z /\ pq[4] = u
  OBVIOUS
<1>5. pr \in Seq(S) /\ Len(pr) = 5 /\ pr[1] = x /\ pr[2] = y /\ pr[3] = z /\ pr[4] = u /\ pr[5] = v
  OBVIOUS
<1> HIDE DEF S, p, q, r, pq, pr
<1>6. p \o <<>> = p
  BY <1>1, ConcatEmptySeq
<1>7. p \o q = pq
  <2>1. /\ p \o q \in Seq(S) /\ Len(p \o q) = 4
        /\ \A i \in 1..4 : (p \o q)[i] = IF i <= 3 THEN p[i] ELSE q[i - 3]
    BY <1>1, <1>2, ConcatProperties
  <2>2. \A i \in 1..4 : (p \o q)[i] = pq[i]
    BY <1>1, <1>2, <1>4, <2>1
  <2> QED
    BY <1>4, <2>1, <2>2, SeqEqual
<1>8. p \o r = pr
  <2>1. /\ p \o r \in Seq(S) /\ Len(p \o r) = 5
        /\ \A i \in 1..5 : (p \o r)[i] = IF i <= 3 THEN p[i] ELSE r[i - 3]
    <3>1. Len(p) + Len(r) = 5
      BY <1>1, <1>3
    <3>2. p \o r \in Seq(S) /\ Len(p \o r) = Len(p) + Len(r)
      BY <1>1, <1>3, ConcatProperties
    <3>3. \A i \in 1..5 : (p \o r)[i] = IF i <= Len(p) THEN p[i] ELSE r[i - Len(p)]
      <4>1. \A i \in 1..(Len(p) + Len(r)) : (p \o r)[i] = IF i <= Len(p) THEN p[i] ELSE r[i - Len(p)]
        BY <1>1, <1>3, ConcatProperties, Zenon
      <4> QED
        BY <3>1, <4>1
    <3> QED
      BY <1>1, <3>1, <3>2, <3>3
  <2>2. \A i \in 1..5 : (p \o r)[i] = pr[i]
    BY <1>1, <1>3, <1>5, <2>1
  <2> QED
    BY <1>5, <2>1, <2>2, SeqEqual
<1> QED
  BY <1>6, <1>7, <1>8 DEF p, q, r, pq, pr

LEMMA ToolScripts ==
    ASSUME NEW s \in Sessions, NEW h \in ToolHooks, NEW t \in Tools, NEW script \in Scripts(s, h, t)
    PROVE  Begun(via[s], h, t, script)
<1>1. CASE h = "PermissionRequest"
  <2> DEFINE Asked(name, end) ==
                <<Apply("permissionRequested", name, t), Emit("permission_request", None, t),
                  StateChange("waitingForApproval")>> \o end
  <2>1. Scripts(s, h, t) = {Asked(name, end) : name \in NamesAsked(t), end \in AfterPermission(s)}
    BY <1>1 DEF Scripts
  <2> HIDE DEF Asked
  <2>2. PICK name \in NamesAsked(t), end \in AfterPermission(s) : script = Asked(name, end)
    BY <2>1
  <2>3. name \in Names
    BY DEF NamesAsked, Names
  <2>4. end = <<>> \/ (via[s] = "http" /\ end = <<StateChange("running")>>)
    BY DEF AfterPermission
  <2>5. CASE end = <<>>
    <3>1. script = <<Apply("permissionRequested", name, t), Emit("permission_request", None, t),
                     StateChange("waitingForApproval")>>
      BY <2>2, <2>5, Behind DEF Asked
    <3> QED
      BY <1>1, <2>3, <3>1
         DEF Begun, Proper, Applies, Telling, LeavesState, LeavesPhase, LeavesOneOf, Tells, Sets, Clears,
             PhasesAfter, StatesAfter, Lone, Hooks, ToolHooks, PromptHooks, NotificationHooks, Effects,
             AppliedEvents, EmittedEvents, Shape, Apply, Emit, Event, Phases, States, StateChange
  <2>6. CASE via[s] = "http" /\ end = <<StateChange("running")>>
    <3>1. script = <<Apply("permissionRequested", name, t), Emit("permission_request", None, t),
                     StateChange("waitingForApproval"), StateChange("running")>>
      BY <2>2, <2>6, Behind DEF Asked
    <3> QED
      BY <1>1, <2>3, <2>6, <3>1
         DEF Begun, Proper, Applies, Telling, LeavesState, LeavesPhase, LeavesOneOf, Tells, Sets, Clears,
             PhasesAfter, StatesAfter, Lone, Hooks, ToolHooks, PromptHooks, NotificationHooks, Effects,
             AppliedEvents, EmittedEvents, Shape, Apply, Emit, Event, Phases, States, StateChange
  <2> QED
    BY <2>4, <2>5, <2>6
<1>2. CASE h = "PostToolUse"
  <2>1. Scripts(s, h, t) =
           {<<ToolUseCompleted(s, t, FALSE), Emit("tool_complete", None, t),
              StateChange("running")>> \o end : end \in AfterPostToolUse(s)}
    BY <1>2 DEF Scripts
  <2>2. PICK end \in AfterPostToolUse(s) :
           script = <<ToolUseCompleted(s, t, FALSE), Emit("tool_complete", None, t),
                      StateChange("running")>> \o end
    BY <2>1
  <2>3. end = <<>> \/ end = <<Activity("running"), StateChange("running")>>
    BY DEF AfterPostToolUse, RefreshTitle, RefreshPhase
  <2>4. PICK outcome \in {"unmarked", "succeeded"} :
           /\ ToolUseCompleted(s, t, FALSE) = Apply("toolUseCompleted", outcome, t)
           /\ via[s] = "http" => outcome = "unmarked"
    BY DEF ToolUseCompleted
  <2>5. CASE end = <<>>
    <3>1. script = <<Apply("toolUseCompleted", outcome, t), Emit("tool_complete", None, t),
                     StateChange("running")>>
      BY <2>2, <2>4, <2>5, Behind
    <3> QED
      BY <1>2, <2>4, <3>1
         DEF Begun, Proper, Applies, Telling, LeavesState, LeavesPhase, LeavesOneOf, Tells, Sets, Clears,
             PhasesAfter, StatesAfter, Lone, Hooks, ToolHooks, PromptHooks, NotificationHooks, Effects,
             AppliedEvents, EmittedEvents, Shape, Apply, Emit, Event, Phases, States, StateChange
  <2>6. CASE end = <<Activity("running"), StateChange("running")>>
    <3>1. script = <<Apply("toolUseCompleted", outcome, t), Emit("tool_complete", None, t),
                     StateChange("running"), Activity("running"), StateChange("running")>>
      <4>1. \A x, y, z : <<x, y, z>> \o end = <<x, y, z, Activity("running"), StateChange("running")>>
        BY <2>6, Behind
      <4> QED
        BY <2>2, <2>4, <4>1
    <3> QED
      BY <1>2, <3>1
         DEF Begun, Proper, Applies, Telling, LeavesState, LeavesPhase, LeavesOneOf, Tells, Sets, Clears,
             PhasesAfter, StatesAfter, Lone, Hooks, ToolHooks, PromptHooks, NotificationHooks, Effects,
             AppliedEvents, EmittedEvents, Shape, Apply, Emit, Event, Phases, States, Activity, StateChange
  <2> QED
    BY <2>3, <2>5, <2>6
<1> USE DEF Begun, Proper, Applies, Telling, LeavesState, LeavesPhase, LeavesOneOf, Tells, Sets, Clears,
            PhasesAfter, StatesAfter, Lone, Hooks, ToolHooks, PromptHooks, NotificationHooks, Effects,
            AppliedEvents, EmittedEvents, Shape, Apply, Emit, Event, Phases, States, Activity, StateChange
<1>3. CASE h = "PreToolUse"
  <2>1. script = <<Emit("session_start", None, None), StateChange("running"), Activity("running"),
                   Apply("toolUseStarted", None, t), Emit("tool_use", None, t)>>
    BY <1>3 DEF Scripts
  <2> QED
    BY <1>3, <2>1
<1>4. CASE h = "PostToolUseFailure"
  <2>1. script = <<Apply("toolUseCompleted", "failed", t), Emit("tool_error", None, t),
                   StateChange("completed")>>
    BY <1>4 DEF Scripts, ToolUseCompleted
  <2> QED
    BY <1>4, <2>1
<1>5. CASE h = "PermissionDenied"
  <2>1. script = <<StateChange("running")>>
    BY <1>5 DEF Scripts
  <2> QED
    BY <1>5, <2>1
<1> QED
  BY <1>1, <1>2, <1>3, <1>4, <1>5 DEF ToolHooks

\* What is left after an effect is as proper.
LEMMA ProperTail ==
    ASSUME NEW v, NEW h, NEW t, NEW left \in Seq(Effects), Proper(v, h, t, left), Len(left) # 1
    PROVE  /\ Tail(left) \in Seq(Effects) /\ Proper(v, h, t, Tail(left))
           /\ DOMAIN Tail(left) = 1..(Len(left) - 1)
           /\ \A k \in 1..(Len(left) - 1) : k + 1 \in DOMAIN left /\ Tail(left)[k] = left[k + 1]
<1> DEFINE n == Len(left)
           rest == Tail(left)
<1>1. n \in Nat /\ DOMAIN left = 1..n /\ n >= 2
  <2>1. n \in Nat /\ DOMAIN left = 1..n
    BY LenProperties
  <2>2. n # 0
    BY EmptySeq DEF Proper
  <2> QED
    BY <2>1, <2>2
<1>2. rest \in Seq(Effects) /\ Len(rest) = n - 1 /\ \A k \in 1..(n - 1) : rest[k] = left[k + 1]
  BY <1>1, HeadTailProperties DEF Proper
<1>3. DOMAIN rest = 1..(n - 1)
  BY <1>2, LenProperties
<1> HIDE DEF n, rest
<1>4. \A k \in 1..(n - 1) : k + 1 \in DOMAIN left /\ rest[k] = left[k + 1]
  BY <1>1, <1>2
<1>5. rest # <<>>
  <2>1. Len(<<>>) = 0
    OBVIOUS
  <2> QED
    BY <1>1, <1>2, <2>1
<1>6. ASSUME NEW k \in DOMAIN rest
      PROVE  LET e == rest[k].event IN
             /\ Sets(e) => h \in {"PreToolUse", "PermissionRequest"} /\ e.tool = t
             /\ e.type = "toolUseCompleted" => e.tool = t
             /\ h = "Stop" => /\ LeavesState(e, "completed")
                              /\ rest[k].do = "apply" => LeavesPhase(e, "completed")
             /\ /\ h \in Lone /\ rest[k].do = "apply"
                /\ \A j \in DOMAIN rest : k < j => rest[j].do # "apply"
                => LeavesOneOf(e, PhasesAfter(v, h))
             /\ /\ h \in Lone /\ Tells(e)
                /\ \A j \in DOMAIN rest : k < j => ~Tells(rest[j].event)
                => \E x \in StatesAfter(v, h) : LeavesState(e, x)
  <2>1. k \in Nat /\ k + 1 \in DOMAIN left /\ rest[k] = left[k + 1]
    BY <1>1, <1>3, <1>4
  <2>2. ASSUME NEW j \in DOMAIN left, k + 1 < j
        PROVE  j - 1 \in DOMAIN rest /\ k < j - 1 /\ rest[j - 1] = left[j]
    <3>1. j - 1 \in DOMAIN rest /\ k < j - 1 /\ j - 1 + 1 = j
      BY <1>1, <1>3, <2>1, <2>2
    <3> QED
      BY <1>3, <1>4, <3>1
  <2>3. (\A j \in DOMAIN rest : k < j => rest[j].do # "apply")
           => \A j \in DOMAIN left : k + 1 < j => left[j].do # "apply"
    BY <2>2
  <2>4. (\A j \in DOMAIN rest : k < j => ~Tells(rest[j].event))
           => \A j \in DOMAIN left : k + 1 < j => ~Tells(left[j].event)
    BY <2>2
  <2> QED
    BY <2>1, <2>3, <2>4 DEF Proper
<1>7. Proper(v, h, t, rest)
  BY <1>5, <1>6 DEF Proper
<1> QED
  BY <1>2, <1>3, <1>4, <1>7 DEF n, rest
-----------------------------------------------------------------------------
(* The handlers and the wire.                                                *)

LEMMA OneHandler ==
    ASSUME handlers \in [Sessions -> [0..MaxInFlight -> Handlers]],
           NEW s \in Sessions, NEW i \in 0..MaxInFlight, NEW g \in Handlers,
           handlers' = [handlers EXCEPT ![s][i] = g]
    PROVE  /\ handlers' \in [Sessions -> [0..MaxInFlight -> Handlers]]
           /\ handlers'[s][i] = g
           /\ \A r \in Sessions : r # s => handlers'[r] = handlers[r]
           /\ \A j \in 0..MaxInFlight : j # i => handlers'[s][j] = handlers[s][j]
OBVIOUS

LEMMA SlotFacts ==
    /\ MaxInFlight \in Nat /\ 0 \in 0..MaxInFlight /\ 0 \notin Slots /\ Slots \subseteq 0..MaxInFlight
    /\ \A i \in 0..MaxInFlight : i = 0 \/ i \in Slots
    /\ Idle \in Handlers /\ DOMAIN Idle.left = {} /\ ~Applies(Idle.left) /\ ~Telling(Idle.left)
<1>1. MaxInFlight \in Nat
  BY SessionAssumption
<1>2. Idle \in Handlers /\ Idle.left = <<>>
  BY DEF Idle, Handlers
<1>3. DOMAIN <<>> = {}
  OBVIOUS
<1>4. DOMAIN Idle.left = {} /\ ~Applies(Idle.left) /\ ~Telling(Idle.left)
  BY <1>2, <1>3 DEF Applies, Telling
<1> QED
  BY <1>1, <1>2, <1>4 DEF Slots

LEMMA Appended ==
    ASSUME wire \in Seq(Wired), NEW m \in Wired, wire' = Append(wire, m)
    PROVE  /\ wire' \in Seq(Wired) /\ Len(wire) \in Nat
           /\ DOMAIN wire = 1..Len(wire) /\ DOMAIN wire' = 1..(Len(wire) + 1)
           /\ (\A k \in 1..Len(wire) : wire'[k] = wire[k]) /\ wire'[Len(wire) + 1] = m
<1>1. /\ wire' \in Seq(Wired) /\ Len(wire') = Len(wire) + 1
      /\ (\A k \in 1..Len(wire) : wire'[k] = wire[k]) /\ wire'[Len(wire) + 1] = m
  BY AppendProperties
<1>2. Len(wire) \in Nat /\ DOMAIN wire = 1..Len(wire) /\ DOMAIN wire' = 1..Len(wire')
  BY <1>1, LenProperties
<1> QED
  BY <1>1, <1>2

LEMMA TakenOff ==
    ASSUME wire \in Seq(Wired), wire # <<>>, wire' = Tail(wire)
    PROVE  /\ wire' \in Seq(Wired) /\ Len(wire) \in Nat /\ Len(wire) >= 1
           /\ DOMAIN wire = 1..Len(wire) /\ DOMAIN wire' = 1..(Len(wire) - 1)
           /\ (\A k \in 1..(Len(wire) - 1) : wire'[k] = wire[k + 1]) /\ Head(wire) = wire[1]
           /\ Head(wire) \in Wired
<1>1. Len(wire) \in Nat /\ DOMAIN wire = 1..Len(wire) /\ Len(wire) # 0
  BY LenProperties, EmptySeq
<1>2. /\ Head(wire) \in Wired /\ wire' \in Seq(Wired) /\ Len(wire') = Len(wire) - 1
      /\ \A k \in 1..(Len(wire) - 1) : wire'[k] = wire[k + 1]
  BY HeadTailProperties
<1>3. DOMAIN wire' = 1..(Len(wire) - 1)
  BY <1>2, LenProperties
<1>4. Head(wire) = wire[1]
  OBVIOUS
<1> QED
  BY <1>1, <1>2, <1>3, <1>4

\* What is emitted last decides what is coming.
LEMMA ComingAfterEmit ==
    ASSUME wire \in Seq(Wired), NEW m \in Wired, wire' = Append(wire, m), UNCHANGED ui,
           NEW s \in Sessions, NEW v
    PROVE  /\ ~Heard(m, s) /\ Coming(s, v) => Coming(s, v)'
           /\ Heard(m, s) /\ LeavesState(m.event, v) => Coming(s, v)'
<1> DEFINE n == Len(wire)
<1>1. /\ n \in Nat /\ DOMAIN wire = 1..n /\ DOMAIN wire' = 1..(n + 1)
      /\ (\A k \in 1..n : wire'[k] = wire[k]) /\ wire'[n + 1] = m
  BY Appended
<1> HIDE DEF n
<1>2. 1..n \subseteq 1..(n + 1) /\ n + 1 \in 1..(n + 1) /\ \A k \in 1..(n + 1) : k \in 1..n \/ k = n + 1
  BY <1>1
<1>3. ASSUME ~Heard(m, s), Coming(s, v) PROVE Coming(s, v)'
  <2>1. ASSUME \A k \in DOMAIN wire' : ~Heard(wire'[k], s) PROVE ui'[s].state = v
    BY <1>1, <1>2, <1>3, <2>1 DEF Coming
  <2>2. ASSUME NEW k \in DOMAIN wire', Heard(wire'[k], s),
               \A j \in DOMAIN wire' : k < j => ~Heard(wire'[j], s)
        PROVE  LeavesState(wire'[k].event, v)
    <3>1. k \in DOMAIN wire /\ wire'[k] = wire[k]
      BY <1>1, <1>2, <1>3, <2>2
    <3>2. \A j \in DOMAIN wire : k < j => ~Heard(wire[j], s)
      BY <1>1, <1>2, <2>2
    <3> QED
      BY <1>3, <2>2, <3>1, <3>2 DEF Coming
  <2> QED
    BY <2>1, <2>2 DEF Coming
<1>4. ASSUME Heard(m, s), LeavesState(m.event, v) PROVE Coming(s, v)'
  <2>1. Heard(wire'[n + 1], s) /\ n + 1 \in DOMAIN wire'
    BY <1>1, <1>2, <1>4
  <2>2. ASSUME NEW k \in DOMAIN wire', Heard(wire'[k], s),
               \A j \in DOMAIN wire' : k < j => ~Heard(wire'[j], s)
        PROVE  LeavesState(wire'[k].event, v)
    <3>1. ~(k < n + 1)
      BY <2>1, <2>2
    <3>2. k = n + 1
      BY <1>1, <3>1
    <3> QED
      BY <1>1, <1>4, <3>2
  <2> QED
    BY <2>1, <2>2 DEF Coming
<1> QED
  BY <1>3, <1>4

LEMMA ComingAfterHandled ==
    ASSUME FlowTypes, HandleEvent, NEW s \in Sessions, NEW v, Coming(s, v)
    PROVE  Coming(s, v)'
<1> DEFINE n == Len(wire)
           m == wire[1]
<1>1. /\ n \in Nat /\ n >= 1 /\ DOMAIN wire = 1..n /\ DOMAIN wire' = 1..(n - 1)
      /\ (\A k \in 1..(n - 1) : wire'[k] = wire[k + 1])
      /\ m \in Wired /\ Head(wire) = m
  BY TakenOff DEF HandleEvent, FlowTypes
<1>2. ui' = [ui EXCEPT ![m.of] = Listen(ui[m.of], m.event)]
  BY <1>1 DEF HandleEvent
<1>3. m.of \in Sessions /\ m.event \in Events
  BY <1>1 DEF Wired
<1>4. ui \in [Sessions -> Shown]
  BY DEF FlowTypes, Shown
<1>5. /\ ~Heard(m, s) => ui'[s].state = ui[s].state
      /\ Heard(m, s) /\ LeavesState(m.event, v) => ui'[s].state = v
  BY <1>2, <1>3, <1>4, Listened DEF Heard
<1> HIDE DEF n, m
<1>6. \A j \in DOMAIN wire : j = 1 \/ (j - 1 \in DOMAIN wire' /\ wire'[j - 1] = wire[j])
  <2>1. ASSUME NEW j \in DOMAIN wire, j # 1 PROVE j - 1 \in DOMAIN wire' /\ wire'[j - 1] = wire[j]
    <3>1. j - 1 \in 1..(n - 1) /\ j - 1 + 1 = j
      BY <1>1, <2>1
    <3> QED
      BY <1>1, <3>1
  <2> QED
    BY <2>1
<1>7. 1 \in DOMAIN wire
  BY <1>1
<1>8. ASSUME \A k \in DOMAIN wire' : ~Heard(wire'[k], s) PROVE ui'[s].state = v
  <2>1. \A j \in DOMAIN wire : j # 1 => ~Heard(wire[j], s)
    BY <1>6, <1>8
  <2>2. CASE ~Heard(m, s)
    <3>1. \A j \in DOMAIN wire : ~Heard(wire[j], s)
      BY <2>1, <2>2 DEF m
    <3> QED
      BY <1>5, <2>2, <3>1 DEF Coming
  <2>3. CASE Heard(m, s)
    <3>1. \A j \in DOMAIN wire : 1 < j => ~Heard(wire[j], s)
      BY <2>1
    <3>2. LeavesState(m.event, v)
      BY <1>7, <2>3, <3>1 DEF Coming, m
    <3> QED
      BY <1>5, <2>3, <3>2
  <2> QED
    BY <2>2, <2>3
<1>9. ASSUME NEW k \in DOMAIN wire', Heard(wire'[k], s),
             \A j \in DOMAIN wire' : k < j => ~Heard(wire'[j], s)
      PROVE  LeavesState(wire'[k].event, v)
  <2>1. k \in Nat /\ k >= 1 /\ k + 1 \in DOMAIN wire /\ wire'[k] = wire[k + 1]
    BY <1>1
  <2>2. ASSUME NEW j \in DOMAIN wire, k + 1 < j PROVE ~Heard(wire[j], s)
    <3>1. j # 1 /\ k < j - 1
      BY <1>1, <2>1, <2>2
    <3> QED
      BY <1>6, <1>9, <3>1
  <2> QED
    BY <1>9, <2>1, <2>2 DEF Coming
<1> QED
  BY <1>8, <1>9 DEF Coming
-----------------------------------------------------------------------------
(* A hook begins.                                                            *)

\* A step that changes neither the overlay nor the wire keeps what is coming.
LEMMA NothingComes ==
    ASSUME UNCHANGED <<ui, wire>>
    PROVE  /\ \A s, v : Coming(s, v)' = Coming(s, v)
           /\ \A s, k : ClearedAfter(s, k)' = ClearedAfter(s, k)
BY DEF Coming, ClearedAfter

\* What a new handler must be for the invariant to hold with it.
LEMMA HookStarts ==
    ASSUME FlowInv, NEW s \in Sessions, NEW i \in Slots, NEW h \in Hooks, NEW t \in Tools \cup {None},
           Free(s, i), Start(s, i, h, t),
           \A script \in Scripts(s, h, t) : Begun(via[s], h, t, script),
           via[s] = "http" /\ h = "Stop" => \A j \in Slots : handlers[s][j] = Idle,
           tools' \in [Sessions -> [Tools -> {"new", "used", "done", "dropped"}]],
           \A r \in Sessions : r # s => tools'[r] = tools[r],
           \A u \in Tools : InUse(s, u) => InUse(s, u)' \/ (u = t /\ h \in {"PostToolUse", "PostToolUseFailure"}),
           h \in {"PreToolUse", "PermissionRequest"} => t \in Tools /\ tools'[s][t] = "used",
           \A j \in Slots : handlers[s][j] # Idle /\ handlers[s][j].hook \in {"PreToolUse", "PermissionRequest"}
                               => tools'[s][handlers[s][j].tool] = "used"
    PROVE  FlowInv'
<1>1. PICK script \in Scripts(s, h, t) :
         handlers' = [handlers EXCEPT ![s][i] = [hook |-> h, tool |-> t, left |-> script]]
  BY DEF Start
<1>2. /\ last' = [last EXCEPT ![s] = h] /\ alone' = [alone EXCEPT ![s] = InFlight(s) = {}]
      /\ hooks' = hooks + 1 /\ UNCHANGED <<via, backend, ui, wire, delayed>>
      /\ handlers[s][i] = Idle /\ hooks < MaxHooks
  BY DEF Start, Free
<1> DEFINE g == [hook |-> h, tool |-> t, left |-> script]
<1>3. Begun(via[s], h, t, script)
  BY <1>1
<1>4. g \in Handlers /\ g.hook = h /\ g.tool = t /\ g.left = script
  BY <1>3 DEF Handlers, Begun
<1>5. g # Idle
  BY <1>3, <1>4 DEF Idle, Begun, Proper
<1> HIDE DEF g
<1>6. handlers \in [Sessions -> [0..MaxInFlight -> Handlers]] /\ i \in 0..MaxInFlight
  BY SlotFacts DEF FlowInv, FlowTypes
<1>7. /\ handlers' \in [Sessions -> [0..MaxInFlight -> Handlers]] /\ handlers'[s][i] = g
      /\ \A r \in Sessions : r # s => handlers'[r] = handlers[r]
      /\ \A j \in 0..MaxInFlight : j # i => handlers'[s][j] = handlers[s][j]
  BY <1>1, <1>4, <1>6, OneHandler DEF g
<1>8. /\ last' \in [Sessions -> Hooks \cup {None}] /\ last'[s] = h
      /\ \A r \in Sessions : r # s => last'[r] = last[r] /\ alone'[r] = alone[r]
      /\ alone' \in [Sessions -> BOOLEAN]
      /\ alone'[s] => \A j \in 0..MaxInFlight : handlers[s][j] = Idle
  BY <1>2 DEF FlowInv, FlowTypes, InFlight
<1>9. FlowTypes'
  <2>1. hooks' \in 0..MaxHooks
    BY <1>2, SessionAssumption DEF FlowInv, FlowTypes
  <2> QED
    BY <1>2, <1>7, <1>8, <2>1 DEF FlowInv, FlowTypes
<1>10. HandlersProper'
  <2>1. ASSUME NEW r \in Sessions, NEW j \in 0..MaxInFlight, handlers'[r][j] # Idle
        PROVE  /\ handlers'[r][j].hook \in Hooks
               /\ Proper(via'[r], handlers'[r][j].hook, handlers'[r][j].tool, handlers'[r][j].left)
               /\ handlers'[r][j].hook \in {"PreToolUse", "PermissionRequest"} =>
                     handlers'[r][j].tool \in Tools /\ tools'[r][handlers'[r][j].tool] = "used"
    <3>1. CASE r # s
      BY <1>2, <1>7, <2>1, <3>1 DEF FlowInv, HandlersProper
    <3>2. CASE r = s /\ j # i
      <4>1. handlers'[r][j] = handlers[s][j]
        BY <1>7, <3>2
      <4>2. /\ handlers[s][j].hook \in Hooks
            /\ Proper(via[s], handlers[s][j].hook, handlers[s][j].tool, handlers[s][j].left)
            /\ handlers[s][j].hook \in {"PreToolUse", "PermissionRequest"} => handlers[s][j].tool \in Tools
            /\ j = 0 => handlers[s][j].hook = "Stop"
        BY <2>1, <4>1 DEF FlowInv, HandlersProper
      <4> QED
        BY <1>2, <2>1, <3>2, <4>1, <4>2, SlotFacts
    <3>3. CASE r = s /\ j = i
      BY <1>2, <1>3, <1>4, <1>7, <3>3 DEF Begun
    <3> QED
      BY <3>1, <3>2, <3>3
  <2>2. ASSUME NEW r \in Sessions, handlers'[r][0] # Idle PROVE handlers'[r][0].hook = "Stop"
    <3>1. handlers'[r][0] = handlers[r][0]
      BY <1>7, SlotFacts
    <3> QED
      BY <2>2, <3>1 DEF FlowInv, HandlersProper
  <2> QED
    BY <2>1, <2>2 DEF HandlersProper
<1>11. DecidersRule'
  <2> SUFFICES ASSUME NEW r \in Sessions, Decides(r)'
               PROVE  /\ \A j \in 0..MaxInFlight : handlers'[r][j] # Idle => handlers'[r][j].hook = last'[r]
                      /\ \A j, k \in Slots : handlers'[r][j] # Idle /\ handlers'[r][k] # Idle => j = k
                      /\ (\A j \in Slots : ~Telling(handlers'[r][j].left))
                            => \E v \in StatesAfter(via'[r], last'[r]) : Coming(r, v)'
                      /\ (\A j \in Slots : ~Applies(handlers'[r][j].left))
                            => backend'[r].phase \in PhasesAfter(via'[r], last'[r])
    BY DEF DecidersRule, WillShow
  <2>1. CASE r # s
    <3>1. Decides(r) /\ last'[r] = last[r] /\ handlers'[r] = handlers[r] /\ backend' = backend
      BY <1>2, <1>7, <1>8, <2>1 DEF Decides
    <3>2. \A v : Coming(r, v)' = Coming(r, v)
      BY <1>2, NothingComes
    <3>3. via' = via
      BY <1>2
    <3> QED
      BY <3>1, <3>2, <3>3 DEF FlowInv, DecidersRule, WillShow
  <2>2. CASE r = s
    <3>1. \A j \in Slots : handlers[s][j] = Idle
      BY <1>2, <1>8, <2>2, SlotFacts DEF Decides
    <3>2. h \in Lone
      BY <1>2, <1>8, <2>2 DEF Decides, Lone, Hooks, PromptHooks
    <3>3. \A j \in Slots : j # i => handlers'[s][j] = Idle
      BY <1>7, <3>1, SlotFacts
    <3>4. ASSUME handlers'[s][0] # Idle PROVE handlers'[s][0].hook = h
      <4>1. handlers'[s][0] = handlers[s][0]
        BY <1>7, SlotFacts
      <4>2. h = "Stop"
        BY <1>2, <1>8, <2>2, <3>4, <4>1, SlotFacts DEF Decides
      <4> QED
        BY <3>4, <4>1, <4>2 DEF FlowInv, HandlersProper
    <3>5. Applies(handlers'[s][i].left) /\ Telling(handlers'[s][i].left)
      BY <1>3, <1>4, <1>7, <3>2 DEF Begun
    <3> QED
      BY <1>4, <1>5, <1>7, <1>8, <2>2, <3>3, <3>4, <3>5, SlotFacts
  <2> QED
    BY <2>1, <2>2
<1>12. \A r \in Sessions, u \in Tools :
          /\ InUse(r, u) \/ WillComplete(r, u) => InUse(r, u)' \/ WillComplete(r, u)'
          /\ InUse(r, u) \/ WillClear(r, u) => InUse(r, u)' \/ WillClear(r, u)'
  <2> SUFFICES ASSUME NEW r \in Sessions, NEW u \in Tools
               PROVE  /\ InUse(r, u) \/ WillComplete(r, u) => InUse(r, u)' \/ WillComplete(r, u)'
                      /\ InUse(r, u) \/ WillClear(r, u) => InUse(r, u)' \/ WillClear(r, u)'
    OBVIOUS
  <2>1. CASE r # s
    BY <1>7, <2>1 DEF InUse, WillComplete, WillClear
  <2>2. CASE r = s
    <3>1. InUse(s, u) => InUse(s, u)' \/ (WillComplete(s, u)' /\ WillClear(s, u)')
      BY <1>3, <1>4, <1>7 DEF Begun, WillComplete, WillClear
    <3>2. \A j \in Slots : DOMAIN handlers[s][j].left # {} => handlers'[s][j] = handlers[s][j]
      BY <1>2, <1>7, SlotFacts
    <3>3. (WillComplete(s, u) => WillComplete(s, u)') /\ (WillClear(s, u) => WillClear(s, u)')
      BY <3>2 DEF WillComplete, WillClear
    <3> QED
      BY <2>2, <3>1, <3>3
  <2> QED
    BY <2>1, <2>2
<1>13. ReducersTool'
  <2>1. \A r \in Sessions : backend[r].tool \in Tools \cup {None}
    BY DEF FlowInv, FlowTypes
  <2> QED
    BY <1>2, <1>12, <2>1 DEF FlowInv, ReducersTool
<1>14. OverlaysTool'
  BY <1>2, <1>12, NothingComes DEF FlowInv, OverlaysTool
<1> QED
  BY <1>9, <1>10, <1>11, <1>13, <1>14 DEF FlowInv

LEMMA ToolHookStep ==
    ASSUME FlowInv, NEW s \in Sessions, NEW i \in Slots, NEW h \in ToolHooks, NEW t \in Tools,
           ToolHook(s, i, h, t)
    PROVE  FlowInv'
<1> DEFINE from == ToolStep(h)[1]
           to == ToolStep(h)[2]
<1>1. /\ Free(s, i) /\ MayOverlap(s, h, t) /\ Start(s, i, h, t)
      /\ tools[s][t] = from /\ tools' = [tools EXCEPT ![s][t] = to]
  BY DEF ToolHook
<1>2. /\ from \in {"new", "used"} /\ to \in {"used", "done", "dropped"}
      /\ h \in {"PreToolUse", "PermissionRequest"} => to = "used"
      /\ h \notin {"PostToolUse", "PostToolUseFailure"} => to \in {"used", "dropped"}
  BY DEF ToolStep, ToolHooks
<1> HIDE DEF from, to
<1>3. tools \in [Sessions -> [Tools -> {"new", "used", "done", "dropped"}]]
  BY DEF FlowInv, FlowTypes
<1>4. /\ tools' \in [Sessions -> [Tools -> {"new", "used", "done", "dropped"}]]
      /\ \A r \in Sessions : r # s => tools'[r] = tools[r]
      /\ tools'[s][t] = to /\ \A u \in Tools : u # t => tools'[s][u] = tools[s][u]
  BY <1>1, <1>2, <1>3
<1>5. \A u \in Tools : InUse(s, u) => InUse(s, u)' \/ (u = t /\ h \in {"PostToolUse", "PostToolUseFailure"})
  BY <1>2, <1>4 DEF InUse
<1>6. ASSUME NEW j \in Slots, handlers[s][j] # Idle,
             handlers[s][j].hook \in {"PreToolUse", "PermissionRequest"}
      PROVE  tools'[s][handlers[s][j].tool] = "used"
  <2>1. j \in InFlight(s) \ {0}
    BY <1>6, SlotFacts DEF InFlight
  <2>2. handlers[s][j].tool # t
    BY <1>1, <1>6, <2>1 DEF MayOverlap, Waits
  <2>3. handlers[s][j].tool \in Tools /\ tools[s][handlers[s][j].tool] = "used"
    BY <1>6, SlotFacts DEF FlowInv, HandlersProper
  <2> QED
    BY <1>4, <2>2, <2>3
<1>7. h \in Hooks /\ ~(h = "Stop")
  BY DEF Hooks, ToolHooks
<1> QED
  BY <1>1, <1>2, <1>4, <1>5, <1>6, <1>7, ToolScripts, HookStarts

\* A hook that is no tool's leaves the tools as they are.
LEMMA OtherHookStep ==
    ASSUME FlowInv, NEW s \in Sessions, NEW i \in Slots, NEW h \in PromptHooks \cup NotificationHooks,
           PromptHook(s, i, h) \/ NotificationHook(s, i, h)
    PROVE  FlowInv'
<1>1. Free(s, i) /\ MayOverlap(s, h, None) /\ Start(s, i, h, None) /\ UNCHANGED tools
  BY DEF PromptHook, NotificationHook
<1>2. h \in Hooks /\ h \notin ToolHooks /\ h \notin {"PreToolUse", "PermissionRequest"}
  BY DEF Hooks, ToolHooks, PromptHooks, NotificationHooks
<1>3. ASSUME via[s] = "http" PROVE \A j \in Slots : handlers[s][j] = Idle
  <2>1. \A j \in InFlight(s) \ {0} : FALSE
    BY <1>1, <1>2, <1>3 DEF MayOverlap, Waits
  <2> QED
    BY <2>1, SlotFacts DEF InFlight
<1>4. /\ tools' \in [Sessions -> [Tools -> {"new", "used", "done", "dropped"}]]
      /\ \A r \in Sessions : tools'[r] = tools[r]
      /\ \A u \in Tools : InUse(s, u) => InUse(s, u)'
  BY <1>1 DEF FlowInv, FlowTypes, InUse
<1>5. \A j \in Slots : handlers[s][j] # Idle /\ handlers[s][j].hook \in {"PreToolUse", "PermissionRequest"}
                          => tools'[s][handlers[s][j].tool] = "used"
  BY <1>1, SlotFacts DEF FlowInv, HandlersProper
<1>6. \A script \in Scripts(s, h, None) : Begun(via[s], h, None, script)
  BY PromptScripts
<1> QED
  BY <1>1, <1>2, <1>3, <1>4, <1>5, <1>6, HookStarts

LEMMA DropToolStep ==
    ASSUME FlowInv, NEW s \in Sessions, NEW t \in Tools, DropTool(s, t)
    PROVE  FlowInv'
<1>1. /\ tools[s][t] = "used" /\ tools' = [tools EXCEPT ![s][t] = "dropped"]
      /\ \A i \in InFlight(s) : handlers[s][i].tool # t
      /\ UNCHANGED <<via, backend, ui, wire, handlers, delayed, last, alone, hooks>>
  BY DEF DropTool
<1>2. /\ tools' \in [Sessions -> [Tools -> {"new", "used", "done", "dropped"}]]
      /\ \A r \in Sessions : r # s => tools'[r] = tools[r]
      /\ \A u \in Tools : u # t => tools'[s][u] = tools[s][u]
      /\ tools'[s][t] = "dropped"
  BY <1>1 DEF FlowInv, FlowTypes
<1>3. FlowTypes'
  BY <1>1, <1>2 DEF FlowInv, FlowTypes
<1>4. HandlersProper'
  <2>1. ASSUME NEW r \in Sessions, NEW i \in 0..MaxInFlight, handlers[r][i] # Idle,
               handlers[r][i].hook \in {"PreToolUse", "PermissionRequest"}
        PROVE  tools'[r][handlers[r][i].tool] = "used"
    <3>1. handlers[r][i].tool \in Tools /\ tools[r][handlers[r][i].tool] = "used"
      BY <2>1 DEF FlowInv, HandlersProper
    <3>2. r = s => handlers[r][i].tool # t
      BY <1>1, <2>1 DEF InFlight
    <3> QED
      BY <1>2, <3>1, <3>2
  <2> QED
    BY <1>1, <2>1 DEF FlowInv, HandlersProper
<1>5. /\ \A r \in Sessions : Decides(r)' = Decides(r)
      /\ \A r, v : Coming(r, v)' = Coming(r, v)
      /\ \A r : WillShow(r, StatesAfter(via[r], last[r]))' = WillShow(r, StatesAfter(via[r], last[r]))
      /\ \A r, u : WillClear(r, u)' = WillClear(r, u) /\ WillComplete(r, u)' = WillComplete(r, u)
      /\ \A r, k : ClearedAfter(r, k)' = ClearedAfter(r, k)
  BY <1>1 DEF Decides, Coming, WillShow, WillClear, WillComplete, ClearedAfter
<1>6. \A r \in Sessions, u \in Tools : InUse(r, u) => InUse(r, u)'
  BY <1>2 DEF InUse
<1>7. DecidersRule'
  BY <1>1, <1>5 DEF FlowInv, DecidersRule
<1>8. ReducersTool'
  <2>1. \A r \in Sessions : backend[r].tool \in Tools \cup {None}
    BY DEF FlowInv, FlowTypes
  <2> QED
    BY <1>1, <1>5, <1>6, <2>1 DEF FlowInv, ReducersTool
<1>9. OverlaysTool'
  BY <1>1, <1>5, <1>6 DEF FlowInv, OverlaysTool
<1> QED
  BY <1>3, <1>4, <1>7, <1>8, <1>9 DEF FlowInv

\* What a title task has left is as proper as the rest of a Stop.
LEMMA TitleRefresh ==
    ASSUME NEW v
    PROVE  RefreshTitle("Stop") \in Seq(Effects) /\ Proper(v, "Stop", None, RefreshTitle("Stop"))
<1> DEFINE x == Activity("completed")
           y == StateChange("completed")
<1>1. /\ x \in Effects /\ x.event.type = "activityUpdated" /\ x.event.arg = "completed"
      /\ y \in Effects /\ y.event.type = "state_change" /\ y.event.arg = "completed" /\ y.do = "emit"
  BY DEF Effects, AppliedEvents, EmittedEvents, Shape, Apply, Emit, Event, Phases, States,
         Activity, StateChange
<1>2. RefreshTitle("Stop") = <<x, y>>
  BY DEF RefreshTitle, RefreshPhase
<1> HIDE DEF x, y
<1>3. <<x, y>> \in Seq(Effects) /\ <<x, y>> # <<>>
  BY <1>1
<1>4. \A k \in DOMAIN <<x, y>> : <<x, y>>[k] \in {x, y}
  OBVIOUS
<1>5. "completed" \in PhasesAfter(v, "Stop") /\ "completed" \in StatesAfter(v, "Stop")
  BY DEF PhasesAfter, StatesAfter
<1>6. Proper(v, "Stop", None, <<x, y>>)
  BY <1>1, <1>3, <1>4, <1>5 DEF Proper, LeavesState, LeavesPhase, LeavesOneOf, Sets
<1> QED
  BY <1>2, <1>3, <1>6

LEMMA TitleTaskStep ==
    ASSUME FlowInv, NEW s \in Sessions, TitleTask(s)
    PROVE  FlowInv'
<1> DEFINE g == [hook |-> "Stop", tool |-> None, left |-> RefreshTitle("Stop")]
<1>1. /\ delayed[s] > 0 /\ handlers[s][0] = Idle /\ delayed' = [delayed EXCEPT ![s] = delayed[s] - 1]
      /\ \/ handlers' = [handlers EXCEPT ![s][0] = g] /\ alone' = [alone EXCEPT ![s] = FALSE]
         \/ UNCHANGED <<handlers, alone>>
      /\ UNCHANGED <<via, backend, ui, wire, tools, last, hooks>>
  BY DEF TitleTask
<1>2. delayed' \in [Sessions -> Nat]
  BY <1>1 DEF FlowInv, FlowTypes
<1>3. g \in Handlers /\ g.hook = "Stop" /\ g # Idle /\ Proper(via[s], "Stop", g.tool, g.left) /\ "Stop" \in Hooks
  <2>1. g.left \in Seq(Effects) /\ Proper(via[s], "Stop", None, g.left)
    BY TitleRefresh
  <2>2. g.left # <<>> /\ "Stop" \in Hooks
    BY <2>1 DEF Proper, Hooks, PromptHooks
  <2> QED
    BY <2>1, <2>2 DEF Handlers, Idle
<1> HIDE DEF g
<1>4. CASE UNCHANGED <<handlers, alone>>
  <2>1. FlowTypes'
    BY <1>1, <1>2, <1>4 DEF FlowInv, FlowTypes
  <2>2. HandlersProper' /\ DecidersRule' /\ ReducersTool' /\ OverlaysTool'
    BY <1>1, <1>4 DEF FlowInv, HandlersProper, DecidersRule, Decides, Coming, WillShow, ReducersTool, OverlaysTool,
                      InUse, WillClear, WillComplete, ClearedAfter
  <2> QED
    BY <2>1, <2>2 DEF FlowInv
<1>5. CASE handlers' = [handlers EXCEPT ![s][0] = g] /\ alone' = [alone EXCEPT ![s] = FALSE]
  <2>1. handlers \in [Sessions -> [0..MaxInFlight -> Handlers]] /\ alone \in [Sessions -> BOOLEAN]
    BY DEF FlowInv, FlowTypes
  <2>2. /\ handlers' \in [Sessions -> [0..MaxInFlight -> Handlers]] /\ handlers'[s][0] = g
        /\ \A r \in Sessions : r # s => handlers'[r] = handlers[r]
        /\ \A j \in 0..MaxInFlight : j # 0 => handlers'[s][j] = handlers[s][j]
    BY <1>3, <1>5, <2>1, SlotFacts, OneHandler
  <2>3. /\ alone' \in [Sessions -> BOOLEAN] /\ ~alone'[s]
        /\ \A r \in Sessions : r # s => alone'[r] = alone[r]
    BY <1>5, <2>1
  <2>4. \A r \in Sessions, j \in Slots : handlers'[r][j] = handlers[r][j]
    BY <2>2, SlotFacts
  <2>5. FlowTypes'
    BY <1>1, <1>2, <2>2, <2>3 DEF FlowInv, FlowTypes
  <2>6. HandlersProper'
    <3>1. ASSUME NEW r \in Sessions, NEW j \in 0..MaxInFlight, handlers'[r][j] # Idle
          PROVE  /\ handlers'[r][j].hook \in Hooks
                 /\ Proper(via'[r], handlers'[r][j].hook, handlers'[r][j].tool, handlers'[r][j].left)
                 /\ handlers'[r][j].hook \in {"PreToolUse", "PermissionRequest"} =>
                       handlers'[r][j].tool \in Tools /\ tools'[r][handlers'[r][j].tool] = "used"
                 /\ j = 0 => handlers'[r][j].hook = "Stop"
      <4>1. CASE r = s /\ j = 0
        BY <1>1, <1>3, <2>2, <4>1
      <4>2. CASE ~(r = s /\ j = 0)
        <5>1. handlers'[r][j] = handlers[r][j]
          BY <2>2, <4>2
        <5> QED
          BY <1>1, <3>1, <5>1 DEF FlowInv, HandlersProper
      <4> QED
        BY <4>1, <4>2
    <3> QED
      BY <3>1, SlotFacts DEF HandlersProper
  <2>7. DecidersRule'
    <3> SUFFICES ASSUME NEW r \in Sessions, Decides(r)'
                 PROVE  /\ \A j \in 0..MaxInFlight : handlers'[r][j] # Idle => handlers'[r][j].hook = last'[r]
                        /\ \A j, k \in Slots : handlers'[r][j] # Idle /\ handlers'[r][k] # Idle => j = k
                        /\ (\A j \in Slots : ~Telling(handlers'[r][j].left))
                              => \E v \in StatesAfter(via'[r], last'[r]) : Coming(r, v)'
                        /\ (\A j \in Slots : ~Applies(handlers'[r][j].left))
                              => backend'[r].phase \in PhasesAfter(via'[r], last'[r])
      BY DEF DecidersRule, WillShow
    <3>1. Decides(r) /\ last' = last /\ backend' = backend /\ (r = s => last[r] = "Stop")
      BY <1>1, <2>3 DEF Decides
    <3>2. via' = via /\ \A v : Coming(r, v)' = Coming(r, v)
      BY <1>1, NothingComes
    <3>3. /\ \A j \in 0..MaxInFlight : handlers[r][j] # Idle => handlers[r][j].hook = last[r]
          /\ \A j, k \in Slots : handlers[r][j] # Idle /\ handlers[r][k] # Idle => j = k
          /\ (\A j \in Slots : ~Telling(handlers[r][j].left))
                => \E v \in StatesAfter(via[r], last[r]) : Coming(r, v)
          /\ (\A j \in Slots : ~Applies(handlers[r][j].left)) => backend[r].phase \in PhasesAfter(via[r], last[r])
      BY <3>1 DEF FlowInv, DecidersRule, WillShow
    <3>4. ASSUME NEW j \in 0..MaxInFlight, handlers'[r][j] # Idle PROVE handlers'[r][j].hook = last'[r]
      <4>1. CASE r = s /\ j = 0
        BY <1>3, <2>2, <3>1, <4>1
      <4>2. CASE ~(r = s /\ j = 0)
        BY <2>2, <3>1, <3>3, <3>4, <4>2
      <4> QED
        BY <4>1, <4>2
    <3> QED
      BY <2>4, <3>1, <3>2, <3>3, <3>4
  <2>8. \A r \in Sessions, u \in Tools :
           /\ InUse(r, u)' = InUse(r, u)
           /\ WillClear(r, u)' = WillClear(r, u) /\ WillComplete(r, u)' = WillComplete(r, u)
    BY <1>1, <2>4 DEF InUse, WillClear, WillComplete
  <2>9. ReducersTool'
    <3>1. \A r \in Sessions : backend[r].tool \in Tools \cup {None}
      BY DEF FlowInv, FlowTypes
    <3> QED
      BY <1>1, <2>8, <3>1 DEF FlowInv, ReducersTool
  <2>10. OverlaysTool'
    BY <1>1, <2>8, NothingComes DEF FlowInv, OverlaysTool
  <2> QED
    BY <2>5, <2>6, <2>7, <2>9, <2>10 DEF FlowInv
<1> QED
  BY <1>1, <1>4, <1>5
-----------------------------------------------------------------------------
(* A handler's next effect, and the overlay's next event.                    *)

\* The handler after its next effect: gone, or with the rest of what it had left.
Next1(g) == IF Len(g.left) = 1 THEN Idle ELSE [g EXCEPT !.left = Tail(g.left)]

LEMMA AfterEffect ==
    ASSUME NEW v, NEW g \in Handlers, g # Idle, Proper(v, g.hook, g.tool, g.left)
    PROVE  /\ 1 \in DOMAIN g.left /\ Head(g.left) = g.left[1] /\ g.left[1] \in Effects
           /\ Next1(g) \in Handlers
           /\ Next1(g) # Idle => /\ Next1(g).hook = g.hook /\ Next1(g).tool = g.tool
                                 /\ Proper(v, g.hook, g.tool, Next1(g).left)
           /\ Next1(g) = Idle => Len(g.left) = 1
           /\ \A k \in DOMAIN g.left : 1 < k =>
                 Next1(g) # Idle /\ k - 1 \in DOMAIN Next1(g).left /\ Next1(g).left[k - 1] = g.left[k]
<1> DEFINE left == g.left
           n == Len(left)
<1>1. left \in Seq(Effects) /\ left # <<>>
  BY DEF Handlers, Proper
<1>2. n \in Nat /\ DOMAIN left = 1..n /\ n # 0
  BY <1>1, LenProperties, EmptySeq
<1>3. 1 \in DOMAIN left /\ Head(left) = left[1] /\ left[1] \in Effects
  <2>1. 1 \in 1..n
    BY <1>2
  <2> QED
    BY <1>1, <1>2, <2>1, ElementOfSeq
<1> HIDE DEF n
<1>4. CASE n = 1
  <2>1. Next1(g) = Idle /\ Len(g.left) = 1
    BY <1>4 DEF Next1, n
  <2>2. \A k \in DOMAIN left : ~(1 < k)
    BY <1>2, <1>4
  <2> QED
    BY <1>3, <2>1, <2>2, SlotFacts
<1>5. CASE n # 1
  <2>1. /\ Tail(left) \in Seq(Effects) /\ Proper(v, g.hook, g.tool, Tail(left))
        /\ DOMAIN Tail(left) = 1..(n - 1)
        /\ \A k \in 1..(n - 1) : k + 1 \in DOMAIN left /\ Tail(left)[k] = left[k + 1]
    BY <1>1, <1>5, ProperTail DEF n
  <2>2. Next1(g) = [g EXCEPT !.left = Tail(left)]
    BY <1>5 DEF Next1, n
  <2>3. /\ Next1(g) \in Handlers /\ Next1(g).hook = g.hook /\ Next1(g).tool = g.tool
        /\ Next1(g).left = Tail(left)
    BY <2>1, <2>2 DEF Handlers
  <2>4. Next1(g) # Idle
    <3>1. Next1(g).left # <<>> /\ Idle.left = <<>>
      BY <2>1, <2>3 DEF Proper, Idle
    <3> QED
      BY <3>1
  <2>5. ASSUME NEW k \in DOMAIN left, 1 < k
        PROVE  k - 1 \in DOMAIN Tail(left) /\ Tail(left)[k - 1] = left[k]
    <3>1. k - 1 \in 1..(n - 1) /\ k - 1 + 1 = k
      BY <1>2, <2>5
    <3> QED
      BY <2>1, <3>1
  <2> QED
    BY <1>3, <2>1, <2>3, <2>4, <2>5
<1> QED
  BY <1>4, <1>5

LEMMA StepStep ==
    ASSUME FlowInv, NEW s \in Sessions, NEW i \in 0..MaxInFlight, Step(s, i)
    PROVE  FlowInv'
<1> DEFINE g == handlers[s][i]
           effect == g.left[1]
           e == effect.event
           m == [of |-> s, event |-> e]
           h == Next1(g)
           n == Len(wire)
<1>1. /\ g \in Handlers /\ g # Idle /\ Proper(via[s], g.hook, g.tool, g.left) /\ g.hook \in Hooks
      /\ i = 0 => g.hook = "Stop"
      /\ g.hook \in {"PreToolUse", "PermissionRequest"} => g.tool \in Tools /\ tools[s][g.tool] = "used"
  <2>1. g # Idle
    BY DEF Step
  <2>2. g \in Handlers
    <3>1. handlers \in [Sessions -> [0..MaxInFlight -> Handlers]]
      BY DEF FlowInv, FlowTypes
    <3> QED
      BY <3>1
  <2> QED
    BY <2>1, <2>2 DEF FlowInv, HandlersProper
<1>2. /\ 1 \in DOMAIN g.left /\ Head(g.left) = effect /\ effect \in Effects /\ h \in Handlers
      /\ h # Idle => h.hook = g.hook /\ h.tool = g.tool /\ Proper(via[s], g.hook, g.tool, h.left)
      /\ h = Idle => Len(g.left) = 1
      /\ \A k \in DOMAIN g.left : 1 < k => h # Idle /\ k - 1 \in DOMAIN h.left /\ h.left[k - 1] = g.left[k]
  BY <1>1, AfterEffect
<1>3. /\ wire' = Append(wire, m)
      /\ backend' = IF effect.do = "apply" THEN [backend EXCEPT ![s] = Reduce(backend[s], e)] ELSE backend
      /\ handlers' = [handlers EXCEPT ![s][i] = h]
      /\ \/ delayed' = [delayed EXCEPT ![s] = delayed[s] + 1] \/ delayed' = [delayed EXCEPT ![s] = delayed[s]]
      /\ UNCHANGED <<via, ui, tools, last, alone, hooks>>
  BY <1>2 DEF Step, Next1
<1>4. /\ m \in Wired /\ m.of = s /\ m.event = e /\ e \in Events
      /\ effect.do = "apply" => e \in AppliedEvents
      /\ effect.do # "apply" => e \in EmittedEvents
  BY <1>2 DEF Effects, Wired, Events
<1>5. Sets(e) => g.hook \in {"PreToolUse", "PermissionRequest"} /\ e.tool = g.tool
  BY <1>1, <1>2 DEF Proper
<1>6. e.type = "toolUseCompleted" => e.tool = g.tool
  BY <1>1, <1>2 DEF Proper
<1>7. g.hook = "Stop" => LeavesState(e, "completed")
                         /\ (effect.do = "apply" => LeavesPhase(e, "completed"))
  BY <1>1, <1>2 DEF Proper
<1>8. g.hook \in Lone /\ Tells(e) /\ ~Telling(h.left) => \E x \in StatesAfter(via[s], g.hook) : LeavesState(e, x)
  <2> SUFFICES ASSUME g.hook \in Lone, Tells(e), ~Telling(h.left)
               PROVE  \E x \in StatesAfter(via[s], g.hook) : LeavesState(e, x)
    OBVIOUS
  <2>1. \A j \in DOMAIN g.left : 1 < j => ~Tells(g.left[j].event)
    BY <1>2 DEF Telling
  <2> QED
    BY <1>1, <1>2, <2>1 DEF Proper
<1>9. g.hook \in Lone /\ effect.do = "apply" /\ ~Applies(h.left) => LeavesOneOf(e, PhasesAfter(via[s], g.hook))
  <2> SUFFICES ASSUME g.hook \in Lone, effect.do = "apply", ~Applies(h.left)
               PROVE  LeavesOneOf(e, PhasesAfter(via[s], g.hook))
    OBVIOUS
  <2>1. \A j \in DOMAIN g.left : 1 < j => g.left[j].do # "apply"
    BY <1>2 DEF Applies
  <2> QED
    BY <1>1, <1>2, <2>1 DEF Proper
<1>10. /\ effect.do # "apply" /\ Applies(g.left) => Applies(h.left)
       /\ ~Tells(e) /\ Telling(g.left) => Telling(h.left)
  <2>1. \A k \in DOMAIN g.left : k = 1 \/ 1 < k
    <3>1. g.left \in Seq(Effects)
      BY <1>1 DEF Handlers
    <3>2. DOMAIN g.left = 1..Len(g.left) /\ Len(g.left) \in Nat
      BY <3>1, LenProperties
    <3> QED
      BY <3>2
  <2> QED
    BY <1>2, <2>1 DEF Applies, Telling
<1>11. /\ \A k \in DOMAIN g.left : k = 1 \/ (h # Idle /\ \E j \in DOMAIN h.left : h.left[j] = g.left[k])
  <2>1. ASSUME NEW k \in DOMAIN g.left, k # 1 PROVE h # Idle /\ \E j \in DOMAIN h.left : h.left[j] = g.left[k]
    <3>1. g.left \in Seq(Effects)
      BY <1>1 DEF Handlers
    <3>2. k \in 1..Len(g.left) /\ Len(g.left) \in Nat
      BY <2>1, <3>1, LenProperties
    <3>3. 1 < k
      BY <2>1, <3>2
    <3> QED
      BY <1>2, <3>3
  <2> QED
    BY <2>1
<1> HIDE DEF h, e, effect, m
<1>12. /\ handlers' \in [Sessions -> [0..MaxInFlight -> Handlers]] /\ handlers'[s][i] = h
       /\ \A r \in Sessions : r # s => handlers'[r] = handlers[r]
       /\ \A j \in 0..MaxInFlight : j # i => handlers'[s][j] = handlers[s][j]
  BY <1>2, <1>3, OneHandler DEF FlowInv, FlowTypes
<1>13. /\ wire' \in Seq(Wired) /\ n \in Nat /\ DOMAIN wire = 1..n /\ DOMAIN wire' = 1..(n + 1)
       /\ (\A k \in 1..n : wire'[k] = wire[k]) /\ wire'[n + 1] = m
  BY <1>3, <1>4, Appended DEF FlowInv, FlowTypes
<1> HIDE DEF n
<1>14. backend \in [Sessions -> Backends]
  BY DEF FlowInv, FlowTypes, Backends
<1>15. /\ backend' \in [Sessions -> Backends]
       /\ \A r \in Sessions : r # s => backend'[r] = backend[r]
       /\ backend'[s] = IF effect.do = "apply" THEN Reduce(backend[s], e) ELSE backend[s]
  <2>1. effect.do = "apply" => Reduce(backend[s], e) \in Backends
    BY <1>4, <1>14, Reduced
  <2> QED
    BY <1>3, <1>14, <2>1
<1>16. FlowTypes'
  <2>1. delayed' \in [Sessions -> Nat]
    <3>1. delayed \in [Sessions -> Nat] /\ delayed[s] \in Nat /\ delayed[s] + 1 \in Nat
      BY DEF FlowInv, FlowTypes
    <3> QED
      BY <1>3, <3>1
  <2> QED
    BY <1>3, <1>12, <1>13, <1>15, <2>1 DEF FlowInv, FlowTypes, Backends
<1>17. HandlersProper'
  <2>1. ASSUME NEW r \in Sessions, NEW j \in 0..MaxInFlight, handlers'[r][j] # Idle
        PROVE  /\ handlers'[r][j].hook \in Hooks
               /\ Proper(via'[r], handlers'[r][j].hook, handlers'[r][j].tool, handlers'[r][j].left)
               /\ handlers'[r][j].hook \in {"PreToolUse", "PermissionRequest"} =>
                     handlers'[r][j].tool \in Tools /\ tools'[r][handlers'[r][j].tool] = "used"
               /\ j = 0 => handlers'[r][j].hook = "Stop"
    <3>1. CASE r = s /\ j = i
      <4>1. handlers'[r][j] = h /\ h # Idle
        BY <1>12, <2>1, <3>1
      <4>2. h.hook = g.hook /\ h.tool = g.tool /\ Proper(via[s], g.hook, g.tool, h.left)
        BY <1>2, <4>1 DEF h
      <4> QED
        BY <1>1, <1>3, <3>1, <4>1, <4>2
    <3>2. CASE ~(r = s /\ j = i)
      <4>1. handlers'[r][j] = handlers[r][j]
        BY <1>12, <3>2
      <4> QED
        BY <1>3, <2>1, <4>1 DEF FlowInv, HandlersProper
    <3> QED
      BY <3>1, <3>2
  <2> QED
    BY <2>1, SlotFacts DEF HandlersProper
<1>18. DecidersRule'
  <2> SUFFICES ASSUME NEW r \in Sessions, Decides(r)'
               PROVE  /\ \A j \in 0..MaxInFlight : handlers'[r][j] # Idle => handlers'[r][j].hook = last'[r]
                      /\ \A j, k \in Slots : handlers'[r][j] # Idle /\ handlers'[r][k] # Idle => j = k
                      /\ (\A j \in Slots : ~Telling(handlers'[r][j].left))
                            => \E v \in StatesAfter(via'[r], last'[r]) : Coming(r, v)'
                      /\ (\A j \in Slots : ~Applies(handlers'[r][j].left))
                            => backend'[r].phase \in PhasesAfter(via'[r], last'[r])
    BY DEF DecidersRule, WillShow
  <2>1. Decides(r) /\ last' = last /\ via' = via /\ last[r] \in Lone
    BY <1>3 DEF Decides, Lone, Hooks, PromptHooks
  <2>2. /\ \A j \in 0..MaxInFlight : handlers[r][j] # Idle => handlers[r][j].hook = last[r]
        /\ \A j, k \in Slots : handlers[r][j] # Idle /\ handlers[r][k] # Idle => j = k
        /\ (\A j \in Slots : ~Telling(handlers[r][j].left))
              => \E v \in StatesAfter(via[r], last[r]) : Coming(r, v)
        /\ (\A j \in Slots : ~Applies(handlers[r][j].left)) => backend[r].phase \in PhasesAfter(via[r], last[r])
    BY <2>1 DEF FlowInv, DecidersRule, WillShow
  <2>3. ASSUME NEW v
        PROVE  /\ (s # r \/ ~Tells(e)) /\ Coming(r, v) => Coming(r, v)'
               /\ s = r /\ Tells(e) /\ LeavesState(e, v) => Coming(r, v)'
    <3>1. Heard(m, r) <=> s = r /\ Tells(e)
      BY <1>4 DEF Heard
    <3>2. wire \in Seq(Wired) /\ UNCHANGED ui
      BY <1>3 DEF FlowInv, FlowTypes
    <3> QED
      BY <1>3, <1>4, <3>1, <3>2, ComingAfterEmit
  <2>5. CASE r # s
    <3>1. handlers'[r] = handlers[r] /\ backend'[r] = backend[r]
      BY <1>12, <1>15, <2>5
    <3> QED
      BY <2>1, <2>2, <2>3, <2>5, <3>1
  <2>6. CASE r = s
    <3>1. g.hook = last[s]
      BY <1>1, <2>2, <2>6
    <3>2. \A j \in 0..MaxInFlight : handlers'[s][j] # Idle => handlers'[s][j].hook = last'[s]
      BY <1>2, <1>12, <2>1, <2>2, <2>6, <3>1 DEF h
    <3>3. \A j \in Slots : handlers'[s][j] # Idle => handlers[s][j] # Idle
      BY <1>1, <1>12, SlotFacts
    <3>4. \A j, k \in Slots : handlers'[s][j] # Idle /\ handlers'[s][k] # Idle => j = k
      BY <2>2, <2>6, <3>3
    <3>5. ASSUME \A j \in Slots : ~Telling(handlers'[s][j].left)
          PROVE  \E v \in StatesAfter(via[s], last[s]) : Coming(s, v)'
      <4>1. CASE Tells(e)
        <5>1. \E v \in StatesAfter(via[s], last[s]) : LeavesState(e, v)
          <6>1. CASE i = 0
            BY <1>1, <1>7, <3>1, <6>1 DEF StatesAfter
          <6>2. CASE i \in Slots
            BY <1>8, <1>12, <2>1, <2>6, <3>1, <3>5, <4>1, <6>2 DEF h, e, effect
          <6> QED
            BY <6>1, <6>2, SlotFacts
        <5> QED
          BY <2>3, <2>6, <4>1, <5>1
      <4>2. CASE ~Tells(e)
        <5>1. ASSUME NEW j \in Slots PROVE ~Telling(handlers[s][j].left)
          <6>1. CASE j = i
            BY <1>10, <1>12, <3>5, <4>2, <6>1, SlotFacts DEF h, e, effect
          <6>2. CASE j # i
            BY <1>12, <3>5, <6>2, SlotFacts
          <6> QED
            BY <6>1, <6>2
        <5> QED
          BY <2>2, <2>3, <2>6, <4>2, <5>1
      <4> QED
        BY <4>1, <4>2
    <3>6. ASSUME \A j \in Slots : ~Applies(handlers'[s][j].left)
          PROVE  backend'[s].phase \in PhasesAfter(via[s], last[s])
      <4>1. CASE effect.do = "apply"
        <5>1. LeavesOneOf(e, PhasesAfter(via[s], last[s]))
          <6>1. CASE i = 0
            BY <1>1, <1>7, <3>1, <4>1, <6>1 DEF PhasesAfter, LeavesOneOf
          <6>2. CASE i \in Slots
            BY <1>9, <1>12, <2>1, <2>6, <3>1, <3>6, <4>1, <6>2 DEF h, e, effect
          <6> QED
            BY <6>1, <6>2, SlotFacts
        <5> QED
          BY <1>4, <1>14, <1>15, <4>1, <5>1, Reduced
      <4>2. CASE effect.do # "apply"
        <5>1. ASSUME NEW j \in Slots PROVE ~Applies(handlers[s][j].left)
          <6>1. CASE j = i
            BY <1>10, <1>12, <3>6, <4>2, <6>1, SlotFacts DEF h, effect
          <6>2. CASE j # i
            BY <1>12, <3>6, <6>2, SlotFacts
          <6> QED
            BY <6>1, <6>2
        <5> QED
          BY <1>15, <2>2, <2>6, <4>2, <5>1
      <4> QED
        BY <4>1, <4>2
    <3> QED
      BY <2>1, <2>6, <3>2, <3>4, <3>5, <3>6
  <2> QED
    BY <2>5, <2>6
<1>19. ReducersTool'
  <2> SUFFICES ASSUME NEW r \in Sessions, backend'[r].tool # None
               PROVE  InUse(r, backend[r].tool)' \/ WillComplete(r, backend[r].tool)'
    BY DEF ReducersTool
  <2> DEFINE u == backend'[r].tool
  <2>0. u \in Tools
    BY <1>15 DEF Backends
  <2> HIDE DEF u
  <2> SUFFICES (tools'[r][u] \in {"used", "dropped"}) \/
                  (\E j \in Slots : handlers'[r][j].tool = u /\
                      \E k \in DOMAIN handlers'[r][j].left :
                          handlers'[r][j].left[k].event.type = "toolUseCompleted")
    BY DEF InUse, WillComplete, u
  <2>1. ASSUME backend[r].tool = u
        PROVE  \/ tools[r][u] \in {"used", "dropped"}
               \/ \E j \in Slots : handlers[r][j].tool = u /\
                      \E k \in DOMAIN handlers[r][j].left :
                          handlers[r][j].left[k].event.type = "toolUseCompleted"
    BY <2>1 DEF FlowInv, ReducersTool, InUse, WillComplete, u
  <2>2. CASE r # s
    <3>1. backend[r].tool = u /\ handlers'[r] = handlers[r] /\ tools' = tools
      BY <1>3, <1>12, <1>15, <2>2 DEF u
    <3> QED
      BY <2>1, <3>1
  <2>3. CASE r = s /\ effect.do = "apply" /\ e.type = "toolUseStarted"
    <3>1. u = e.tool
      BY <1>4, <1>14, <1>15, <2>3, Reduced DEF u
    <3>2. Sets(e)
      BY <2>3 DEF Sets
    <3> QED
      BY <1>1, <1>3, <1>5, <2>3, <3>1, <3>2 DEF e, effect
  <2>4. CASE r = s /\ ~(effect.do = "apply" /\ e.type = "toolUseStarted")
    <3>1. backend[s].tool = u /\ (e.type = "toolUseCompleted" => u # g.tool)
      <4>1. CASE effect.do = "apply"
        BY <1>4, <1>6, <1>14, <1>15, <2>4, <4>1, Reduced DEF u, e, effect
      <4>2. CASE effect.do # "apply"
        <5>1. e.type # "toolUseCompleted"
          BY <1>4, <4>2 DEF EmittedEvents, Shape
        <5> QED
          BY <1>15, <2>4, <4>2, <5>1 DEF u
      <4> QED
        BY <4>1, <4>2
    <3>2. ASSUME NEW j \in Slots, handlers[s][j].tool = u, NEW k \in DOMAIN handlers[s][j].left,
                 handlers[s][j].left[k].event.type = "toolUseCompleted"
          PROVE  handlers'[s][j].tool = u /\ \E l \in DOMAIN handlers'[s][j].left :
                    handlers'[s][j].left[l].event.type = "toolUseCompleted"
      <4>1. CASE j # i
        BY <1>12, <3>2, <4>1, SlotFacts
      <4>2. CASE j = i
        <5>1. k # 1
          BY <3>1, <3>2, <4>2 DEF e, effect
        <5> QED
          BY <1>2, <1>11, <1>12, <3>2, <4>2, <5>1 DEF h
      <4> QED
        BY <4>1, <4>2
    <3> QED
      BY <1>3, <2>1, <2>4, <3>1, <3>2
  <2> QED
    BY <2>2, <2>3, <2>4
<1>20. OverlaysTool'
  <2>1. ASSUME NEW r \in Sessions, NEW k, ClearedAfter(r, k)
        PROVE  \E j \in DOMAIN wire' : k < j /\ wire'[j].of = r /\ Clears(wire'[j].event)
    <3>1. PICK j \in DOMAIN wire : k < j /\ wire[j].of = r /\ Clears(wire[j].event)
      BY <2>1 DEF ClearedAfter
    <3>2. j \in DOMAIN wire' /\ wire'[j] = wire[j]
      BY <1>13
    <3> QED
      BY <3>1, <3>2
  <2>2. ASSUME NEW r \in Sessions, NEW k \in 0..n, ClearedAfter(r, k) \/ \E t \in Tools : InUse(r, t) \/ WillClear(r, t)
        PROVE  \/ \E j \in DOMAIN wire' : k < j /\ wire'[j].of = r /\ Clears(wire'[j].event)
               \/ \E t \in Tools : InUse(r, t)' \/ WillClear(r, t)'
    <3>1. CASE ClearedAfter(r, k)
      BY <2>1, <3>1
    <3>2. ASSUME NEW t \in Tools, InUse(r, t) PROVE InUse(r, t)'
      BY <1>3, <3>2 DEF InUse
    <3>3. ASSUME NEW t \in Tools, WillClear(r, t), r # s PROVE WillClear(r, t)'
      BY <1>12, <3>3 DEF WillClear
    <3>4. ASSUME NEW t \in Tools, WillClear(r, t), r = s
          PROVE  WillClear(r, t)' \/ \E j \in DOMAIN wire' : k < j /\ wire'[j].of = r /\ Clears(wire'[j].event)
      <4>1. PICK j \in Slots : handlers[s][j].tool = t /\
                \E l \in DOMAIN handlers[s][j].left : Clears(handlers[s][j].left[l].event)
        BY <3>4 DEF WillClear
      <4>2. PICK l \in DOMAIN handlers[s][j].left : Clears(handlers[s][j].left[l].event)
        BY <4>1
      <4>3. CASE j # i
        BY <1>12, <3>4, <4>1, <4>2, <4>3, SlotFacts DEF WillClear
      <4>4. CASE j = i /\ l # 1
        <5>1. h # Idle /\ h.tool = t /\ \E x \in DOMAIN h.left : h.left[x] = g.left[l]
          BY <1>2, <1>11, <4>1, <4>2, <4>4 DEF h
        <5> QED
          BY <1>12, <3>4, <4>2, <4>4, <5>1 DEF WillClear
      <4>5. CASE j = i /\ l = 1
        <5>1. Clears(e)
          BY <4>2, <4>5 DEF e, effect
        <5>2. n + 1 \in DOMAIN wire' /\ k < n + 1
          BY <1>13
        <5> QED
          BY <1>4, <1>13, <3>4, <5>1, <5>2
      <4> QED
        BY <4>3, <4>4, <4>5
    <3> QED
      BY <2>2, <3>1, <3>2, <3>3, <3>4
  <2>3. ASSUME NEW r \in Sessions, NEW k \in DOMAIN wire', wire'[k].of = r, Sets(wire'[k].event)
        PROVE  \/ \E j \in DOMAIN wire' : k < j /\ wire'[j].of = r /\ Clears(wire'[j].event)
               \/ \E t \in Tools : InUse(r, t)' \/ WillClear(r, t)'
    <3>1. CASE k \in 1..n
      <4>1. wire'[k] = wire[k] /\ k \in 0..n /\ k \in DOMAIN wire
        BY <1>13, <3>1
      <4>2. ClearedAfter(r, k) \/ \E t \in Tools : InUse(r, t) \/ WillClear(r, t)
        BY <2>3, <4>1 DEF FlowInv, OverlaysTool
      <4> QED
        BY <2>2, <4>1, <4>2
    <3>2. CASE k = n + 1
      <4>1. r = s /\ Sets(e)
        BY <1>4, <1>13, <2>3, <3>2
      <4>2. g.tool \in Tools /\ tools'[s][g.tool] = "used"
        BY <1>1, <1>3, <1>5, <4>1 DEF e, effect
      <4> QED
        BY <4>1, <4>2 DEF InUse
    <3> QED
      BY <1>13, <3>1, <3>2
  <2>4. ASSUME NEW r \in Sessions, ui'[r].tool # None
        PROVE  \/ \E j \in DOMAIN wire' : 0 < j /\ wire'[j].of = r /\ Clears(wire'[j].event)
               \/ \E t \in Tools : InUse(r, t)' \/ WillClear(r, t)'
    <3>1. ClearedAfter(r, 0) \/ \E t \in Tools : InUse(r, t) \/ WillClear(r, t)
      BY <1>3, <2>4 DEF FlowInv, OverlaysTool
    <3>2. 0 \in 0..n
      BY <1>13
    <3> QED
      BY <2>2, <3>1, <3>2
  <2> QED
    BY <2>3, <2>4 DEF OverlaysTool, ClearedAfter
<1> QED
  BY <1>16, <1>17, <1>18, <1>19, <1>20 DEF FlowInv

LEMMA HandleEventStep ==
    ASSUME FlowInv, HandleEvent
    PROVE  FlowInv'
<1> DEFINE n == Len(wire)
           m == wire[1]
           s == m.of
<1>1. /\ wire' \in Seq(Wired) /\ n \in Nat /\ n >= 1 /\ DOMAIN wire = 1..n /\ DOMAIN wire' = 1..(n - 1)
      /\ (\A k \in 1..(n - 1) : wire'[k] = wire[k + 1])
      /\ m \in Wired /\ Head(wire) = m
  BY TakenOff DEF HandleEvent, FlowInv, FlowTypes
<1>2. ui' = [ui EXCEPT ![s] = Listen(ui[s], m.event)]
      /\ UNCHANGED <<via, backend, handlers, delayed, tools, last, alone, hooks>>
  BY <1>1 DEF HandleEvent
<1>3. s \in Sessions /\ m.event \in Events
  BY <1>1 DEF Wired
<1>4. ui \in [Sessions -> Shown]
  BY DEF FlowInv, FlowTypes, Shown
<1>5. /\ ui' \in [Sessions -> Shown] /\ \A r \in Sessions : r # s => ui'[r] = ui[r]
      /\ Clears(m.event) => ui'[s].tool = None
      /\ ~Sets(m.event) => ui'[s].tool \in {ui[s].tool, None}
  BY <1>2, <1>3, <1>4, Listened
<1> HIDE DEF n, m
<1>6. \A j \in DOMAIN wire : j = 1 \/ (j \in Nat /\ j - 1 \in DOMAIN wire' /\ wire'[j - 1] = wire[j])
  <2>1. ASSUME NEW j \in DOMAIN wire, j # 1
        PROVE  j \in Nat /\ j - 1 \in DOMAIN wire' /\ wire'[j - 1] = wire[j]
    <3>1. j \in Nat /\ j - 1 \in 1..(n - 1) /\ j - 1 + 1 = j
      BY <1>1, <2>1
    <3> QED
      BY <1>1, <3>1
  <2> QED
    BY <2>1
<1>7. FlowTypes'
  BY <1>1, <1>2, <1>5 DEF FlowInv, FlowTypes, Shown
<1>8. HandlersProper'
  BY <1>2 DEF FlowInv, HandlersProper
<1>9. DecidersRule'
  <2> SUFFICES ASSUME NEW r \in Sessions, Decides(r)'
               PROVE  /\ \A j \in 0..MaxInFlight : handlers'[r][j] # Idle => handlers'[r][j].hook = last'[r]
                      /\ \A j, k \in Slots : handlers'[r][j] # Idle /\ handlers'[r][k] # Idle => j = k
                      /\ (\A j \in Slots : ~Telling(handlers'[r][j].left))
                            => \E v \in StatesAfter(via'[r], last'[r]) : Coming(r, v)'
                      /\ (\A j \in Slots : ~Applies(handlers'[r][j].left))
                            => backend'[r].phase \in PhasesAfter(via'[r], last'[r])
    BY DEF DecidersRule, WillShow
  <2>1. Decides(r)
    BY <1>2 DEF Decides
  <2>2. \A v : Coming(r, v) => Coming(r, v)'
    BY ComingAfterHandled DEF FlowInv
  <2> QED
    BY <1>2, <2>1, <2>2 DEF FlowInv, DecidersRule, WillShow
<1>10. \A r, t : /\ InUse(r, t)' = InUse(r, t)
                 /\ WillClear(r, t)' = WillClear(r, t) /\ WillComplete(r, t)' = WillComplete(r, t)
  BY <1>2 DEF InUse, WillClear, WillComplete
<1>11. ReducersTool'
  BY <1>2, <1>10 DEF FlowInv, ReducersTool, InUse, WillComplete
<1>12. OverlaysTool'
  <2>1. ASSUME NEW r \in Sessions, NEW k \in Nat, ClearedAfter(r, k + 1)
        PROVE  \E j \in DOMAIN wire' : k < j /\ wire'[j].of = r /\ Clears(wire'[j].event)
    <3>1. PICK j \in DOMAIN wire : k + 1 < j /\ wire[j].of = r /\ Clears(wire[j].event)
      BY <2>1 DEF ClearedAfter
    <3>2. j # 1 /\ j \in Nat
      BY <1>1, <3>1
    <3>3. j - 1 \in DOMAIN wire' /\ wire'[j - 1] = wire[j] /\ k < j - 1
      BY <1>6, <3>1, <3>2
    <3> QED
      BY <3>1, <3>3
  <2>2. ASSUME NEW r \in Sessions, NEW k \in DOMAIN wire', wire'[k].of = r, Sets(wire'[k].event)
        PROVE  \/ \E j \in DOMAIN wire' : k < j /\ wire'[j].of = r /\ Clears(wire'[j].event)
               \/ \E t \in Tools : InUse(r, t)' \/ WillClear(r, t)'
    <3>1. k \in Nat /\ k + 1 \in DOMAIN wire /\ wire'[k] = wire[k + 1]
      BY <1>1
    <3>2. ClearedAfter(r, k + 1) \/ \E t \in Tools : InUse(r, t) \/ WillClear(r, t)
      BY <2>2, <3>1 DEF FlowInv, OverlaysTool
    <3> QED
      BY <1>10, <2>1, <3>1, <3>2
  <2>3. ASSUME NEW r \in Sessions, ui'[r].tool # None
        PROVE  \/ \E j \in DOMAIN wire' : 0 < j /\ wire'[j].of = r /\ Clears(wire'[j].event)
               \/ \E t \in Tools : InUse(r, t)' \/ WillClear(r, t)'
    <3>1. CASE r = s /\ Sets(m.event)
      <4>1. 1 \in DOMAIN wire /\ 0 + 1 = 1 /\ 0 \in Nat
        BY <1>1
      <4>2. ClearedAfter(r, 1) \/ \E t \in Tools : InUse(r, t) \/ WillClear(r, t)
        BY <3>1, <4>1 DEF FlowInv, OverlaysTool, m
      <4>3. ClearedAfter(r, 0 + 1) \/ \E t \in Tools : InUse(r, t) \/ WillClear(r, t)
        BY <4>1, <4>2
      <4> QED
        BY <1>10, <2>1, <4>1, <4>3
    <3>2. CASE ~(r = s /\ Sets(m.event))
      <4>1. ui[r].tool # None /\ ~(r = s /\ Clears(m.event))
        BY <1>5, <2>3, <3>2
      <4>2. ClearedAfter(r, 0) \/ \E t \in Tools : InUse(r, t) \/ WillClear(r, t)
        BY <4>1 DEF FlowInv, OverlaysTool
      <4>3. ASSUME ClearedAfter(r, 0)
            PROVE  \E j \in DOMAIN wire' : 0 < j /\ wire'[j].of = r /\ Clears(wire'[j].event)
        <5>1. PICK j \in DOMAIN wire : wire[j].of = r /\ Clears(wire[j].event)
          BY <4>3 DEF ClearedAfter
        <5>2. j # 1
          BY <4>1, <5>1 DEF m
        <5>3. j - 1 \in DOMAIN wire' /\ wire'[j - 1] = wire[j]
          BY <1>6, <5>1, <5>2
        <5>4. 0 < j - 1
          BY <1>1, <5>3
        <5> QED
          BY <5>1, <5>3, <5>4
      <4> QED
        BY <1>10, <4>2, <4>3
    <3> QED
      BY <3>1, <3>2
  <2> QED
    BY <2>2, <2>3 DEF OverlaysTool, ClearedAfter
<1> QED
  BY <1>7, <1>8, <1>9, <1>11, <1>12 DEF FlowInv
-----------------------------------------------------------------------------
(* What the mirrors promise.                                                 *)

LEMMA FlowStarts == Init => FlowInv
<1> SUFFICES ASSUME Init PROVE FlowInv
  OBVIOUS
<1>1. /\ via \in [Sessions -> {"http", "pipe"}]
      /\ backend = [s \in Sessions |-> [phase |-> None, tool |-> None]]
      /\ ui = [s \in Sessions |-> [state |-> None, tool |-> None]]
      /\ wire = <<>>
      /\ handlers = [s \in Sessions |-> [i \in 0..MaxInFlight |-> Idle]]
      /\ delayed = [s \in Sessions |-> 0]
      /\ tools \in [Sessions -> [Tools -> {"new", "used"}]]
      /\ last = [s \in Sessions |-> None]
      /\ alone = [s \in Sessions |-> FALSE]
      /\ hooks = 0
  BY DEF Init
<1>2. \A s \in Sessions, i \in 0..MaxInFlight : handlers[s][i] = Idle
  BY <1>1
<1>3. FlowTypes
  <2>1. /\ backend \in [Sessions -> [phase : Phases \cup {None}, tool : Tools \cup {None}]]
        /\ ui \in [Sessions -> [state : States \cup {None}, tool : Names \cup {None}]]
    BY <1>1
  <2>2. wire \in Seq(Wired) /\ delayed \in [Sessions -> Nat]
    BY <1>1
  <2>3. handlers \in [Sessions -> [0..MaxInFlight -> Handlers]]
    BY <1>1, SlotFacts
  <2>4. tools \in [Sessions -> [Tools -> {"new", "used", "done", "dropped"}]]
    <3>1. \A s \in Sessions : tools[s] \in [Tools -> {"new", "used", "done", "dropped"}]
      BY <1>1
    <3> QED
      BY <1>1, <3>1
  <2>5. last \in [Sessions -> Hooks \cup {None}] /\ alone \in [Sessions -> BOOLEAN]
    BY <1>1
  <2>6. hooks \in 0..MaxHooks
    BY <1>1, SessionAssumption
  <2> QED
    BY <1>1, <2>1, <2>2, <2>3, <2>4, <2>5, <2>6 DEF FlowTypes
<1>4. HandlersProper
  BY <1>2, SlotFacts DEF HandlersProper
<1>5. DecidersRule
  <2>1. \A s \in Sessions : ~Decides(s)
    <3>1. None # "Stop"
      BY SessionAssumption DEF Hooks, PromptHooks
    <3> QED
      BY <1>1, <3>1 DEF Decides
  <2> QED
    BY <2>1 DEF DecidersRule
<1>6. ReducersTool /\ OverlaysTool
  <2>1. DOMAIN wire = {}
    BY <1>1
  <2> QED
    BY <1>1, <2>1 DEF ReducersTool, OverlaysTool
<1> QED
  BY <1>3, <1>4, <1>5, <1>6 DEF FlowInv

LEMMA FlowIsInvariant == Spec => []FlowInv
<1>1. Init => FlowInv
  BY FlowStarts
<1>2. FlowInv /\ [Next]_vars => FlowInv'
  <2> SUFFICES ASSUME FlowInv, [Next]_vars PROVE FlowInv'
    OBVIOUS
  <2>1. CASE UNCHANGED vars
    BY <2>1 DEF vars, FlowInv, FlowTypes, HandlersProper, DecidersRule, Decides, Coming, WillShow, ReducersTool,
                OverlaysTool, InUse, WillClear, WillComplete, ClearedAfter
  <2>2. CASE Next
    <3>1. CASE HandleEvent
      BY <3>1, HandleEventStep
    <3>2. ASSUME NEW s \in Sessions, NEW i \in Slots, NEW h \in ToolHooks, NEW t \in Tools, ToolHook(s, i, h, t)
          PROVE  FlowInv'
      BY <3>2, ToolHookStep
    <3>3. ASSUME NEW s \in Sessions, NEW i \in Slots, NEW h \in PromptHooks, PromptHook(s, i, h)
          PROVE  FlowInv'
      BY <3>3, OtherHookStep
    <3>4. ASSUME NEW s \in Sessions, NEW i \in Slots, NEW h \in NotificationHooks, NotificationHook(s, i, h)
          PROVE  FlowInv'
      BY <3>4, OtherHookStep
    <3>5. ASSUME NEW s \in Sessions, NEW i \in 0..MaxInFlight, Step(s, i)
          PROVE  FlowInv'
      BY <3>5, StepStep
    <3>6. ASSUME NEW s \in Sessions, (\E t \in Tools : DropTool(s, t)) \/ TitleTask(s)
          PROVE  FlowInv'
      BY <3>6, DropToolStep, TitleTaskStep
    <3> QED
      BY <2>2, <3>1, <3>2, <3>3, <3>4, <3>5, <3>6 DEF Next
  <2> QED
    BY <2>1, <2>2
<1> QED
  BY <1>1, <1>2, PTL DEF Spec

\* The variables of sessions, handlers and wire keep their types.
THEOREM TypeCorrect == Spec => []SessionTypeOK
<1>1. FlowInv => SessionTypeOK
  <2> SUFFICES ASSUME FlowInv PROVE SessionTypeOK
    OBVIOUS
  <2>1. \A i \in 1..Len(wire) : wire[i].of \in Sessions
    <3>1. \A i \in 1..Len(wire) : wire[i] \in Wired
      BY ElementOfSeq DEF FlowInv, FlowTypes
    <3> QED
      BY <3>1 DEF Wired
  <2>2. \A s \in Sessions, i \in 0..MaxInFlight : handlers[s][i] = Idle <=> handlers[s][i].left = <<>>
    BY DEF FlowInv, HandlersProper, Proper, Idle
  <2> QED
    BY <2>1, <2>2 DEF FlowInv, FlowTypes, SessionTypeOK
<1> QED
  BY <1>1, FlowIsInvariant, PTL

LEMMA AtRestItShows ==
    ASSUME FlowInv, NEW s \in Sessions, AtRest(s), Decides(s)
    PROVE  /\ ui[s].state \in StatesAfter(via[s], last[s])
           /\ backend[s].phase \in PhasesAfter(via[s], last[s])
<1>1. (\A i \in Slots : handlers[s][i] = Idle) /\ \A k \in DOMAIN wire : wire[k].of # s
  <2>1. DOMAIN wire = 1..Len(wire)
    BY LenProperties DEF FlowInv, FlowTypes
  <2> QED
    BY <2>1 DEF AtRest
<1>2. \A i \in Slots : ~Applies(handlers[s][i].left) /\ ~Telling(handlers[s][i].left)
  BY <1>1, SlotFacts
<1> QED
  BY <1>1, <1>2 DEF FlowInv, DecidersRule, WillShow, Coming, Heard

\* After an HTTP Stop the session is completed in both mirrors once nothing is under
\* way, and the delayed title task of this Stop or an earlier one cannot change that.
THEOREM StopHasTheLastWord == Spec => []StopIsFinal
<1>1. FlowInv => StopIsFinal
  BY AtRestItShows DEF StopIsFinal, Decides, StatesAfter, PhasesAfter
<1> QED
  BY <1>1, FlowIsInvariant, PTL

\* Ten hooks are applied to SessionState and emitted as well.  If no other handler runs
\* beside it, each leaves the two mirrors of a session equal, whatever earlier hooks had
\* left, or parts them in the way PostToolUse, a decided HTTP PermissionRequest and
\* idle_prompt do.
THEOREM LoneHooksAgree == Spec => []LoneHookAgrees
<1>1. FlowInv => LoneHookAgrees
  <2> SUFFICES ASSUME FlowInv, NEW s \in Sessions, alone[s], AtRest(s), last[s] \in Lone
               PROVE  Agrees(s) \/ Parted(s)
    BY DEF LoneHookAgrees, Lone
  <2>1. /\ ui[s].state \in StatesAfter(via[s], last[s])
        /\ backend[s].phase \in PhasesAfter(via[s], last[s])
    BY AtRestItShows DEF Decides
  <2> QED
    BY <2>1 DEF Agrees, Parted, StatesAfter, PhasesAfter
<1> QED
  BY <1>1, FlowIsInvariant, PTL

\* Once every tool call was reported complete and all is handled, no mirror has a
\* current tool, in whatever order the parallel reports came: the reducer waits for
\* the report of its tool, and every report clears the overlay's after the last start.
THEOREM NoToolIsStuck == Spec => []NoStuckTool
<1>1. FlowInv => NoStuckTool
  <2> SUFFICES ASSUME FlowInv, NEW s \in Sessions, AtRest(s), \A t \in Tools : tools[s][t] \in {"new", "done"}
               PROVE  ui[s].tool = None /\ backend[s].tool = None
    BY DEF NoStuckTool
  <2>1. \A i \in Slots : DOMAIN handlers[s][i].left = {}
    BY SlotFacts DEF AtRest
  <2>2. \A k \in DOMAIN wire : wire[k].of # s
    BY LenProperties DEF AtRest, FlowInv, FlowTypes
  <2>3. \A t \in Tools : ~InUse(s, t) /\ ~WillClear(s, t) /\ ~WillComplete(s, t)
    BY <2>1 DEF InUse, WillClear, WillComplete
  <2>4. backend[s].tool \in Tools \cup {None}
    BY DEF FlowInv, FlowTypes
  <2>5. ~ClearedAfter(s, 0)
    BY <2>2 DEF ClearedAfter
  <2> QED
    BY <2>3, <2>4, <2>5 DEF FlowInv, ReducersTool, OverlaysTool
<1> QED
  BY <1>1, FlowIsInvariant, PTL
=============================================================================
