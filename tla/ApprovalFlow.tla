---------------------------- MODULE ApprovalFlow ----------------------------
(***************************************************************************)
(* The approval flow from the hook to the user's click and back: the       *)
(* broker, the queue of cards, and what lies between them.  Backend to     *)
(* frontend that is the stream of Tauri events; frontend to backend it is  *)
(* the asynchronous command submit_approval_response, whose outcome comes  *)
(* back when the queue may have changed.                                   *)
(*                                                                         *)
(* The emits one handler makes in a row are one step here.                 *)
(***************************************************************************)
EXTENDS ApprovalQueue, FiniteSets

CONSTANTS Keys, Via, None,
          Sessions,
          MaxActivity,   \* bound: other hooks that the agents run meanwhile
          MaxCalls       \* bound: calls of submit_approval_response under way

ASSUME FlowAssumption ==
    /\ KeyOf \in [Requests -> Keys]
    /\ Via \in [Requests -> {"http", "pipe"}]
    /\ None \notin Requests
    /\ SessionOf \in [Requests -> Sessions]
    /\ MaxActivity \in Nat /\ MaxCalls \in Nat

VARIABLES
    up, announced, pending, chan, pc, client,  \* the broker
    events,     \* emitted and not yet handled by useAgentEvents, in order
    uiWaiting,  \* sessions in a waiting state, as the overlay knows them
    sent,       \* submit_approval_response invoked and not yet executed
    accepted,   \* ... executed, Ok on its way back
    activity    \* other hooks so far

brokerVars == <<up, announced, pending, chan, pc, client>>
uiVars == <<queueVars, uiWaiting>>
callVars == <<sent, accepted>>
vars == <<brokerVars, uiVars, callVars, events, activity>>

B == INSTANCE ApprovalBroker

Answers == Requests \X B!Decisions

\* request: permission_request between agent_event and state_change, all of
\* which put the session in waitingForApproval.  state_change: to any other
\* state.  quiet: a session_start or an agent_event that takes the session out
\* of a waiting state.
Events ==
    [type : {"request"}, of : Requests] \cup
    [type : {"state_change", "quiet"}, of : Sessions]

FlowTypeOK ==
    /\ B!TypeOK
    /\ QueueTypeOK
    /\ events \in Seq(Events)
    /\ uiWaiting \subseteq Sessions
    /\ sent \subseteq Answers
    /\ accepted \subseteq Answers
    /\ activity \in 0..MaxActivity

Init ==
    /\ B!Init
    /\ QueueInit
    /\ events = <<>>
    /\ uiWaiting = {}
    /\ sent = {}
    /\ accepted = {}
    /\ activity = 0

Emit(type, of) == events' = Append(events, [type |-> type, of |-> of])
-----------------------------------------------------------------------------
(* The backend.                                                              *)

\* The handlers' steps that emit nothing.
Silent(r) ==
    /\ \/ B!HttpStore(r) \/ B!PipeStore(r)
       \/ B!SenderDropped(r) \/ B!PipeTimerFires(r) \/ B!PipeTimeout(r)
       \/ B!ClientLeaves(r) \/ B!HttpDrop(r)
    /\ UNCHANGED <<uiVars, callVars, events, activity>>

Announce(r) ==
    /\ B!HttpEmit(r) \/ B!PipeEmit(r)
    /\ Emit("request", r)
    /\ UNCHANGED <<uiVars, callVars, activity>>

\* Only the HTTP handler tells the overlay that its session runs again.
Decided(r) ==
    /\ B!DecisionArrives(r)
    /\ IF Via[r] = "http" THEN Emit("state_change", SessionOf[r]) ELSE UNCHANGED events
    /\ UNCHANGED <<uiVars, callVars, activity>>

\* Another hook of a session, from a parallel tool call or a subagent.  Those of
\* PostToolUse, Stop, StopFailure and PermissionDenied begin with what the
\* overlay takes as a change of state; those of PreToolUse, UserPromptSubmit and
\* PostToolUseFailure begin with an event that moves the session quietly.
OtherHook(s) ==
    /\ activity < MaxActivity
    /\ activity' = activity + 1
    /\ \E type \in {"state_change", "quiet"} : Emit(type, s)
    /\ UNCHANGED <<brokerVars, uiVars, callVars>>

\* Mutant: the command answers the card that is current when it executes.
ExecuteOnCurrent(r, d) ==
    \E c \in Current :
       /\ <<r, d>> \in sent
       /\ sent' = sent \ {<<r, d>>}
       /\ B!SubmitOutcome(KeyOf[c]) = "ok"
       /\ B!Submit(KeyOf[c], d)
       /\ accepted' = accepted \cup {<<r, d>>}
       /\ UNCHANGED <<uiVars, events, activity>>

\* submit_approval_response runs.  An error only makes the card clickable again.
Execute(r, d) ==
    LET outcome == B!SubmitOutcome(KeyOf[r]) IN
    /\ <<r, d>> \in sent
    /\ sent' = sent \ {<<r, d>>}
    /\ IF outcome = "missing" THEN UNCHANGED brokerVars ELSE B!Submit(KeyOf[r], d)
    /\ accepted' = IF outcome = "ok" THEN accepted \cup {<<r, d>>} ELSE accepted
    /\ UNCHANGED <<uiVars, events, activity>>
-----------------------------------------------------------------------------
(* The overlay.                                                              *)

HandleRequest(r) ==
    /\ uiWaiting' = uiWaiting \cup {SessionOf[r]}
    /\ AddPendingApproval(r)

HandleStateChange(s) ==
    /\ uiWaiting' = uiWaiting \ {s}
    /\ IF s \in uiWaiting THEN RemoveApprovalsBySessionId(s)
                          ELSE UNCHANGED <<cards, idx, collapsed>>
    /\ UNCHANGED minimized

HandleQuiet(s) ==
    /\ uiWaiting' = uiWaiting \ {s}
    /\ UNCHANGED queueVars

HandleEvent ==
    /\ events # <<>>
    /\ LET e == Head(events) IN
          \/ e.type = "request"      /\ HandleRequest(e.of)
          \/ e.type = "state_change" /\ HandleStateChange(e.of)
          \/ e.type = "quiet"        /\ HandleQuiet(e.of)
    /\ events' = Tail(events)
    /\ UNCHANGED <<brokerVars, callVars, activity>>

\* handleApprove, handleReject.  A panel that was closed and opened again takes a
\* second click while the first is under way.
Click(r, d) ==
    /\ Shown(r)
    /\ <<r, d>> \notin sent \cup accepted
    /\ Cardinality(sent) + Cardinality(accepted) < MaxCalls
    /\ sent' = sent \cup {<<r, d>>}
    /\ UNCHANGED <<brokerVars, uiVars, accepted, events, activity>>

\* handleApprovalHandled, when the command's Ok is back.
Handled(r, d) ==
    /\ <<r, d>> \in accepted
    /\ accepted' = accepted \ {<<r, d>>}
    /\ RemoveCurrentApproval
    /\ UNCHANGED <<brokerVars, minimized, uiWaiting, sent, events, activity>>

\* useApprovalTimeout: the panel's own timer takes its card away, and tells the
\* backend nothing.
Expire(r) ==
    /\ Shown(r)
    /\ RemoveApprovalByToolUseId(KeyOf[r])
    /\ UNCHANGED <<brokerVars, minimized, uiWaiting, callVars, events, activity>>

Look ==
    /\ UserLooks
    /\ UNCHANGED <<brokerVars, uiWaiting, callVars, events, activity>>
-----------------------------------------------------------------------------
Next ==
    \/ \E r \in Requests :
          \/ Silent(r) \/ Announce(r) \/ Decided(r) \/ Expire(r)
          \/ \E d \in B!Decisions : Click(r, d) \/ Execute(r, d) \/ Handled(r, d)
    \/ \E s \in Sessions : OtherHook(s)
    \/ HandleEvent
    \/ Look

Spec == Init /\ [][Next]_vars

\* The event loops run; the timer of whatever card is shown is due in the end.
FairSpec ==
    /\ Spec
    /\ WF_vars(HandleEvent)
    /\ WF_vars(\E r \in Requests : Expire(r))
-----------------------------------------------------------------------------
(* Properties.                                                               *)

\* The overlay never has cards and none to show, nor two cards with one id,
\* however removals by index, by id and by session interleave.
QueueWellFormed ==
    /\ cards # <<>> => Current # {}
    /\ \A i, j \in 1..Len(cards) : KeyOf[cards[i]] = KeyOf[cards[j]] => i = j

\* A request is decided only as the user clicked on its own card, with what that
\* card showed.  Hazard: cards and commands go by an id, and outcomes come back
\* to a queue that has changed.
AnsweredAsClicked ==
    [][\A r \in Requests, d \in B!Decisions :
          chan[r] # d /\ chan'[r] = d => <<r, d>> \in sent]_vars

\* A card whose request is settled, or never will be, does not stay for ever
\* unless the user keeps it hidden.
CardsLeave ==
    \A r \in Requests :
       r \in ToSet(cards) ~> r \notin ToSet(cards) \/ minimized \/ collapsed

\* approval-panel-spec.md: a session may have several approvals at once, and they
\* are matched exactly, by tool_use_id.  The card of a request that is still open
\* should leave only when its own time is up.
CardsKept ==
    [][\A r \in Requests :
          r \in ToSet(cards) /\ r \notin ToSet(cards)'
             => chan[r] # "open" \/ client[r] # "waiting" \/ Expire(r)]_vars
=============================================================================
