--------------------------- MODULE ApprovalBroker ---------------------------
(***************************************************************************)
(* The backend half of the approval flow: the process-wide map             *)
(* PENDING_APPROVALS from tool_use_id to the sender of a oneshot channel,  *)
(* the HTTP handlers and pipe connections that wait on the receivers, the  *)
(* command submit_approval_response that answers them, and the agents that *)
(* block on the other side.                                                *)
(*                                                                         *)
(* A request is one PermissionRequest hook invocation.  Its tool_use_id    *)
(* need not be its own: an invocation without one gets "unknown" on the    *)
(* pipe and "auto-<seconds>" over HTTP, so KeyOf may not be injective.     *)
(***************************************************************************)

CONSTANTS Requests,   \* PermissionRequest invocations
          Keys,       \* tool_use_ids
          KeyOf,      \* the tool_use_id a request is stored under
          Via,        \* "http" or "pipe"
          None        \* no entry

ASSUME BrokerAssumption ==
    /\ KeyOf \in [Requests -> Keys]
    /\ Via \in [Requests -> {"http", "pipe"}]
    /\ None \notin Requests

VARIABLES
    up,         \* the app process runs
    announced,  \* tool_use_ids emitted to the overlay in permission_request
    pending,    \* PENDING_APPROVALS: the request whose sender is stored
    chan,       \* the oneshot channel of a request, seen from the sender
    pc,         \* the handler of a request, which owns the receiver
    client      \* the agent's side: what it waits for or was answered

vars == <<up, announced, pending, chan, pc, client>>

Decisions == {"allow", "deny"}

(* chan:   none -> open -> a decision | closed (sender dropped, or the send  *)
(*         failed because the receiver was gone)                             *)
(* pc:     idle -> stored (HTTP, before the emits) | emitted (pipe, before   *)
(*         the insert) -> waiting -> done | dropped | timedOut (pipe) -> done *)
(* client: none -> waiting -> a decision | gone                              *)
TypeOK ==
    /\ up \in BOOLEAN
    /\ announced \subseteq Keys
    /\ pending \in [Keys -> Requests \cup {None}]
    /\ chan \in [Requests -> Decisions \cup {"none", "open", "closed"}]
    /\ pc \in [Requests -> {"idle", "stored", "emitted", "waiting", "timedOut", "done", "dropped"}]
    /\ client \in [Requests -> Decisions \cup {"none", "waiting", "gone"}]

Init ==
    /\ up = TRUE
    /\ announced = {}
    /\ pending = [k \in Keys |-> None]
    /\ chan = [r \in Requests |-> "none"]
    /\ pc = [r \in Requests |-> "idle"]
    /\ client = [r \in Requests |-> "none"]
-----------------------------------------------------------------------------
(* Storing a sender.  HashMap::insert drops the sender it replaces, which    *)
(* closes the channel of the request that was stored under the same id.      *)

\* Mutant: the replaced sender is kept alive.
StoreKeepsOldSender(r) ==
    /\ pending' = [pending EXCEPT ![KeyOf[r]] = r]
    /\ chan' = [chan EXCEPT ![r] = "open"]

Store(r) ==
    LET k == KeyOf[r] IN
    /\ pending' = [pending EXCEPT ![k] = r]
    /\ chan' = [q \in Requests |->
                   IF q = r THEN "open"
                   ELSE IF q = pending[k] THEN "closed" ELSE chan[q]]

\* handle_permission_request up to the end of the scope that holds the lock.
HttpStore(r) ==
    /\ up
    /\ Via[r] = "http"
    /\ pc[r] = "idle" /\ client[r] = "none"
    /\ Store(r)
    /\ pc' = [pc EXCEPT ![r] = "stored"]
    /\ client' = [client EXCEPT ![r] = "waiting"]
    /\ UNCHANGED <<up, announced>>

\* ... and its emits, after which it awaits the receiver without a time limit.
HttpEmit(r) ==
    /\ pc[r] = "stored"
    /\ pc' = [pc EXCEPT ![r] = "waiting"]
    /\ announced' = announced \cup {KeyOf[r]}
    /\ UNCHANGED <<up, pending, chan, client>>

\* handle_hook_event on the pipe emits first ...
PipeEmit(r) ==
    /\ up
    /\ Via[r] = "pipe"
    /\ pc[r] = "idle" /\ client[r] = "none"
    /\ pc' = [pc EXCEPT ![r] = "emitted"]
    /\ client' = [client EXCEPT ![r] = "waiting"]
    /\ announced' = announced \cup {KeyOf[r]}
    /\ UNCHANGED <<up, pending, chan>>

\* ... and registers after: a decision that is submitted in between is refused.
PipeStore(r) ==
    /\ pc[r] = "emitted"
    /\ Store(r)
    /\ pc' = [pc EXCEPT ![r] = "waiting"]
    /\ UNCHANGED <<up, announced, client>>
-----------------------------------------------------------------------------
(* The user's decision.                                                      *)

ReceiverAlive(r) == pc[r] \in {"stored", "waiting", "timedOut"}

SubmitOutcome(k) ==
    IF pending[k] = None THEN "missing"
    ELSE IF ReceiverAlive(pending[k]) THEN "ok" ELSE "send_failed"

\* Mutant: a denial drops the sender instead of sending.
SubmitDropsDenial(k, d) ==
    LET r == pending[k] IN
    /\ up
    /\ k \in announced
    /\ r # None
    /\ pending' = [pending EXCEPT ![k] = None]
    /\ chan' = [chan EXCEPT ![r] = IF ReceiverAlive(r) /\ d = "allow" THEN d ELSE "closed"]
    /\ UNCHANGED <<up, announced, pc, client>>

\* submit_approval_response (and handle_test_approve, with "allow"): the entry
\* is removed under the lock whether or not the send succeeds.
Submit(k, d) ==
    LET r == pending[k] IN
    /\ up
    /\ k \in announced
    /\ r # None
    /\ pending' = [pending EXCEPT ![k] = None]
    /\ chan' = [chan EXCEPT ![r] = IF ReceiverAlive(r) THEN d ELSE "closed"]
    /\ UNCHANGED <<up, announced, pc, client>>
-----------------------------------------------------------------------------
(* The handler resumes.                                                      *)

\* An answer that cannot be delivered is a write error on the pipe, and nothing
\* at all over HTTP.
Reply(r, d) ==
    /\ pc' = [pc EXCEPT ![r] = "done"]
    /\ client' = [client EXCEPT ![r] = IF @ = "waiting" THEN d ELSE @]
    /\ UNCHANGED <<up, announced, pending, chan>>

DecisionArrives(r) ==
    /\ pc[r] = "waiting"
    /\ chan[r] \in Decisions
    /\ Reply(r, chan[r])

\* Mutants: both transports fail open, or both closed.
FallbackAlwaysAllows(r) == "allow"
FallbackAlwaysDenies(r) == "deny"

\* The sender was dropped: the HTTP handler denies, the pipe fails open.
FallbackAnswer(r) == IF Via[r] = "pipe" THEN "allow" ELSE "deny"

SenderDropped(r) ==
    /\ pc[r] = "waiting"
    /\ chan[r] = "closed"
    /\ Reply(r, FallbackAnswer(r))

\* Mutant: the pipe waits without a limit, as the HTTP handler does.
PipeTimerIgnored(r) ==
    /\ Via[r] = "pipe"
    /\ pc[r] = "waiting"
    /\ chan[r] = "closed"
    /\ pc' = [pc EXCEPT ![r] = "timedOut"]
    /\ UNCHANGED <<up, announced, pending, chan, client>>

\* Only the pipe has a time limit (290 s).  tokio::time::timeout polls the
\* receiver, finds nothing, and then finds its timer elapsed.
PipeTimerFires(r) ==
    /\ Via[r] = "pipe"
    /\ pc[r] = "waiting"
    /\ chan[r] = "open"
    /\ pc' = [pc EXCEPT ![r] = "timedOut"]
    /\ UNCHANGED <<up, announced, pending, chan, client>>

\* Mutant: the timed-out handler answers with what the channel holds.
PipeTimeoutUnanswered(r) ==
    /\ Via[r] = "pipe"
    /\ pc[r] = "timedOut"
    /\ Reply(r, chan[r])

\* Until it returns from that poll and drops the receiver another thread can
\* still send: that verdict is acknowledged and never read.  The entry stays.
PipeTimeout(r) ==
    /\ Via[r] = "pipe"
    /\ pc[r] = "timedOut"
    /\ Reply(r, FallbackAnswer(r))
-----------------------------------------------------------------------------
(* Agents that leave, and the app's own life.                                *)

\* The agent or its hook process is killed, or its own time limit passes.
ClientLeaves(r) ==
    /\ client[r] = "waiting"
    /\ client' = [client EXCEPT ![r] = "gone"]
    /\ UNCHANGED <<up, announced, pending, chan, pc>>

\* The HTTP server drops the handler of a closed connection at its await: the
\* receiver goes, the entry stays in the map.
HttpDrop(r) ==
    /\ Via[r] = "http"
    /\ pc[r] = "waiting"
    /\ client[r] = "gone"
    /\ pc' = [pc EXCEPT ![r] = "dropped"]
    /\ UNCHANGED <<up, announced, pending, chan, client>>

\* A hook that runs while the app is down is not answered: the CLI fails to
\* connect and lets the agent continue, an HTTP hook is refused.
Refused(r) ==
    /\ ~up
    /\ pc[r] = "idle" /\ client[r] = "none"
    /\ client' = [client EXCEPT ![r] = "gone"]
    /\ UNCHANGED <<up, announced, pending, chan, pc>>

\* Nothing of this is persisted: the process takes map, channels and handlers
\* with it, and every blocked agent sees its connection close.
AppExit ==
    /\ up
    /\ up' = FALSE
    /\ announced' = {}
    /\ pending' = [k \in Keys |-> None]
    /\ chan' = [r \in Requests |-> IF chan[r] = "open" THEN "closed" ELSE chan[r]]
    /\ pc' = [r \in Requests |->
                 IF pc[r] \in {"stored", "emitted", "waiting", "timedOut"}
                 THEN "dropped" ELSE pc[r]]
    /\ client' = [r \in Requests |-> IF client[r] = "waiting" THEN "gone" ELSE client[r]]

AppStart ==
    /\ ~up
    /\ up' = TRUE
    /\ UNCHANGED <<announced, pending, chan, pc, client>>
-----------------------------------------------------------------------------
Handler(r) ==
    \/ HttpEmit(r) \/ PipeStore(r) \/ DecisionArrives(r) \/ SenderDropped(r)
    \/ PipeTimerFires(r) \/ PipeTimeout(r)

Next ==
    \/ \E r \in Requests :
          \/ HttpStore(r) \/ PipeEmit(r) \/ Refused(r)
          \/ HttpEmit(r) \/ PipeStore(r)
          \/ DecisionArrives(r) \/ SenderDropped(r)
          \/ PipeTimerFires(r) \/ PipeTimeout(r)
          \/ ClientLeaves(r) \/ HttpDrop(r)
    \/ \E k \in Keys, d \in Decisions : Submit(k, d)
    \/ AppExit
    \/ AppStart

Spec == Init /\ [][Next]_vars

\* The runtime polls tasks that are ready and fires timers that are due.  The
\* user, the agents and the app's own life owe nothing.
FairSpec == Spec /\ \A r \in Requests : WF_vars(Handler(r))
-----------------------------------------------------------------------------
(* Properties.                                                               *)

\* A sender is in the map exactly while its channel is open: no handler waits
\* on a sender that submit_approval_response cannot find, and no entry is a
\* sender already used.  Hazard: HashMap::insert under a reused tool_use_id.
ChannelOwnership == \A r \in Requests : chan[r] = "open" <=> pending[KeyOf[r]] = r

\* Once submit_approval_response returned Ok for a request, its agent gets that
\* decision or none, whatever later requests with the same id and second
\* submissions do.  The one exception is a denial that meets the pipe's timer.
VerdictHonoured ==
    \A r \in Requests :
       chan[r] \in Decisions =>
          \/ client[r] \in {"waiting", "gone", chan[r]}
          \/ Via[r] = "pipe" /\ client[r] = "allow"

\* A handler loses its sender while it waits only to another request that was
\* stored under the same tool_use_id.  With an id of its own, an HTTP request is
\* denied by the user or not at all.
SenderDroppedOnlyByReuse ==
    \A r \in Requests :
       pc[r] = "waiting" /\ chan[r] = "closed" =>
          \E q \in Requests \ {r} : KeyOf[q] = KeyOf[r] /\ pc[q] # "idle"

\* The broker implements the contract: what the agent sees and what the user was
\* acknowledged take only the contract's steps.
StatusOf == [none |-> "new", waiting |-> "open", gone |-> "lost",
             allow |-> "allow", deny |-> "deny"]
ContractStatus ==
    [r \in Requests |-> IF client[r] = "waiting" /\ pc[r] = "timedOut" THEN "closing"
                        ELSE StatusOf[client[r]]]
ContractVerdict == [r \in Requests |-> IF chan[r] \in Decisions THEN chan[r] ELSE "none"]

Contract == INSTANCE ApprovalContract WITH status <- ContractStatus,
                                           verdict <- ContractVerdict
ImplementsContract == Contract!Spec

\* A pipe request stops blocking its agent even if the user never acts.
PipeAnswered ==
    \A r \in Requests :
       Via[r] = "pipe" /\ client[r] = "waiting" ~> client[r] # "waiting"
=============================================================================
