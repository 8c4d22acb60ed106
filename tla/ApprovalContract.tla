-------------------------- MODULE ApprovalContract --------------------------
(***************************************************************************)
(* What Vibe Island promises an agent that blocks on a permission request, *)
(* without saying how: every request gets at most one answer, an           *)
(* verdict acknowledged before the pipe gave up is the only answer it can  *)
(* get, and a request that nobody decides fails closed over HTTP and open  *)
(* over the named pipe (hook_server.rs, pipe_server.rs).  ApprovalBroker   *)
(* implements it.                                                          *)
(***************************************************************************)

CONSTANTS Requests,   \* blocking permission requests, each one hook invocation
          Via         \* the transport of a request: "http" or "pipe"

VARIABLES status,     \* request -> how far its agent got
          verdict     \* request -> the verdict acknowledged to the user

vars == <<status, verdict>>

Decisions == {"allow", "deny"}

TypeOK ==
    /\ status \in [Requests -> Decisions \cup {"new", "open", "closing", "lost"}]
    /\ verdict \in [Requests -> Decisions \cup {"none"}]

Init ==
    /\ status = [r \in Requests |-> "new"]
    /\ verdict = [r \in Requests |-> "none"]

Ask(r) ==
    /\ status[r] = "new"
    /\ status' = [status EXCEPT ![r] = "open"]
    /\ UNCHANGED verdict

\* The user's verdict is accepted once.  The agent may already be lost, or the
\* handler be giving up: nobody knows before the handler answers.
Decide(r, d) ==
    /\ status[r] \in {"open", "closing", "lost"}
    /\ verdict[r] = "none"
    /\ verdict' = [verdict EXCEPT ![r] = d]
    /\ UNCHANGED status

Answer(r) ==
    /\ status[r] = "open"
    /\ verdict[r] \in Decisions
    /\ status' = [status EXCEPT ![r] = verdict[r]]
    /\ UNCHANGED verdict

FallbackAnswer(r) == IF Via[r] = "pipe" THEN "allow" ELSE "deny"

\* An undecided request on the pipe runs out of time.
GiveUp(r) ==
    /\ Via[r] = "pipe"
    /\ status[r] = "open"
    /\ verdict[r] = "none"
    /\ status' = [status EXCEPT ![r] = "closing"]
    /\ UNCHANGED verdict

FallBack(r) ==
    /\ \/ status[r] = "closing"
       \/ status[r] = "open" /\ verdict[r] = "none"
    /\ status' = [status EXCEPT ![r] = FallbackAnswer(r)]
    /\ UNCHANGED verdict

\* Agents stop listening: one that is killed, or all of them when the app exits.
Abandon(S) ==
    /\ \A r \in S : status[r] \in {"new", "open", "closing"}
    /\ status' = [r \in Requests |-> IF r \in S THEN "lost" ELSE status[r]]
    /\ UNCHANGED verdict

Next ==
    \/ \E r \in Requests :
          \/ Ask(r) \/ Answer(r) \/ GiveUp(r) \/ FallBack(r)
          \/ \E d \in Decisions : Decide(r, d)
    \/ \E S \in SUBSET Requests : Abandon(S)

Spec == Init /\ [][Next]_vars
=============================================================================
