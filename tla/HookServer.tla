----------------------------- MODULE HookServer -----------------------------
(***************************************************************************)
(* The life of the HTTP hook server (hook_server.rs) and its error log.  A *)
(* server is a thread that binds the port and serves with the state it was *)
(* given; to stop it is to clear that state's flag and to forget it.  The  *)
(* listener does not look at the flag.                                     *)
(***************************************************************************)
EXTENDS Naturals, Sequences, FiniteSets

CONSTANTS MaxStarts,    \* bound: servers started
          MaxFailures,  \* bound: PostToolUseFailure hooks
          LogLimits     \* the values max_error_logs is configured to

ASSUME HookServerAssumption ==
    MaxStarts \in Nat \ {0} /\ MaxFailures \in Nat /\ LogLimits \subseteq Nat /\ LogLimits # {}

VARIABLES
    servers,   \* the servers started, in order, with their state
    slot,      \* HOOK_SERVER_STATE: the number of a server, or 0
    limit,     \* max_error_logs
    clearing,  \* clear_hook_errors is between its two steps
    failures   \* PostToolUseFailure hooks so far

hookServerVars == <<servers, slot, limit, clearing, failures>>

HookServerTypeOK ==
    /\ servers \in Seq([running : BOOLEAN, at : {"bind", "serving", "failed"},
                        errors : Nat, log : Nat, adding : Nat, raced : Nat, high : LogLimits])
    /\ slot \in 0..Len(servers) /\ Len(servers) <= MaxStarts
    /\ limit \in LogLimits
    /\ clearing \in BOOLEAN /\ (clearing => slot # 0)
    /\ failures \in 0..MaxFailures

HookServerInit ==
    /\ servers = <<>> /\ slot = 0
    /\ limit \in LogLimits
    /\ clearing = FALSE /\ failures = 0

Serving == {i \in DOMAIN servers : servers[i].at = "serving"}
-----------------------------------------------------------------------------
(* start_hook_server, stop_hook_server.  clear_hook_errors holds the lock on *)
(* HOOK_SERVER_STATE, which both take first.                                 *)

\* History: of the errors logged and being added, raced were counted before the count
\* was reset; high is the highest limit since the log was last empty.
NewServer == [running |-> TRUE, at |-> "bind", errors |-> 0, log |-> 0,
              adding |-> 0, raced |-> 0, high |-> limit]

StartHookServer ==
    /\ ~clearing
    /\ slot # 0 => ~servers[slot].running
    /\ Len(servers) < MaxStarts
    /\ servers' = Append(servers, NewServer)
    /\ slot' = Len(servers) + 1
    /\ UNCHANGED <<limit, clearing, failures>>

StopHookServer ==
    /\ ~clearing
    /\ slot # 0
    /\ servers' = [servers EXCEPT ![slot].running = FALSE]
    /\ slot' = 0
    /\ UNCHANGED <<limit, clearing, failures>>

\* Mutant: a server that cannot bind is taken for one that can.
BindAnyway(i) ==
    /\ servers[i].at = "bind"
    /\ servers' = [servers EXCEPT ![i].at = "serving"]
    /\ UNCHANGED <<slot, limit, clearing, failures>>

\* run_hook_server: the port is taken while any server of this process listens; the
\* thread of one that cannot bind ends, and its flag stays set.
Bind(i) ==
    /\ servers[i].at = "bind"
    /\ servers' = [servers EXCEPT ![i].at = IF Serving = {} THEN "serving" ELSE "failed"]
    /\ UNCHANGED <<slot, limit, clearing, failures>>
-----------------------------------------------------------------------------
(* handle_post_tool_use_failure ends with add_error_log, which counts first  *)
(* and then takes the log's own lock.  It works on the state of the server   *)
(* that serves, stopped or not.                                              *)

CountError(i) ==
    /\ servers[i].at = "serving"
    /\ failures < MaxFailures
    /\ servers' = [servers EXCEPT ![i].errors = @ + 1, ![i].adding = @ + 1]
    /\ failures' = failures + 1
    /\ UNCHANGED <<slot, limit, clearing>>

\* Mutant: nothing is ever taken out of the log.
PushOnly(n) == n + 1
\* push_front, and at most one pop_back.
Push(n) == IF n + 1 > limit THEN n ELSE n + 1

LogError(i) ==
    /\ servers[i].adding > 0
    /\ servers' = [servers EXCEPT ![i].adding = @ - 1, ![i].log = Push(@)]
    /\ UNCHANGED <<slot, limit, clearing, failures>>

Fewest(a, b) == IF a < b THEN a ELSE b

ClearLog ==
    /\ slot # 0 /\ ~clearing
    /\ clearing' = TRUE
    /\ servers' = [servers EXCEPT ![slot].log = 0, ![slot].high = limit,
                                  ![slot].raced = Fewest(@, servers[slot].adding)]
    /\ UNCHANGED <<slot, limit, failures>>

ResetCount ==
    /\ clearing
    /\ clearing' = FALSE
    /\ servers' = [servers EXCEPT ![slot].errors = 0,
                                  ![slot].raced = servers[slot].adding + servers[slot].log]
    /\ UNCHANGED <<slot, limit, failures>>

Reconfigure ==
    /\ \E n \in LogLimits \ {limit} :
          /\ limit' = n
          /\ servers' = [i \in DOMAIN servers |->
                            [servers[i] EXCEPT !.high = IF n > @ THEN n ELSE @]]
    /\ UNCHANGED <<slot, clearing, failures>>

\* get_hook_server_status, get_hook_health, get_hook_errors: what the slot's state says.
Health ==
    IF slot = 0 THEN [connected |-> FALSE, errors |-> 0, log |-> 0]
    ELSE [connected |-> servers[slot].running, errors |-> servers[slot].errors,
          log |-> servers[slot].log]
-----------------------------------------------------------------------------
HookServerNext ==
    \/ StartHookServer \/ StopHookServer
    \/ \E i \in DOMAIN servers : Bind(i) \/ CountError(i) \/ LogError(i)
    \/ ClearLog \/ ResetCount \/ Reconfigure
-----------------------------------------------------------------------------
(* Properties.                                                               *)

\* Status, health and errors are those of the server that listens, until it is
\* stopped: then what serves is not reported, and whatever is started next is
\* reported as connected and never serves.
HealthOfTheListener ==
    \A i \in Serving :
       /\ servers[i].running => Health.connected /\ Health.errors = servers[i].errors
       /\ ~servers[i].running => Serving = {i} /\ slot # i

\* What is logged, or about to be, is counted, but for what a reset of the count met
\* there: the count falls short by no more than that, and the next clearing of the log
\* makes up for all of it that is logged.  And the log exceeds the limit only if that
\* was lowered since the log was cleared: it is no longer than the highest since.
ErrorsAccountedFor ==
    \A i \in DOMAIN servers :
       /\ servers[i].log + servers[i].adding <= servers[i].errors + servers[i].raced
       /\ servers[i].log <= servers[i].high
=============================================================================
