----------------------------- MODULE PipeServer -----------------------------
(***************************************************************************)
(* The life of the named pipe server (pipe_server.rs) and the hooks that   *)
(* the CLI brings to it (bin/vibe-island-hooks.rs).  A server is a thread  *)
(* with its own runtime.  Its loop has one free instance of the pipe at    *)
(* most: it creates one, waits for a client, hands both to a task, pauses, *)
(* and creates the next.  When the loop ends its runtime goes, and with it *)
(* the tasks of the clients it still has.                                  *)
(***************************************************************************)
EXTENDS Naturals, Sequences, FiniteSets

CONSTANTS Clients,     \* hooks brought by the CLI, a process each
          Blocking,    \* those that wait for the user's decision
          MaxServers   \* bound: servers started

ASSUME PipeAssumption == Blocking \subseteq Clients /\ MaxServers \in Nat \ {0}

VARIABLES
    pipes,     \* the servers started, in order
    pipeSlot,  \* PIPE_STATE: the number of a server, or 0
    client     \* of each client: how far it got, and with which server

pipeVars == <<pipes, pipeSlot, client>>

\* "lost": the CLI found no free instance and gave up.  "dropped": its connection
\* was closed on it.  Either way it tells its agent to go on.
Stages == {"new", "connected", "reading", "waiting", "done", "lost", "turnedAway", "dropped"}

PipeTypeOK ==
    /\ pipes \in Seq([running : BOOLEAN, at : {"create", "listen", "accepted", "pause", "over"}])
    /\ pipeSlot \in 0..Len(pipes) /\ Len(pipes) <= MaxServers
    /\ client \in [Clients -> [stage : Stages, of : 0..MaxServers]]

PipeInit ==
    /\ pipes = <<>> /\ pipeSlot = 0
    /\ client = [c \in Clients |-> [stage |-> "new", of |-> 0]]

Held(i) == {c \in Clients : client[c].of = i /\ client[c].stage \in {"connected", "reading", "waiting"}}
Listening == {i \in DOMAIN pipes : pipes[i].at = "listen"}

Moved(c, stage) == client' = [client EXCEPT ![c].stage = stage]
LoopAt(i, at) == pipes' = [pipes EXCEPT ![i].at = at]
-----------------------------------------------------------------------------
(* Commands.                                                                 *)

StartPipe ==
    /\ pipeSlot # 0 => ~pipes[pipeSlot].running
    /\ Len(pipes) < MaxServers
    /\ pipes' = Append(pipes, [running |-> TRUE, at |-> "create"])
    /\ pipeSlot' = Len(pipes) + 1
    /\ UNCHANGED client

StopPipe ==
    /\ pipeSlot # 0 /\ pipes[pipeSlot].running
    /\ pipes' = [pipes EXCEPT ![pipeSlot].running = FALSE]
    /\ pipeSlot' = 0
    /\ UNCHANGED client
-----------------------------------------------------------------------------
(* The loop of server i.                                                     *)

\* The end of the loop takes the runtime along.
LoopEnds(i, turnedAway) ==
    /\ LoopAt(i, "over")
    /\ client' = [c \in Clients |->
          IF c \notin Held(i) THEN client[c]
          ELSE [client[c] EXCEPT !.stage = IF c \in turnedAway THEN "turnedAway" ELSE "dropped"]]

Create(i) ==
    /\ pipes[i].at = "create"
    /\ \/ pipes[i].running /\ LoopAt(i, "listen") /\ UNCHANGED client
       \/ ~pipes[i].running /\ LoopEnds(i, {})
    /\ UNCHANGED pipeSlot

Caller(i) == {c \in Held(i) : client[c].stage = "connected"}

\* Mutant: a stopped server disconnects the client and goes on.
AcceptAnyway(i) ==
    /\ pipes[i].at = "accepted"
    /\ LoopAt(i, IF pipes[i].running THEN "pause" ELSE "listen")
    /\ \E c \in Caller(i) : Moved(c, IF pipes[i].running THEN "reading" ELSE "turnedAway")
    /\ UNCHANGED pipeSlot

\* A client has connected: the flag is looked at a second time.
Accept(i) ==
    /\ pipes[i].at = "accepted"
    /\ \/ /\ pipes[i].running /\ LoopAt(i, "pause")
          /\ \E c \in Caller(i) : Moved(c, "reading")
       \/ ~pipes[i].running /\ LoopEnds(i, Caller(i))
    /\ UNCHANGED pipeSlot

\* Mutant: an error of connect ends the loop, as one of run_hook_server does.
ConnectFailsForGood(i) ==
    /\ pipes[i].at = "accepted"
    /\ LoopEnds(i, {})
    /\ UNCHANGED pipeSlot

\* connect returns an error: the instance goes, and the loop goes on.
ConnectFails(i) ==
    /\ pipes[i].at = "accepted"
    /\ LoopAt(i, "create")
    /\ \E c \in Caller(i) : Moved(c, "dropped")
    /\ UNCHANGED pipeSlot

\* Mutant: the connection is handled in the loop, not in a task of its own.
PauseUntilDone(i) ==
    /\ pipes[i].at = "pause" /\ Held(i) = {}
    /\ LoopAt(i, "create")
    /\ UNCHANGED <<pipeSlot, client>>

Pause(i) ==
    /\ pipes[i].at = "pause"
    /\ LoopAt(i, "create")
    /\ UNCHANGED <<pipeSlot, client>>
-----------------------------------------------------------------------------
(* Clients and their tasks.                                                  *)

\* ClientOptions::open takes any free instance, a stopped server's included.
Open(c) ==
    /\ client[c].stage = "new"
    /\ \E i \in Listening :
          /\ LoopAt(i, "accepted")
          /\ client' = [client EXCEPT ![c] = [stage |-> "connected", of |-> i]]
    /\ UNCHANGED pipeSlot

\* No instance is free.  If there is none at all the CLI gives up at once; while
\* all are taken it asks again for 500 ms, fifty pauses of a running server.
GiveUp(c) ==
    /\ client[c].stage = "new"
    /\ Listening = {}
    /\ (\E i \in DOMAIN pipes : Held(i) # {}) => pipeSlot = 0
    /\ Moved(c, "lost")
    /\ UNCHANGED <<pipes, pipeSlot>>

\* handle_connection looks at the flag before it reads the one message.
Read(c) ==
    /\ client[c].stage = "reading"
    /\ Moved(c, IF ~pipes[client[c].of].running THEN "dropped"
                ELSE IF c \in Blocking THEN "waiting" ELSE "done")
    /\ UNCHANGED <<pipes, pipeSlot>>

\* The user decides or the time is up: a stopped server's tasks still answer.
AnswerClient(c) ==
    /\ client[c].stage = "waiting"
    /\ Moved(c, "done")
    /\ UNCHANGED <<pipes, pipeSlot>>
-----------------------------------------------------------------------------
LoopTurn(i) == i \in DOMAIN pipes /\ (Create(i) \/ Accept(i) \/ ConnectFails(i) \/ Pause(i))

PipeNext ==
    \/ StartPipe \/ StopPipe
    \/ \E i \in DOMAIN pipes : Create(i) \/ Accept(i) \/ ConnectFails(i) \/ Pause(i)
    \/ \E c \in Clients : Open(c) \/ GiveUp(c) \/ Read(c) \/ AnswerClient(c)

\* The threads run, and the pause is over some time.
PipeFairness == \A i \in 1..MaxServers : WF_pipeVars(LoopTurn(i))
-----------------------------------------------------------------------------
(* Properties.                                                               *)

\* Nobody who waits for a decision loses the connection to a server that was not
\* stopped, whatever else connects, fails or ends meanwhile.
WaitersKeepTheirServer ==
    [][\A c \in Clients :
          client[c].stage = "waiting" /\ client'[c].stage # "waiting"
             => client'[c].stage = "done" \/ ~pipes[client[c].of].running]_pipeVars

\* What a stop can cost the hooks of the server started after it: the stopped one's
\* free instance is there until a client takes it, and that client is turned away,
\* but it is one client for each stop.
OneTurnedAwayPerStop ==
    \A i \in DOMAIN pipes :
       Cardinality({c \in Clients : client[c] = [stage |-> "turnedAway", of |-> i]}) <= 1

\* Liveness: a server that is not stopped has a free instance again and again.
ListensAgain ==
    \A i \in 1..MaxServers : []<>(pipeSlot = i => pipes[i].at \in {"listen", "accepted"})
=============================================================================
