---------------------------- MODULE ServicesProofs ----------------------------
(* Theorems about the background services, for any processes, clients and      *)
(* limits, and however often each service is stopped and started.              *)
EXTENDS Services, TLAPS, FiniteSetTheorems, SequenceTheorems
-----------------------------------------------------------------------------
(* A sequence with one element replaced.                                     *)

LEMMA ReplaceElement ==
    ASSUME NEW S, NEW q \in Seq(S), NEW i \in DOMAIN q, NEW e \in S, NEW u,
           u = [q EXCEPT ![i] = e]
    PROVE  /\ u \in Seq(S) /\ Len(u) = Len(q) /\ DOMAIN u = DOMAIN q
           /\ u[i] = e /\ \A j \in DOMAIN q \ {i} : u[j] = q[j]
<1>1. DOMAIN q = 1..Len(q)
  BY LenProperties
<1>2. u \in Seq(S) /\ Len(u) = Len(q) /\ \A j \in 1..Len(q) : u[j] = IF j = i THEN e ELSE q[j]
  BY <1>1, ExceptSeq
<1> QED
  BY <1>1, <1>2
-----------------------------------------------------------------------------
(* The named pipe.                                                           *)

PipeStates == [running : BOOLEAN, at : {"create", "listen", "accepted", "pause", "over"}]

\* A client that has connected is the only one, and its server is about to look
\* at it.
CallersAlone ==
    /\ \A c \in Clients : client[c].stage = "connected" =>
          client[c].of \in DOMAIN pipes /\ pipes[client[c].of].at = "accepted"
    /\ \A c, d \in Clients :
          client[c].stage = "connected" /\ client[d].stage = "connected" /\ client[c].of = client[d].of
             => c = d

\* Whoever was turned away is alone with a server that is over.
TurnedAwayAlone ==
    /\ \A c \in Clients : client[c].stage = "turnedAway" =>
          client[c].of \in DOMAIN pipes /\ pipes[client[c].of].at = "over"
    /\ \A c, d \in Clients :
          client[c].stage = "turnedAway" /\ client[d].stage = "turnedAway" /\ client[c].of = client[d].of
             => c = d

PipeInv == PipeTypeOK /\ CallersAlone /\ TurnedAwayAlone

LEMMA PipeElements ==
    ASSUME PipeTypeOK
    PROVE  /\ pipes \in Seq(PipeStates) /\ DOMAIN pipes = 1..Len(pipes) /\ Len(pipes) \in Nat
           /\ \A i \in DOMAIN pipes : pipes[i] \in PipeStates
<1>1. pipes \in Seq(PipeStates)
  BY DEF PipeTypeOK, PipeStates
<1> QED
  BY <1>1, LenProperties, ElementOfSeq

\* The loop of one server moves, and nothing else of the servers.
LEMMA LoopMoves ==
    ASSUME PipeTypeOK, NEW i \in DOMAIN pipes,
           NEW at \in {"create", "listen", "accepted", "pause", "over"}, LoopAt(i, at)
    PROVE  /\ pipes' \in Seq(PipeStates) /\ Len(pipes') = Len(pipes)
           /\ DOMAIN pipes' = DOMAIN pipes
           /\ pipes'[i].running = pipes[i].running /\ pipes'[i].at = at
           /\ \A j \in DOMAIN pipes \ {i} : pipes'[j] = pipes[j]
<1> DEFINE e == [running |-> pipes[i].running, at |-> at]
<1>1. pipes \in Seq(PipeStates) /\ pipes[i] \in PipeStates
  BY PipeElements
<1>2. e \in PipeStates
  BY <1>1 DEF PipeStates
<1>3. pipes' = [pipes EXCEPT ![i] = e]
  <2>1. [pipes[i] EXCEPT !.at = at] = e
    BY <1>1 DEF PipeStates
  <2> QED
    BY <2>1 DEF LoopAt
<1> HIDE DEF e
<1>4. /\ pipes' \in Seq(PipeStates) /\ Len(pipes') = Len(pipes) /\ DOMAIN pipes' = DOMAIN pipes
      /\ pipes'[i] = e /\ \A j \in DOMAIN pipes \ {i} : pipes'[j] = pipes[j]
  BY <1>1, <1>2, <1>3, ReplaceElement
<1> QED
  BY <1>4 DEF e

\* Every step of the loop of server i, by what it does to its callers.
LEMMA LoopSteps ==
    ASSUME NEW i, Create(i) \/ Accept(i) \/ ConnectFails(i) \/ Pause(i)
    PROVE  \/ /\ LoopAt(i, "listen") \/ LoopAt(i, "create") \* nobody is there
              /\ pipes[i].at \in {"create", "pause"}
              /\ UNCHANGED client
           \/ /\ LoopAt(i, "pause") \/ LoopAt(i, "create")
              /\ pipes[i].at = "accepted"
              /\ \E c \in Caller(i) : Moved(c, "reading") \/ Moved(c, "dropped")
           \/ /\ ~pipes[i].running /\ pipes[i].at = "create"
              /\ LoopEnds(i, {})
           \/ /\ ~pipes[i].running /\ pipes[i].at = "accepted"
              /\ LoopEnds(i, Caller(i))
BY DEF Create, Accept, ConnectFails, Pause

LEMMA LoopInv ==
    ASSUME PipeInv, NEW i \in DOMAIN pipes,
           Create(i) \/ Accept(i) \/ ConnectFails(i) \/ Pause(i)
    PROVE  PipeInv'
<1> USE PipeAssumption DEF PipeInv
<1>0. pipeSlot' = pipeSlot
  BY DEF Create, Accept, ConnectFails, Pause
<1>1. CASE /\ LoopAt(i, "listen") \/ LoopAt(i, "create")
           /\ pipes[i].at \in {"create", "pause"}
           /\ UNCHANGED client
  BY <1>0, <1>1, LoopMoves DEF PipeTypeOK, PipeStates, CallersAlone, TurnedAwayAlone
<1>2. CASE /\ LoopAt(i, "pause") \/ LoopAt(i, "create")
           /\ pipes[i].at = "accepted"
           /\ \E c \in Caller(i) : Moved(c, "reading") \/ Moved(c, "dropped")
  <2>1. PICK c \in Clients, to \in {"reading", "dropped"} :
           /\ client[c].stage = "connected" /\ client[c].of = i
           /\ client' = [client EXCEPT ![c] = [stage |-> to, of |-> i]]
    BY <1>2 DEF Caller, Held, Moved, PipeTypeOK
  <2>2. PipeTypeOK'
    BY <1>0, <1>2, <2>1, LoopMoves DEF PipeTypeOK, PipeStates, Stages
  <2>3. \A d \in Clients \ {c} : client'[d] = client[d]
    BY <2>1 DEF PipeTypeOK
  <2>4. client'[c].stage \notin {"connected", "turnedAway"}
    BY <2>1 DEF PipeTypeOK
  <2>a. DOMAIN pipes' = DOMAIN pipes /\ \A j \in DOMAIN pipes \ {i} : pipes'[j] = pipes[j]
    BY <1>2, LoopMoves
  <2>5. CallersAlone'
    BY <1>2, <2>1, <2>3, <2>4, <2>a DEF CallersAlone
  <2>6. TurnedAwayAlone'
    BY <1>2, <2>1, <2>3, <2>4, <2>a DEF TurnedAwayAlone
  <2> QED
    BY <2>2, <2>5, <2>6
<1>3. CASE /\ ~pipes[i].running /\ pipes[i].at = "create"
           /\ LoopEnds(i, {})
  <2>1. LoopAt(i, "over")
    BY <1>3 DEF LoopEnds
  <2>2. PipeTypeOK'
    BY <1>0, <1>3, <2>1, LoopMoves DEF PipeTypeOK, PipeStates, Stages, LoopEnds
  <2>3. ASSUME NEW c \in Clients
        PROVE  /\ client'[c].of = client[c].of
               /\ client'[c].stage = "connected" => client[c].stage = "connected" /\ client[c].of # i
               /\ client'[c].stage = "turnedAway" => client[c].stage = "turnedAway"
    BY <1>3 DEF LoopEnds, Held, PipeTypeOK
  <2>a. /\ DOMAIN pipes' = DOMAIN pipes /\ pipes'[i].at = "over"
        /\ \A j \in DOMAIN pipes \ {i} : pipes'[j] = pipes[j]
    BY <2>1, LoopMoves
  <2>4. CallersAlone'
    BY <2>3, <2>a DEF CallersAlone
  <2>5. TurnedAwayAlone'
    BY <1>3, <2>3, <2>a DEF TurnedAwayAlone
  <2> QED
    BY <2>2, <2>4, <2>5
<1>4. CASE /\ ~pipes[i].running /\ pipes[i].at = "accepted"
           /\ LoopEnds(i, Caller(i))
  <2>1. LoopAt(i, "over")
    BY <1>4 DEF LoopEnds
  <2>2. PipeTypeOK'
    BY <1>0, <1>4, <2>1, LoopMoves DEF PipeTypeOK, PipeStates, Stages, LoopEnds
  <2>3. ASSUME NEW c \in Clients
        PROVE  /\ client'[c].of = client[c].of
               /\ client'[c].stage = "connected" => client[c].stage = "connected" /\ client[c].of # i
               /\ client'[c].stage = "turnedAway" => client[c].stage = "turnedAway" \/ c \in Caller(i)
    BY <1>4 DEF LoopEnds, Held, PipeTypeOK, Caller
  <2>a. /\ DOMAIN pipes' = DOMAIN pipes /\ pipes'[i].at = "over"
        /\ \A j \in DOMAIN pipes \ {i} : pipes'[j] = pipes[j]
    BY <2>1, LoopMoves
  <2>4. CallersAlone'
    BY <2>3, <2>a DEF CallersAlone
  <2>5. TurnedAwayAlone'
    BY <1>4, <2>3, <2>a DEF TurnedAwayAlone, CallersAlone, Caller, Held
  <2> QED
    BY <2>2, <2>4, <2>5
<1> QED
  BY <1>1, <1>2, <1>3, <1>4, LoopSteps

LEMMA PipeStep == ASSUME PipeInv, [PipeNext]_pipeVars PROVE PipeInv'
<1> USE PipeAssumption DEF PipeInv
<1>1. CASE StartPipe
  <2>1. pipes' \in Seq(PipeStates) /\ Len(pipes') = Len(pipes) + 1
        /\ \A j \in DOMAIN pipes : j \in DOMAIN pipes' /\ pipes'[j] = pipes[j]
    BY <1>1 DEF StartPipe, PipeTypeOK, PipeStates
  <2> QED
    BY <1>1, <2>1 DEF StartPipe, PipeTypeOK, PipeStates, CallersAlone, TurnedAwayAlone
<1>2. CASE StopPipe
  <2> DEFINE e == [pipes[pipeSlot] EXCEPT !.running = FALSE]
  <2>1. pipeSlot \in DOMAIN pipes /\ pipes \in Seq(PipeStates) /\ pipes[pipeSlot] \in PipeStates
    BY <1>2, PipeElements DEF StopPipe, PipeTypeOK
  <2>a. e \in PipeStates /\ e.at = pipes[pipeSlot].at /\ pipes' = [pipes EXCEPT ![pipeSlot] = e]
    BY <1>2, <2>1 DEF StopPipe, PipeStates
  <2> HIDE DEF e
  <2>2. pipes' \in Seq(PipeStates) /\ Len(pipes') = Len(pipes) /\ DOMAIN pipes' = DOMAIN pipes
        /\ \A j \in DOMAIN pipes : pipes'[j].at = pipes[j].at
    BY <2>1, <2>a, ReplaceElement
  <2> QED
    BY <1>2, <2>2 DEF StopPipe, PipeTypeOK, PipeStates, CallersAlone, TurnedAwayAlone
<1>3. ASSUME NEW i \in DOMAIN pipes, Create(i) \/ Accept(i) \/ ConnectFails(i) \/ Pause(i)
      PROVE  PipeInv'
  BY <1>3, LoopInv
<1>4. ASSUME NEW c \in Clients, Open(c) PROVE PipeInv'
  <2>1. PICK i \in DOMAIN pipes : /\ pipes[i].at = "listen" /\ LoopAt(i, "accepted")
                                  /\ client' = [client EXCEPT ![c] = [stage |-> "connected", of |-> i]]
    BY <1>4 DEF Open, Listening
  <2>2. i \in 0..MaxServers
    BY DEF PipeTypeOK
  <2>3. PipeTypeOK'
    BY <1>4, <2>1, <2>2, LoopMoves DEF PipeTypeOK, PipeStates, Stages, Open
  <2>4. client'[c].stage = "connected" /\ client'[c].of = i
        /\ \A d \in Clients \ {c} : client'[d] = client[d]
    BY <2>1 DEF PipeTypeOK
  <2>a. /\ DOMAIN pipes' = DOMAIN pipes /\ pipes'[i].at = "accepted"
        /\ \A j \in DOMAIN pipes \ {i} : pipes'[j] = pipes[j]
    BY <2>1, LoopMoves
  <2>5. CallersAlone'
    BY <2>1, <2>4, <2>a DEF CallersAlone
  <2>6. TurnedAwayAlone'
    BY <2>1, <2>4, <2>a DEF TurnedAwayAlone
  <2> QED
    BY <2>3, <2>5, <2>6
<1>5. ASSUME NEW c \in Clients, GiveUp(c) \/ Read(c) \/ AnswerClient(c) PROVE PipeInv'
  <2>1. PICK to \in Stages \ {"connected", "turnedAway"} :
           Moved(c, to) /\ UNCHANGED <<pipes, pipeSlot>>
    BY <1>5 DEF GiveUp, Read, AnswerClient, Stages
  <2>2. client'[c].stage = to /\ client'[c].of = client[c].of
        /\ \A d \in Clients \ {c} : client'[d] = client[d]
    BY <2>1 DEF Moved, PipeTypeOK
  <2>3. PipeTypeOK'
    BY <2>1 DEF Moved, PipeTypeOK
  <2>4. CallersAlone' /\ TurnedAwayAlone'
    BY <2>1, <2>2 DEF CallersAlone, TurnedAwayAlone
  <2> QED
    BY <2>3, <2>4
<1>6. CASE UNCHANGED pipeVars
  BY <1>6 DEF pipeVars, PipeTypeOK, CallersAlone, TurnedAwayAlone
<1> QED
  BY <1>1, <1>2, <1>3, <1>4, <1>5, <1>6 DEF PipeNext

\* Every step of the services is one of the pipe's, or leaves it as it is.
LEMMA PipeInStep == ASSUME [Next]_vars PROVE [PipeNext]_pipeVars
BY DEF Next, vars, pipeVars

LEMMA PipeInvariant == Spec => []PipeInv
<1>1. Init => PipeInv
  BY PipeAssumption DEF Init, PipeInit, PipeInv, PipeTypeOK, PipeStates, CallersAlone,
     TurnedAwayAlone, Stages
<1>2. PipeInv /\ [Next]_vars => PipeInv'
  BY PipeInStep, PipeStep
<1> QED
  BY <1>1, <1>2, PTL DEF Spec

\* A hook that waits for the user's decision is cut off only by the stop of its own
\* server: no other client, no error of the pipe and no restart does it.
THEOREM WaitersAreKept == Spec => WaitersKeepTheirServer
<1> DEFINE Kept == \A c \in Clients :
                      client[c].stage = "waiting" /\ client'[c].stage # "waiting"
                         => client'[c].stage = "done" \/ ~pipes[client[c].of].running
<1>1. ASSUME PipeInv, PipeNext, NEW c \in Clients,
             client[c].stage = "waiting", client'[c].stage # "waiting"
      PROVE  client'[c].stage = "done" \/ ~pipes[client[c].of].running
  <2> USE DEF PipeInv, PipeTypeOK
  <2>1. CASE StartPipe \/ StopPipe
    BY <1>1, <2>1 DEF StartPipe, StopPipe
  <2>2. ASSUME NEW i \in DOMAIN pipes, Create(i) \/ Accept(i) \/ ConnectFails(i) \/ Pause(i)
        PROVE  client'[c].stage = "done" \/ ~pipes[client[c].of].running
    BY <1>1, <2>2, LoopSteps DEF Moved, Caller, LoopEnds, Held
  <2>3. ASSUME NEW d \in Clients, Open(d) \/ GiveUp(d) \/ Read(d) \/ AnswerClient(d)
        PROVE  client'[c].stage = "done" \/ ~pipes[client[c].of].running
    BY <1>1, <2>3 DEF Open, GiveUp, Read, AnswerClient, Moved
  <2> QED
    BY <1>1, <2>1, <2>2, <2>3 DEF PipeNext
<1>2. PipeInv /\ [Next]_vars => [Kept]_pipeVars
  BY <1>1, PipeInStep
<1> QED
  BY <1>2, PipeInvariant, PTL DEF Spec, WaitersKeepTheirServer

\* A stopped server turns one client away at most, whoever comes when.
THEOREM StopTurnsOneAway == Spec => []OneTurnedAwayPerStop
<1>1. PipeInv => OneTurnedAwayPerStop
  <2> SUFFICES ASSUME PipeInv, NEW i \in DOMAIN pipes
               PROVE  Cardinality({c \in Clients : client[c] = [stage |-> "turnedAway", of |-> i]}) <= 1
    BY DEF OneTurnedAwayPerStop
  <2> DEFINE T == {c \in Clients : client[c] = [stage |-> "turnedAway", of |-> i]}
  <2>1. \A c, d \in T : c = d
    BY DEF PipeInv, TurnedAwayAlone
  <2>2. T = {} \/ \E c \in T : T = {c}
    BY <2>1
  <2> HIDE DEF T
  <2>3. Cardinality(T) = 0 \/ Cardinality(T) = 1
    BY <2>2, FS_EmptySet, FS_Singleton
  <2>4. Cardinality(T) <= 1
    BY <2>3
  <2> QED
    BY <2>4 DEF T
<1> QED
  BY <1>1, PipeInvariant, PTL
-----------------------------------------------------------------------------
(* The hook server.                                                          *)

ServerStates == [running : BOOLEAN, at : {"bind", "serving", "failed"},
                 errors : Nat, log : Nat, adding : Nat, raced : Nat, high : LogLimits]

\* Only the server in the slot has its flag set.
FlagIsSlots ==
    /\ \A i \in DOMAIN servers : servers[i].running => i = slot
    /\ slot # 0 => servers[slot].running

\* The port is bound once.
OneServing == \A i, j \in Serving : i = j

\* What is logged or about to be was counted, and not forgotten but by a reset.
Counted(e) == e.log + e.adding <= e.errors + e.raced
CountedFirst == \A i \in DOMAIN servers : Counted(servers[i])

\* The log has not exceeded the highest limit since it was cleared, which is at least
\* the one there is.
Bounded(e, n) == e.log <= e.high /\ n <= e.high
LogBounded == \A i \in DOMAIN servers : Bounded(servers[i], limit)

HookServerInv == HookServerTypeOK /\ FlagIsSlots /\ OneServing /\ CountedFirst /\ LogBounded

LEMMA ServerElements ==
    ASSUME HookServerTypeOK
    PROVE  /\ servers \in Seq(ServerStates) /\ DOMAIN servers = 1..Len(servers)
           /\ Len(servers) \in Nat
           /\ \A i \in DOMAIN servers : servers[i] \in ServerStates
<1>1. servers \in Seq(ServerStates)
  BY DEF HookServerTypeOK, ServerStates
<1> QED
  BY <1>1, LenProperties, ElementOfSeq

\* A step that replaces the state of one server keeps the invariant if what is said
\* of each server alone is true of the new state.
LEMMA ReplaceServer ==
    ASSUME HookServerInv, NEW i \in DOMAIN servers, NEW e \in ServerStates,
           servers' = [servers EXCEPT ![i] = e],
           slot' = slot, limit' = limit, failures' \in 0..MaxFailures,
           clearing' \in BOOLEAN, clearing' => slot # 0,
           e.running = servers[i].running,
           e.at = "serving" => servers[i].at = "serving" \/ Serving = {},
           Counted(e), Bounded(e, limit)
    PROVE  HookServerInv'
<1> USE DEF HookServerInv
<1>1. servers \in Seq(ServerStates) /\ \A j \in DOMAIN servers : servers[j] \in ServerStates
  BY ServerElements
<1>2. /\ servers' \in Seq(ServerStates) /\ Len(servers') = Len(servers)
      /\ DOMAIN servers' = DOMAIN servers
      /\ servers'[i] = e /\ \A j \in DOMAIN servers \ {i} : servers'[j] = servers[j]
  BY <1>1, ReplaceElement
<1>3. HookServerTypeOK'
  BY <1>2 DEF HookServerTypeOK, ServerStates
<1>4. FlagIsSlots'
  <2>1. slot # 0 => slot \in DOMAIN servers
    BY ServerElements DEF HookServerTypeOK
  <2> QED
    BY <1>2, <2>1 DEF FlagIsSlots
<1>5. OneServing'
  BY <1>2 DEF OneServing, Serving
<1>6. CountedFirst'
  BY <1>2 DEF CountedFirst
<1>7. LogBounded'
  BY <1>2 DEF LogBounded
<1> QED
  BY <1>3, <1>4, <1>5, <1>6, <1>7

LEMMA HookServerStep == ASSUME HookServerInv, [HookServerNext]_hookServerVars PROVE HookServerInv'
<1> USE HookServerAssumption DEF HookServerInv
<1>0. /\ servers \in Seq(ServerStates) /\ DOMAIN servers = 1..Len(servers) /\ Len(servers) \in Nat
      /\ \A i \in DOMAIN servers : servers[i] \in ServerStates
      /\ limit \in LogLimits /\ failures \in 0..MaxFailures /\ clearing \in BOOLEAN
      /\ clearing => slot # 0
      /\ slot # 0 => slot \in DOMAIN servers
  BY ServerElements DEF HookServerTypeOK
<1>1. CASE StartHookServer
  <2>1. NewServer \in ServerStates /\ slot = 0
    BY <1>0, <1>1 DEF StartHookServer, NewServer, ServerStates, FlagIsSlots
  <2>2. /\ servers' \in Seq(ServerStates) /\ Len(servers') = Len(servers) + 1
        /\ DOMAIN servers' = DOMAIN servers \cup {Len(servers) + 1}
        /\ \A j \in DOMAIN servers : servers'[j] = servers[j]
        /\ servers'[Len(servers) + 1] = NewServer
    <3>1. servers' = Append(servers, NewServer)
      BY <1>1 DEF StartHookServer
    <3> HIDE DEF NewServer
    <3> QED
      BY <1>0, <2>1, <3>1, AppendProperties, LenProperties
  <2>3. HookServerTypeOK'
    BY <1>0, <1>1, <2>2 DEF StartHookServer, HookServerTypeOK, ServerStates
  <2>4. FlagIsSlots'
    BY <1>0, <1>1, <2>1, <2>2 DEF StartHookServer, FlagIsSlots, NewServer
  <2>5. OneServing'
    BY <1>0, <2>2 DEF OneServing, Serving, NewServer
  <2>6. CountedFirst' /\ LogBounded'
    <3>1. limit \in Nat /\ limit' = limit
      BY <1>0, <1>1, HookServerAssumption DEF StartHookServer
    <3>2. Counted(NewServer) /\ Bounded(NewServer, limit)
      BY <3>1 DEF Counted, Bounded, NewServer
    <3> QED
      BY <1>0, <2>2, <3>1, <3>2 DEF CountedFirst, LogBounded
  <2> QED
    BY <2>3, <2>4, <2>5, <2>6
<1>2. CASE StopHookServer
  <2> DEFINE e == [servers[slot] EXCEPT !.running = FALSE]
  <2>1. slot \in DOMAIN servers /\ e \in ServerStates /\ servers' = [servers EXCEPT ![slot] = e]
    BY <1>0, <1>2 DEF StopHookServer, ServerStates
  <2>2. /\ e.running = FALSE /\ e.at = servers[slot].at /\ e.raced = servers[slot].raced
        /\ e.log = servers[slot].log /\ e.adding = servers[slot].adding
        /\ e.errors = servers[slot].errors /\ e.high = servers[slot].high
    BY <1>0, <2>1 DEF ServerStates
  <2> HIDE DEF e
  <2>3. /\ servers' \in Seq(ServerStates) /\ Len(servers') = Len(servers)
        /\ DOMAIN servers' = DOMAIN servers
        /\ servers'[slot] = e /\ \A j \in DOMAIN servers \ {slot} : servers'[j] = servers[j]
    BY <1>0, <2>1, ReplaceElement
  <2>4. HookServerTypeOK'
    BY <1>0, <1>2, <2>3 DEF StopHookServer, HookServerTypeOK, ServerStates
  <2>5. FlagIsSlots'
    BY <1>2, <2>2, <2>3 DEF StopHookServer, FlagIsSlots
  <2>6. OneServing'
    BY <2>2, <2>3 DEF OneServing, Serving
  <2>7. CountedFirst' /\ LogBounded'
    BY <1>2, <2>1, <2>2, <2>3 DEF StopHookServer, CountedFirst, LogBounded, Counted, Bounded
  <2> QED
    BY <2>4, <2>5, <2>6, <2>7
<1>3. ASSUME NEW i \in DOMAIN servers, Bind(i) PROVE HookServerInv'
  <2> DEFINE e == [servers[i] EXCEPT !.at = IF Serving = {} THEN "serving" ELSE "failed"]
  <2>1. servers' = [servers EXCEPT ![i] = e] /\ UNCHANGED <<slot, limit, clearing, failures>>
    BY <1>3 DEF Bind
  <2>2. e \in ServerStates /\ e.running = servers[i].running
        /\ (e.at = "serving" => Serving = {})
    BY <1>0 DEF ServerStates
  <2>3. Counted(e) /\ Bounded(e, limit)
    BY <1>0 DEF CountedFirst, LogBounded, Counted, Bounded, ServerStates
  <2> HIDE DEF e
  <2> QED
    BY <1>0, <2>1, <2>2, <2>3, ReplaceServer
<1>4. ASSUME NEW i \in DOMAIN servers, CountError(i) PROVE HookServerInv'
  <2> DEFINE e == [servers[i] EXCEPT !.errors = @ + 1, !.adding = @ + 1]
  <2>0. servers[i] \in ServerStates
    BY <1>0
  <2>1. servers' = [servers EXCEPT ![i] = e]
    BY <1>4 DEF CountError
  <2>a. UNCHANGED <<slot, limit, clearing>> /\ failures' \in 0..MaxFailures
    BY <1>0, <1>4 DEF CountError
  <2>b. servers[i].log \in Nat /\ servers[i].adding \in Nat /\ servers[i].errors \in Nat
    BY <2>0 DEF ServerStates
  <2>c. ASSUME NEW a \in Nat, NEW b \in Nat
        PROVE  [servers[i] EXCEPT !.errors = a, !.adding = b] \in ServerStates
    BY <2>0 DEF ServerStates
  <2>d. e \in ServerStates
    <3>1. servers[i].errors + 1 \in Nat /\ servers[i].adding + 1 \in Nat
      BY <2>b
    <3> QED
      BY <2>c, <3>1, Zenon
  <2>2. e \in ServerStates /\ e.running = servers[i].running /\ e.at = servers[i].at
        /\ e.log = servers[i].log /\ e.adding = servers[i].adding + 1
        /\ e.errors = servers[i].errors + 1 /\ e.raced = servers[i].raced
        /\ e.high = servers[i].high /\ e.raced \in Nat
    BY <2>0, <2>d DEF ServerStates
  <2> HIDE DEF e
  <2>3. Counted(e) /\ Bounded(e, limit)
    BY <2>2, <2>b DEF CountedFirst, LogBounded, Counted, Bounded
  <2> HIDE DEF e
  <2> QED
    BY <1>0, <2>1, <2>a, <2>2, <2>3, ReplaceServer
<1>5. ASSUME NEW i \in DOMAIN servers, LogError(i) PROVE HookServerInv'
  <2> DEFINE e == [servers[i] EXCEPT !.adding = @ - 1, !.log = Push(@)]
  <2>0. servers[i] \in ServerStates /\ servers[i].adding > 0
    BY <1>0, <1>5 DEF LogError
  <2>1. servers' = [servers EXCEPT ![i] = e] /\ UNCHANGED <<slot, limit, clearing, failures>>
    BY <1>5 DEF LogError
  <2>a. servers[i].log \in Nat /\ servers[i].adding \in Nat \ {0} /\ servers[i].errors \in Nat
        /\ limit \in Nat
    BY <1>0, <2>0, HookServerAssumption DEF ServerStates
  <2>b. /\ Push(servers[i].log) \in Nat /\ Push(servers[i].log) <= servers[i].log + 1
        /\ Push(servers[i].log) <= servers[i].log \/ Push(servers[i].log) <= limit
    BY <2>a DEF Push
  <2>c. ASSUME NEW a \in Nat, NEW b \in Nat
        PROVE  [servers[i] EXCEPT !.adding = a, !.log = b] \in ServerStates
    BY <2>0 DEF ServerStates
  <2>d. e \in ServerStates
    <3>1. servers[i].adding - 1 \in Nat /\ Push(servers[i].log) \in Nat
      BY <2>a, <2>b
    <3> QED
      BY <2>c, <3>1, Zenon
  <2>2. e \in ServerStates /\ e.running = servers[i].running /\ e.at = servers[i].at
        /\ e.log = Push(servers[i].log) /\ e.adding = servers[i].adding - 1
        /\ e.errors = servers[i].errors /\ e.raced = servers[i].raced /\ e.raced \in Nat
        /\ e.high = servers[i].high /\ e.high \in Nat
    BY <2>0, <2>d, HookServerAssumption DEF ServerStates
  <2> HIDE DEF e
  <2>3. Counted(e)
    BY <2>2, <2>a, <2>b DEF CountedFirst, Counted
  <2>4. Bounded(e, limit)
    BY <2>2, <2>a, <2>b DEF LogBounded, Bounded
  <2> QED
    BY <1>0, <2>1, <2>2, <2>3, <2>4, ReplaceServer
<1>6. CASE ClearLog
  <2> DEFINE left == Fewest(servers[slot].raced, servers[slot].adding)
             e == [servers[slot] EXCEPT !.log = 0, !.high = limit, !.raced = left]
  <2>1. servers' = [servers EXCEPT ![slot] = e] /\ UNCHANGED <<slot, limit, failures>>
        /\ clearing' = TRUE /\ slot # 0
    BY <1>6 DEF ClearLog
  <2>2. servers[slot] \in ServerStates /\ Counted(servers[slot]) /\ limit \in Nat
    BY <1>0, <2>1, HookServerAssumption DEF CountedFirst
  <2>3. /\ left \in Nat /\ left <= servers[slot].raced /\ left <= servers[slot].adding
        /\ left = servers[slot].raced \/ left = servers[slot].adding
    BY <2>2 DEF Fewest, ServerStates
  <2> HIDE DEF left
  <2>4. e \in ServerStates /\ e.running = servers[slot].running /\ e.at = servers[slot].at
        /\ e.log = 0 /\ e.high = limit /\ e.raced = left
        /\ e.adding = servers[slot].adding /\ e.errors = servers[slot].errors
    BY <1>0, <2>2, <2>3 DEF ServerStates
  <2> HIDE DEF e
  <2>5. Counted(e) /\ Bounded(e, limit)
    <3>1. /\ servers[slot].log \in Nat /\ servers[slot].adding \in Nat
          /\ servers[slot].errors \in Nat
      BY <2>2 DEF ServerStates
    <3> QED
      BY <2>2, <2>3, <2>4, <3>1 DEF Counted, Bounded
  <2> QED
    BY <1>0, <2>1, <2>4, <2>5, ReplaceServer
<1>7. CASE ResetCount
  <2> DEFINE both == servers[slot].adding + servers[slot].log
             e == [servers[slot] EXCEPT !.errors = 0, !.raced = both]
  <2>1. servers' = [servers EXCEPT ![slot] = e] /\ UNCHANGED <<slot, limit, failures>>
        /\ clearing' = FALSE /\ slot # 0
    BY <1>0, <1>7 DEF ResetCount
  <2>2. /\ servers[slot] \in ServerStates /\ Bounded(servers[slot], limit)
        /\ servers[slot].adding \in Nat /\ servers[slot].log \in Nat
    BY <1>0, <2>1 DEF LogBounded, ServerStates
  <2>3. both = servers[slot].adding + servers[slot].log /\ both \in Nat
    BY <2>2
  <2> HIDE DEF both
  <2>4. e \in ServerStates /\ e.running = servers[slot].running /\ e.at = servers[slot].at
        /\ e.log = servers[slot].log /\ e.adding = servers[slot].adding /\ e.errors = 0
        /\ e.raced = both /\ e.high = servers[slot].high
    BY <2>2, <2>3 DEF ServerStates
  <2> HIDE DEF e
  <2>5. Counted(e) /\ Bounded(e, limit)
    BY <2>2, <2>3, <2>4 DEF Counted, Bounded
  <2> QED
    BY <1>0, <2>1, <2>4, <2>5, ReplaceServer
<1>8. CASE Reconfigure
  <2>1. PICK n \in LogLimits :
          /\ limit' = n
          /\ servers' = [i \in DOMAIN servers |->
                            [servers[i] EXCEPT !.high = IF n > servers[i].high THEN n ELSE servers[i].high]]
    BY <1>8 DEF Reconfigure
  <2>2. ASSUME NEW i \in DOMAIN servers
        PROVE  /\ servers'[i] \in ServerStates
               /\ servers'[i].running = servers[i].running /\ servers'[i].at = servers[i].at
               /\ Counted(servers'[i]) /\ Bounded(servers'[i], n)
    <3> DEFINE high == IF n > servers[i].high THEN n ELSE servers[i].high
    <3>1. /\ servers[i] \in ServerStates /\ Counted(servers[i]) /\ Bounded(servers[i], limit)
          /\ servers'[i] = [servers[i] EXCEPT !.high = high]
      BY <1>0, <2>1 DEF CountedFirst, LogBounded
    <3>2. high \in LogLimits /\ n <= high /\ servers[i].high <= high /\ high \in Nat
          /\ servers[i].high \in Nat /\ servers[i].log \in Nat
      BY <2>1, <3>1, HookServerAssumption DEF ServerStates
    <3> HIDE DEF high
    <3>3. /\ servers'[i] \in ServerStates /\ servers'[i].high = high
          /\ servers'[i].running = servers[i].running /\ servers'[i].at = servers[i].at
          /\ servers'[i].log = servers[i].log /\ servers'[i].adding = servers[i].adding
          /\ servers'[i].errors = servers[i].errors /\ servers'[i].raced = servers[i].raced
      BY <3>1, <3>2 DEF ServerStates
    <3>4. Bounded(servers'[i], n)
      BY <3>1, <3>2, <3>3 DEF Bounded
    <3> QED
      BY <3>1, <3>3, <3>4 DEF Counted
  <2>3. DOMAIN servers' = DOMAIN servers /\ UNCHANGED <<slot, clearing, failures>>
    BY <1>8, <2>1 DEF Reconfigure
  <2>4. servers' \in Seq(ServerStates) /\ Len(servers') = Len(servers)
    <3>1. servers' \in [1..Len(servers) -> ServerStates]
      BY <1>0, <2>1, <2>2, <2>3
    <3> QED
      BY <1>0, <3>1, SeqDef, LenProperties
  <2>5. HookServerTypeOK'
    BY <1>0, <2>1, <2>3, <2>4 DEF HookServerTypeOK, ServerStates
  <2>6. FlagIsSlots'
    BY <1>0, <2>2, <2>3 DEF FlagIsSlots
  <2>7. OneServing'
    BY <2>2, <2>3 DEF OneServing, Serving
  <2>8. CountedFirst' /\ LogBounded'
    BY <2>1, <2>2, <2>3 DEF CountedFirst, LogBounded
  <2> QED
    BY <2>5, <2>6, <2>7, <2>8
<1>9. CASE UNCHANGED hookServerVars
  BY <1>9 DEF hookServerVars, HookServerTypeOK, FlagIsSlots, OneServing, Serving, CountedFirst, LogBounded
<1> QED
  BY <1>1, <1>2, <1>3, <1>4, <1>5, <1>6, <1>7, <1>8, <1>9 DEF HookServerNext

LEMMA HookServerInvariant == Spec => []HookServerInv
<1>1. Init => HookServerInv
  <2> SUFFICES ASSUME Init PROVE HookServerInv
    OBVIOUS
  <2>1. servers = <<>> /\ slot = 0 /\ limit \in LogLimits /\ clearing = FALSE /\ failures = 0
    BY DEF Init, HookServerInit
  <2>2. servers \in Seq(ServerStates) /\ Len(servers) = 0 /\ DOMAIN servers = {}
    BY <2>1
  <2>a. slot \in 0..Len(servers) /\ Len(servers) <= MaxStarts /\ failures \in 0..MaxFailures
    BY <2>1, <2>2, HookServerAssumption
  <2>3. HookServerTypeOK
    BY <2>1, <2>2, <2>a DEF HookServerTypeOK, ServerStates
  <2> QED
    BY <2>1, <2>2, <2>3 DEF HookServerInv, FlagIsSlots, OneServing, Serving, CountedFirst, LogBounded
<1>2. HookServerInv /\ [Next]_vars => HookServerInv'
  <2>1. [Next]_vars => [HookServerNext]_hookServerVars
    BY DEF Next, vars, hookServerVars
  <2> QED
    BY <2>1, HookServerStep
<1> QED
  BY <1>1, <1>2, PTL DEF Spec

\* Status, health and errors are the listener's until it is stopped, and never again
\* anyone's who listens after that.
THEOREM HealthIsListeners == Spec => []HealthOfTheListener
<1>1. HookServerInv => HealthOfTheListener
  <2> SUFFICES ASSUME HookServerInv, NEW i \in Serving
               PROVE  /\ servers[i].running => Health.connected /\ Health.errors = servers[i].errors
                      /\ ~servers[i].running => Serving = {i} /\ slot # i
    BY DEF HealthOfTheListener
  <2>1. i \in 1..Len(servers)
    BY ServerElements DEF HookServerInv, Serving
  <2>2. ASSUME servers[i].running PROVE Health.connected /\ Health.errors = servers[i].errors
    BY <2>1, <2>2 DEF HookServerInv, FlagIsSlots, Health, Serving
  <2>3. Serving = {i}
    BY DEF HookServerInv, OneServing
  <2>4. ASSUME ~servers[i].running PROVE slot # i
    BY <2>1, <2>4 DEF HookServerInv, FlagIsSlots
  <2> QED
    BY <2>2, <2>3, <2>4
<1> QED
  BY <1>1, HookServerInvariant, PTL

\* However adding, clearing, reconfiguring, stops and starts interleave, the count
\* covers the log but for what a reset of it met there, and the log is no longer than
\* the highest limit since it was cleared.
THEOREM ErrorsAreAccountedFor == Spec => []ErrorsAccountedFor
<1>1. HookServerInv => ErrorsAccountedFor
  BY DEF HookServerInv, CountedFirst, LogBounded, Counted, Bounded, ErrorsAccountedFor
<1> QED
  BY <1>1, HookServerInvariant, PTL
-----------------------------------------------------------------------------
(* The process watcher.                                                      *)

WatcherStates == [running : BOOLEAN, failed : BOOLEAN, detected : SUBSET Procs,
                  at : {"idle", "update", "over"}, scan : SUBSET Procs]
Notices == [type : {"detected", "terminated"}, proc : Procs]

\* Only the watcher in the state has its flag set.
FlagIsCurrents == \A i \in DOMAIN watchers : watchers[i].running => i = current

\* A watcher knows processes that were born, and a scan has those of them that live.
KnowsTheLiving(w) ==
    /\ \A x \in w.detected \cup w.scan : life[x] # "unborn"
    /\ w.at = "update" => \A x \in w.detected : life[x] = "live" => x \in w.scan

\* A termination is reported of a process that has ended, for ever.
NoticesTrue ==
    \A k \in DOMAIN notices : notices[k].type = "terminated" => life[notices[k].proc] = "gone"

WatcherInv ==
    /\ WatcherTypeOK
    /\ FlagIsCurrents
    /\ \A i \in DOMAIN watchers : KnowsTheLiving(watchers[i])
    /\ NoticesTrue

LEMMA WatcherElements ==
    ASSUME WatcherTypeOK
    PROVE  /\ watchers \in Seq(WatcherStates) /\ DOMAIN watchers = 1..Len(watchers)
           /\ Len(watchers) \in Nat
           /\ \A i \in DOMAIN watchers : watchers[i] \in WatcherStates
           /\ notices \in Seq(Notices) /\ DOMAIN notices = 1..Len(notices)
           /\ \A k \in DOMAIN notices : notices[k] \in Notices
<1>1. watchers \in Seq(WatcherStates) /\ notices \in Seq(Notices)
  BY DEF WatcherTypeOK, WatcherStates, Notices
<1> QED
  BY <1>1, LenProperties, ElementOfSeq

\* A step that replaces the state of one watcher, and adds true notices.
LEMMA ReplaceWatcher ==
    ASSUME WatcherInv, NEW i \in DOMAIN watchers, NEW w \in WatcherStates,
           watchers' = [watchers EXCEPT ![i] = w],
           w.running => watchers[i].running, KnowsTheLiving(w),
           current' \in 0..Len(watchers), \A j \in DOMAIN watchers \ {i} : watchers[j].running => j = current',
           w.running => i = current',
           notices' \in Seq(Notices), NoticesTrue',
           UNCHANGED <<life, linked, rows>>
    PROVE  WatcherInv'
<1> USE DEF WatcherInv
<1>1. watchers \in Seq(WatcherStates)
  BY WatcherElements
<1>2. /\ watchers' \in Seq(WatcherStates) /\ Len(watchers') = Len(watchers)
      /\ DOMAIN watchers' = DOMAIN watchers
      /\ watchers'[i] = w /\ \A j \in DOMAIN watchers \ {i} : watchers'[j] = watchers[j]
  BY <1>1, ReplaceElement
<1>3. WatcherTypeOK'
  BY <1>2 DEF WatcherTypeOK, WatcherStates, Notices
<1>4. FlagIsCurrents'
  BY <1>2 DEF FlagIsCurrents
<1>5. \A j \in DOMAIN watchers' : KnowsTheLiving(watchers[j])'
  BY <1>2 DEF KnowsTheLiving
<1> QED
  BY <1>3, <1>4, <1>5

\* Any list of a finite set is a sequence of its elements.
LEMMA ListedSeq ==
    ASSUME NEW S, IsFiniteSet(S), NEW q \in Listed(S)
    PROVE  q \in Seq(S)
<1>1. Cardinality(S) \in Nat
  BY FS_CardinalityType
<1> QED
  BY <1>1 DEF Listed

LEMMA NoticeFinite ==
    ASSUME NEW type, NEW S \in SUBSET Procs
    PROVE  IsFiniteSet(Notice(type, S))
<1> DEFINE f == [x \in S |-> [type |-> type, proc |-> x]]
<1>1. f \in Surjection(S, Notice(type, S))
  BY DEF Surjection, Notice
<1>2. IsFiniteSet(S)
  BY WatcherAssumption, FS_Subset
<1> QED
  BY <1>1, <1>2, FS_Surjection

\* What departs from a scan has ended.
LEMMA DepartedAreGone ==
    ASSUME WatcherInv, NEW i \in DOMAIN watchers, watchers[i].at = "update",
           NEW x \in Departed(watchers[i].detected, watchers[i].scan)
    PROVE  x \in Procs /\ life[x] = "gone"
<1>1. watchers[i] \in WatcherStates
  BY WatcherElements DEF WatcherInv
<1>2. x \in watchers[i].detected /\ x \notin watchers[i].scan
  BY DEF Departed, PidsOf
<1>3. x \in Procs
  BY <1>1, <1>2 DEF WatcherStates
<1> QED
  BY <1>2, <1>3 DEF WatcherInv, KnowsTheLiving, WatcherTypeOK

LEMMA UpdateStep == ASSUME WatcherInv, NEW i \in DOMAIN watchers, Update(i) PROVE WatcherInv'
<1> DEFINE w == watchers[i]
           D == Departed(w.detected, w.scan)
           A == Arrived(w.detected, w.scan)
           v == [watchers[i] EXCEPT !.detected = (@ \ D) \cup A, !.scan = {}, !.at = "idle"]
<1>1. w \in WatcherStates /\ w.at = "update" /\ UNCHANGED <<life, current, linked, rows>>
  BY WatcherElements DEF WatcherInv, Update
<1>2. D \in SUBSET Procs /\ A \in SUBSET Procs
  BY <1>1 DEF Departed, Arrived, WatcherStates
<1>3. PICK gone \in Listed(Notice("terminated", D)), new \in Listed(Notice("detected", A)) :
         notices' = notices \o gone \o new
  BY DEF Update
<1>4. gone \in Seq(Notice("terminated", D)) /\ new \in Seq(Notice("detected", A))
  BY <1>2, <1>3, ListedSeq, NoticeFinite
<1>5. Notice("terminated", D) \subseteq Notices /\ Notice("detected", A) \subseteq Notices
  BY <1>2 DEF Notice, Notices
<1>6. gone \in Seq(Notices) /\ new \in Seq(Notices) /\ notices \in Seq(Notices)
  BY <1>4, <1>5, SeqMonotonic, WatcherElements DEF WatcherInv
<1>7. /\ \A k \in 1..Len(gone) : gone[k].type = "terminated" /\ gone[k].proc \in D
      /\ \A k \in 1..Len(new) : new[k].type = "detected"
  <2>1. /\ \A k \in 1..Len(gone) : gone[k] \in Notice("terminated", D)
        /\ \A k \in 1..Len(new) : new[k] \in Notice("detected", A)
    BY <1>4, ElementOfSeq
  <2> QED
    BY <2>1 DEF Notice
<1>8. \A x \in D : life[x] = "gone"
  BY <1>1, DepartedAreGone
<1>9. notices' \in Seq(Notices) /\ NoticesTrue'
  <2>1. /\ notices \o gone \in Seq(Notices) /\ Len(notices \o gone) = Len(notices) + Len(gone)
        /\ \A k \in 1..Len(notices) + Len(gone) :
              (notices \o gone)[k] = IF k <= Len(notices) THEN notices[k] ELSE gone[k - Len(notices)]
    BY <1>6, ConcatProperties
  <2> DEFINE n == notices \o gone
  <2>2. /\ n \o new \in Seq(Notices) /\ Len(n \o new) = Len(n) + Len(new)
        /\ \A k \in 1..Len(n) + Len(new) :
              (n \o new)[k] = IF k <= Len(n) THEN n[k] ELSE new[k - Len(n)]
    BY <1>6, <2>1, ConcatProperties
  <2>3. Len(notices) \in Nat /\ Len(gone) \in Nat /\ Len(new) \in Nat
    BY <1>6, LenProperties
  <2>4. ASSUME NEW k \in 1..Len(n), n[k].type = "terminated" PROVE life[n[k].proc] = "gone"
    <3>1. CASE k <= Len(notices)
      <4>1. k \in DOMAIN notices /\ n[k] = notices[k]
        BY <2>1, <2>3, <3>1, <1>6, LenProperties
      <4> QED
        BY <2>4, <4>1 DEF WatcherInv, NoticesTrue
    <3>2. CASE k > Len(notices)
      <4>1. k - Len(notices) \in 1..Len(gone) /\ n[k] = gone[k - Len(notices)]
        BY <2>1, <2>3, <3>2
      <4> QED
        BY <1>7, <1>8, <4>1
    <3> QED
      BY <2>1, <2>3, <3>1, <3>2
  <2> HIDE DEF n
  <2>5. ASSUME NEW k \in 1..Len(n \o new), (n \o new)[k].type = "terminated"
        PROVE  life[(n \o new)[k].proc] = "gone"
    <3>1. CASE k <= Len(n)
      BY <2>1, <2>2, <2>3, <2>4, <2>5, <3>1 DEF n
    <3>2. CASE k > Len(n)
      <4>1. k - Len(n) \in 1..Len(new) /\ (n \o new)[k] = new[k - Len(n)]
        BY <2>1, <2>2, <2>3, <3>2 DEF n
      <4> QED
        BY <1>7, <2>5, <4>1
    <3> QED
      BY <2>1, <2>2, <2>3, <3>1, <3>2 DEF n
  <2>6. notices' = n \o new
    BY <1>3 DEF n
  <2> QED
    BY <1>1, <2>2, <2>5, <2>6, LenProperties DEF NoticesTrue
<1>10. watchers' = [watchers EXCEPT ![i] = v]
  BY DEF Update, Remember
<1>11. /\ v \in WatcherStates /\ v.running = w.running /\ v.at = "idle" /\ v.scan = {}
       /\ v.detected = (w.detected \ D) \cup A
  BY <1>1, <1>2 DEF WatcherStates
<1>12. A \subseteq w.scan
  BY DEF Arrived
<1>13. KnowsTheLiving(v)
  BY <1>11, <1>12 DEF WatcherInv, KnowsTheLiving
<1>14. current \in 0..Len(watchers) /\ \A j \in DOMAIN watchers : watchers[j].running => j = current
  BY DEF WatcherInv, WatcherTypeOK, FlagIsCurrents
<1> HIDE DEF v
<1> QED
  BY <1>1, <1>9, <1>10, <1>11, <1>13, <1>14, ReplaceWatcher

\* Processes begin and end under watchers that stay as they are.
LEMMA LifeStep ==
    ASSUME WatcherInv, NEW x \in Procs, Begins(x) \/ Ends(x)
    PROVE  WatcherInv'
<1> USE DEF WatcherInv
<1>1. UNCHANGED <<watchers, current, notices, linked, rows>>
  BY DEF Begins, Ends
<1>2. /\ life' \in [Procs -> {"unborn", "live", "gone"}]
      /\ \A y \in Procs : /\ life[y] # "unborn" => life'[y] # "unborn"
                          /\ life[y] = "gone" => life'[y] = "gone"
                          /\ life'[y] = "live" => life[y] = "live" \/ life[y] = "unborn"
  BY DEF Begins, Ends, WatcherTypeOK
<1>3. WatcherTypeOK'
  BY <1>1, <1>2 DEF WatcherTypeOK
<1>4. ASSUME NEW i \in DOMAIN watchers PROVE KnowsTheLiving(watchers[i])'
  <2>1. watchers[i] \in WatcherStates
    BY WatcherElements
  <2> QED
    BY <1>1, <1>2, <2>1 DEF KnowsTheLiving, WatcherStates
<1>5. NoticesTrue'
  <2>1. \A k \in DOMAIN notices : notices[k].proc \in Procs
    BY WatcherElements DEF Notices
  <2> QED
    BY <1>1, <1>2, <2>1 DEF NoticesTrue
<1> QED
  BY <1>1, <1>3, <1>4, <1>5 DEF FlagIsCurrents

LEMMA StartWatcherStep == ASSUME WatcherInv, StartWatcher PROVE WatcherInv'
<1> USE DEF WatcherInv
<1>1. /\ watchers \in Seq(WatcherStates) /\ DOMAIN watchers = 1..Len(watchers) /\ Len(watchers) \in Nat
      /\ \A i \in DOMAIN watchers : watchers[i] \in WatcherStates
  BY WatcherElements
<1>2. /\ UNCHANGED <<life, notices, linked, rows>>
      /\ watchers' = Append(watchers, Fresh) /\ current' = Len(watchers) + 1
      /\ Len(watchers) < MaxWatchers
      /\ current # 0 => ~watchers[current].running
  BY DEF StartWatcher
<1>3. Fresh \in WatcherStates
  BY DEF Fresh, WatcherStates
<1>4. /\ watchers' \in Seq(WatcherStates) /\ Len(watchers') = Len(watchers) + 1
      /\ \A i \in 1..Len(watchers) : watchers'[i] = watchers[i]
      /\ watchers'[Len(watchers) + 1] = Fresh
  BY <1>1, <1>2, <1>3, AppendProperties
<1>5. DOMAIN watchers' = 1..(Len(watchers) + 1)
  BY <1>4, LenProperties
<1>6. \A i \in DOMAIN watchers : ~watchers[i].running
  BY <1>1, <1>2 DEF FlagIsCurrents
<1>7. WatcherTypeOK'
  <2>1. current' \in 0..Len(watchers') /\ Len(watchers') <= MaxWatchers
    BY <1>1, <1>2, <1>4, WatcherAssumption
  <2> QED
    BY <1>2, <1>4, <2>1 DEF WatcherTypeOK, WatcherStates
<1>8. FlagIsCurrents'
  BY <1>1, <1>2, <1>4, <1>5, <1>6 DEF FlagIsCurrents
<1>9. \A i \in DOMAIN watchers' : KnowsTheLiving(watchers[i])'
  <2>1. KnowsTheLiving(Fresh)'
    BY DEF KnowsTheLiving, Fresh
  <2>2. \A i \in DOMAIN watchers : KnowsTheLiving(watchers[i])'
    BY <1>1, <1>2, <1>4 DEF KnowsTheLiving
  <2>4. ASSUME NEW i \in DOMAIN watchers' PROVE KnowsTheLiving(watchers[i])'
    <3>1. CASE i \in DOMAIN watchers
      BY <2>2, <3>1
    <3>2. CASE i = Len(watchers) + 1
      <4>1. watchers'[i] = Fresh
        BY <1>4, <3>2
      <4> QED
        BY <4>1 DEF KnowsTheLiving, Fresh
    <3> QED
      BY <1>1, <1>5, <3>1, <3>2
  <2> QED
    BY <2>4
<1> QED
  BY <1>2, <1>7, <1>8, <1>9 DEF NoticesTrue

LEMMA StopWatcherStep == ASSUME WatcherInv, StopWatcher PROVE WatcherInv'
<1> DEFINE w == [watchers[current] EXCEPT !.running = FALSE]
<1>1. current \in DOMAIN watchers
  BY WatcherElements DEF StopWatcher, WatcherInv, WatcherTypeOK
<1>2. watchers[current] \in WatcherStates /\ notices \in Seq(Notices) /\ Len(watchers) \in Nat
  BY <1>1, WatcherElements DEF WatcherInv
<1>3. w \in WatcherStates /\ w.running = FALSE /\ KnowsTheLiving(w)
  BY <1>1, <1>2 DEF WatcherStates, WatcherInv, KnowsTheLiving
<1>4. /\ watchers' = [watchers EXCEPT ![current] = w] /\ current' = 0
      /\ UNCHANGED <<life, notices, linked, rows>>
  BY DEF StopWatcher
<1>5. \A j \in DOMAIN watchers \ {current} : watchers[j].running => j = current'
  BY DEF WatcherInv, FlagIsCurrents
<1>6. notices' \in Seq(Notices) /\ NoticesTrue' /\ current' \in 0..Len(watchers)
  BY <1>2, <1>4 DEF WatcherInv, NoticesTrue
<1> HIDE DEF w
<1> QED
  BY <1>1, <1>3, <1>4, <1>5, <1>6, ReplaceWatcher

LEMMA PollStep ==
    ASSUME WatcherInv, NEW i \in DOMAIN watchers, Poll(i) \/ PollFails(i)
    PROVE  WatcherInv'
<1>1. /\ watchers[i] \in WatcherStates /\ notices \in Seq(Notices)
      /\ UNCHANGED <<life, current, notices, linked, rows>>
      /\ \A j \in DOMAIN watchers : watchers[j].running => j = current
      /\ current \in 0..Len(watchers) /\ KnowsTheLiving(watchers[i])
      /\ NoticesTrue'
  BY WatcherElements DEF Poll, PollFails, WatcherInv, FlagIsCurrents, WatcherTypeOK, NoticesTrue
<1>2. CASE watchers' = [watchers EXCEPT ![i].at = "over"]
  <2> DEFINE w == [watchers[i] EXCEPT !.at = "over"]
  <2>1. /\ w \in WatcherStates /\ w.running = watchers[i].running /\ w.at = "over"
        /\ w.detected = watchers[i].detected /\ w.scan = watchers[i].scan
        /\ watchers' = [watchers EXCEPT ![i] = w]
    BY <1>1, <1>2 DEF WatcherStates
  <2>2. KnowsTheLiving(w)
    BY <1>1, <2>1 DEF KnowsTheLiving
  <2> HIDE DEF w
  <2> QED
    BY <1>1, <2>1, <2>2, ReplaceWatcher
<1>3. CASE watchers' = [watchers EXCEPT ![i].at = "update", ![i].scan = Live]
  <2> DEFINE w == [watchers[i] EXCEPT !.at = "update", !.scan = Live]
  <2>1. /\ w \in WatcherStates /\ w.running = watchers[i].running /\ w.at = "update"
        /\ w.detected = watchers[i].detected /\ w.scan = Live
        /\ watchers' = [watchers EXCEPT ![i] = w]
    BY <1>1, <1>3 DEF WatcherStates, Live
  <2>2. KnowsTheLiving(w)
    BY <1>1, <2>1 DEF KnowsTheLiving, Live, WatcherStates
  <2> HIDE DEF w
  <2> QED
    BY <1>1, <2>1, <2>2, ReplaceWatcher
<1>4. CASE watchers' = [watchers EXCEPT ![i].at = "over", ![i].failed = TRUE]
  <2> DEFINE w == [watchers[i] EXCEPT !.at = "over", !.failed = TRUE]
  <2>1. /\ w \in WatcherStates /\ w.running = watchers[i].running /\ w.at = "over"
        /\ w.detected = watchers[i].detected /\ w.scan = watchers[i].scan
        /\ watchers' = [watchers EXCEPT ![i] = w]
    BY <1>1, <1>4 DEF WatcherStates
  <2>2. KnowsTheLiving(w)
    BY <1>1, <2>1 DEF KnowsTheLiving
  <2> HIDE DEF w
  <2> QED
    BY <1>1, <2>1, <2>2, ReplaceWatcher
<1> QED
  BY <1>2, <1>3, <1>4 DEF Poll, PollFails

Rows == [proc : Procs, detached : BOOLEAN]
Links == [pid : Pids \cup {None}, detached : BOOLEAN]

LEMMA RowElements ==
    ASSUME WatcherTypeOK
    PROVE  /\ rows \in Seq(Rows) /\ DOMAIN rows = 1..Len(rows) /\ Len(rows) \in Nat
           /\ \A k \in DOMAIN rows : rows[k] \in Rows
           /\ linked \in [HookSessions -> Links]
<1>1. rows \in Seq(Rows) /\ linked \in [HookSessions -> Links]
  BY DEF WatcherTypeOK, Rows, Links
<1> QED
  BY <1>1, LenProperties, ElementOfSeq

\* What the overlay does with a process that is reported, or is gone.
LEMMA HandleDetectedStep ==
    ASSUME WatcherTypeOK, NEW x \in Procs, HandleDetected(x)
    PROVE  /\ linked' \in [HookSessions -> Links] /\ rows' \in Seq(Rows)
           /\ \A s \in HookSessions : linked'[s].detached = linked[s].detached
           /\ \A k \in DOMAIN rows : rows'[k] = rows[k]
<1>1. PidOf[x] \in Pids
  BY DEF Pids
<1>2. CASE rows' = Append(rows, [proc |-> x, detached |-> FALSE]) /\ UNCHANGED linked
  <2>1. [proc |-> x, detached |-> FALSE] \in Rows
    BY DEF Rows
  <2> QED
    BY <1>2, <2>1, RowElements, AppendProperties
<1>3. ASSUME NEW s \in HookSessions, linked' = [linked EXCEPT ![s].pid = PidOf[x]], UNCHANGED rows
      PROVE  /\ linked' \in [HookSessions -> Links] /\ rows' \in Seq(Rows)
             /\ \A t \in HookSessions : linked'[t].detached = linked[t].detached
             /\ \A k \in DOMAIN rows : rows'[k] = rows[k]
  BY <1>1, <1>3, RowElements DEF Links
<1> QED
  BY <1>2, <1>3 DEF HandleDetected

LEMMA HandleTerminatedStep ==
    ASSUME WatcherTypeOK, NEW x \in Procs, HandleTerminated(x)
    PROVE  /\ linked' \in [HookSessions -> Links] /\ rows' \in Seq(Rows)
           /\ \A s \in HookSessions : linked'[s].detached /\ ~linked[s].detached => linked[s].pid = PidOf[x]
           /\ \A k \in DOMAIN rows : rows'[k].detached /\ ~rows[k].detached
                 => PidOf[rows[k].proc] = PidOf[x]
<1>1. /\ rows \in Seq(Rows) /\ DOMAIN rows = 1..Len(rows) /\ Len(rows) \in Nat
      /\ \A k \in DOMAIN rows : rows[k] \in Rows
      /\ linked \in [HookSessions -> Links]
  BY RowElements
<1>2. /\ \A s \in HookSessions : linked'[s] \in Links
      /\ \A s \in HookSessions : linked[s].pid # PidOf[x] => linked'[s] = linked[s]
  BY <1>1 DEF HandleTerminated, Links
<1>3. linked' \in [HookSessions -> Links]
  BY <1>2 DEF HandleTerminated
<1>4. /\ \A k \in DOMAIN rows : rows'[k] \in Rows
      /\ \A k \in DOMAIN rows : PidOf[rows[k].proc] # PidOf[x] => rows'[k] = rows[k]
  BY <1>1 DEF HandleTerminated, Rows
<1>5. rows' \in [1..Len(rows) -> Rows]
  BY <1>1, <1>4 DEF HandleTerminated
<1>6. rows' \in Seq(Rows)
  BY <1>1, <1>5
<1> QED
  BY <1>2, <1>3, <1>4, <1>6

\* The first notice is handled, and those behind it are the same as before.
LEMMA HandleNoticeStep == ASSUME WatcherInv, HandleNotice PROVE WatcherInv'
<1> USE DEF WatcherInv
<1>1. /\ notices \in Seq(Notices) /\ notices # <<>> /\ DOMAIN notices = 1..Len(notices)
      /\ notices' = Tail(notices) /\ UNCHANGED <<life, watchers, current>>
  BY WatcherElements DEF HandleNotice
<1>2. /\ notices' \in Seq(Notices) /\ Len(notices') = Len(notices) - 1
      /\ \A k \in 1..Len(notices') : notices'[k] = notices[k + 1]
      /\ Len(notices) \in Nat
  BY <1>1, HeadTailProperties, LenProperties
<1>3. DOMAIN notices' = 1..Len(notices')
  BY <1>2, LenProperties
<1>4. NoticesTrue'
  <2> SUFFICES ASSUME NEW k \in DOMAIN notices', notices'[k].type = "terminated"
               PROVE  life'[notices'[k].proc] = "gone"
    BY DEF NoticesTrue
  <2>1. k + 1 \in DOMAIN notices /\ notices'[k] = notices[k + 1]
    BY <1>1, <1>2, <1>3
  <2> QED
    BY <1>1, <2>1 DEF NoticesTrue
<1>5. Head(notices).proc \in Procs
  <2>1. Head(notices) \in Notices
    BY <1>1, HeadTailProperties, LenProperties, ElementOfSeq
  <2> QED
    BY <2>1 DEF Notices
<1>6. linked' \in [HookSessions -> Links] /\ rows' \in Seq(Rows)
  BY <1>5, HandleDetectedStep, HandleTerminatedStep DEF HandleNotice
<1>7. WatcherTypeOK'
  BY <1>1, <1>2, <1>6 DEF WatcherTypeOK, Notices, Rows, Links
<1> QED
  BY <1>1, <1>4, <1>7 DEF FlagIsCurrents, KnowsTheLiving

LEMMA WatcherInStep == ASSUME [Next]_vars PROVE [WatcherNext]_watcherVars
BY DEF Next, vars, watcherVars

LEMMA WatcherInvariant == Spec => []WatcherInv
<1>1. Init => WatcherInv
  <2> SUFFICES ASSUME Init PROVE WatcherInv
    OBVIOUS
  <2>1. /\ life \in [Procs -> {"unborn", "live"}] /\ watchers = <<>> /\ current = 0
        /\ notices = <<>> /\ rows = <<>>
        /\ linked = [s \in HookSessions |-> [pid |-> None, detached |-> FALSE]]
    BY DEF Init, WatcherInit
  <2>2. WatcherTypeOK
    <3>1. watchers \in Seq(WatcherStates) /\ notices \in Seq(Notices) /\ rows \in Seq(Rows)
      BY <2>1
    <3>2. linked \in [HookSessions -> Links]
      BY <2>1 DEF Links
    <3>3. current \in 0..Len(watchers) /\ Len(watchers) <= MaxWatchers
      BY <2>1, WatcherAssumption
    <3>4. life \in [Procs -> {"unborn", "live", "gone"}]
      BY <2>1
    <3> QED
      BY <3>1, <3>2, <3>3, <3>4 DEF WatcherTypeOK, WatcherStates, Notices, Rows, Links
  <2>3. DOMAIN watchers = {} /\ DOMAIN notices = {}
    BY <2>1
  <2> QED
    BY <2>2, <2>3 DEF WatcherInv, FlagIsCurrents, NoticesTrue
<1>2. WatcherInv /\ [Next]_vars => WatcherInv'
  <2> SUFFICES ASSUME WatcherInv, [WatcherNext]_watcherVars PROVE WatcherInv'
    BY WatcherInStep
  <2>1. ASSUME UNCHANGED watcherVars PROVE WatcherInv'
    BY <2>1 DEF watcherVars, WatcherInv, WatcherTypeOK, FlagIsCurrents, KnowsTheLiving, NoticesTrue, Pids
  <2> QED
    BY <2>1, LifeStep, StartWatcherStep, StopWatcherStep, PollStep, UpdateStep, HandleNoticeStep
       DEF WatcherNext
<1> QED
  BY <1>1, <1>2, PTL DEF Spec

\* However often the watcher is stopped and started, only the current one begins
\* another poll.
THEOREM OneLoopPolls == Spec => OneWatcherPolls
<1> DEFINE Polls == \A i \in DOMAIN watchers :
                       watchers[i].at = "idle" /\ watchers'[i].at = "update" => i = current
<1>1. WatcherInv /\ [Next]_vars => [Polls]_watcherVars
  <2> SUFFICES ASSUME WatcherInv, WatcherNext, NEW i \in DOMAIN watchers,
                      watchers[i].at = "idle", watchers'[i].at = "update"
               PROVE  i = current
    BY WatcherInStep
  <2>1. /\ watchers \in Seq(WatcherStates) /\ DOMAIN watchers = 1..Len(watchers) /\ Len(watchers) \in Nat
        /\ \A j \in DOMAIN watchers : watchers[j] \in WatcherStates
    BY WatcherElements DEF WatcherInv
  <2>2. ASSUME NEW j \in DOMAIN watchers, Poll(j) PROVE watchers[i].running
    BY <2>1, <2>2 DEF Poll, WatcherStates
  <2>3. ASSUME NEW j \in DOMAIN watchers, PollFails(j) PROVE FALSE
    BY <2>1, <2>3 DEF PollFails, WatcherStates
  <2>4. ASSUME NEW j \in DOMAIN watchers, Update(j) PROVE FALSE
    <3>1. watchers'[j].at = "idle" /\ \A k \in DOMAIN watchers \ {j} : watchers'[k] = watchers[k]
      BY <2>1, <2>4 DEF Update, Remember, WatcherStates
    <3> QED
      BY <3>1
  <2>5. ASSUME StartWatcher PROVE FALSE
    <3>1. watchers' = Append(watchers, Fresh) /\ Fresh \in WatcherStates
      BY <2>5 DEF StartWatcher, Fresh, WatcherStates
    <3>2. watchers'[i] = watchers[i]
      BY <2>1, <3>1, AppendProperties
    <3> QED
      BY <3>2
  <2>6. ASSUME StopWatcher PROVE FALSE
    BY <2>1, <2>6 DEF StopWatcher, WatcherStates, WatcherInv, WatcherTypeOK
  <2>7. ASSUME UNCHANGED watchers PROVE FALSE
    BY <2>7
  <2>8. watchers[i].running
    BY <2>2, <2>3, <2>4, <2>5, <2>6, <2>7 DEF WatcherNext, Begins, Ends, HandleNotice
  <2> QED
    BY <2>8 DEF WatcherInv, FlagIsCurrents
<1> QED
  BY <1>1, WatcherInvariant, PTL DEF Spec, OneWatcherPolls

\* A session becomes detached only when a process with its pid has ended.
THEOREM DetachedWhenGone == Spec => DetachedByExit
<1> DEFINE ByExit ==
      /\ \A s \in HookSessions : linked'[s].detached /\ ~linked[s].detached
            => \E x \in Procs : PidOf[x] = linked[s].pid /\ life[x] = "gone"
      /\ \A k \in DOMAIN rows : rows'[k].detached /\ ~rows[k].detached
            => \E x \in Procs : PidOf[x] = PidOf[rows[k].proc] /\ life[x] = "gone"
<1>1. WatcherInv /\ [Next]_vars => [ByExit]_watcherVars
  <2> SUFFICES ASSUME WatcherInv, WatcherNext PROVE ByExit
    BY WatcherInStep
  <2>1. CASE UNCHANGED <<linked, rows>>
    BY <2>1
  <2>2. CASE HandleNotice
    <3> DEFINE n == Head(notices)
    <3>1. notices \in Seq(Notices) /\ notices # <<>> /\ DOMAIN notices = 1..Len(notices)
      BY <2>2, WatcherElements DEF HandleNotice, WatcherInv
    <3>2. n \in Notices /\ n = notices[1] /\ 1 \in DOMAIN notices
      BY <3>1, HeadTailProperties, LenProperties, ElementOfSeq
    <3>3. n.proc \in Procs /\ WatcherTypeOK
      BY <3>2 DEF Notices, WatcherInv
    <3>4. CASE n.type = "detected"
      <4>1. HandleDetected(n.proc)
        BY <2>2, <3>4 DEF HandleNotice
      <4> QED
        BY <3>3, <4>1, HandleDetectedStep
    <3>5. CASE n.type = "terminated"
      <4>1. HandleTerminated(n.proc)
        BY <2>2, <3>5 DEF HandleNotice
      <4>2. life[n.proc] = "gone"
        BY <3>2, <3>5 DEF WatcherInv, NoticesTrue
      <4> HIDE DEF n
      <4>3. \A s \in HookSessions : linked'[s].detached /\ ~linked[s].detached => linked[s].pid = PidOf[n.proc]
        BY <3>3, <4>1, HandleTerminatedStep
      <4>4. \A k \in DOMAIN rows : rows'[k].detached /\ ~rows[k].detached
               => PidOf[rows[k].proc] = PidOf[n.proc]
        BY <3>3, <4>1, HandleTerminatedStep
      <4> QED
        BY <3>3, <4>2, <4>3, <4>4
    <3> QED
      BY <3>2, <3>4, <3>5 DEF Notices
  <2> QED
    BY <2>1, <2>2 DEF WatcherNext, Begins, Ends, StartWatcher, StopWatcher, Poll, PollFails, Update
<1> QED
  BY <1>1, WatcherInvariant, PTL DEF Spec, DetachedByExit
-----------------------------------------------------------------------------
\* Every variable of the three services keeps its type, and no service is started
\* more often than its bound says.
THEOREM TypeCorrect == Spec => []ServicesTypeOK
<1>1. PipeInv /\ HookServerInv /\ WatcherInv => ServicesTypeOK
  BY DEF PipeInv, HookServerInv, WatcherInv, ServicesTypeOK
<1> QED
  BY <1>1, PipeInvariant, HookServerInvariant, WatcherInvariant, PTL
=============================================================================
