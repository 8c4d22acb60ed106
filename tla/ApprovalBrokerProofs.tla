------------------------ MODULE ApprovalBrokerProofs ------------------------
(* Theorems about ApprovalBroker for any requests, tool_use_ids and transports. *)
EXTENDS ApprovalBroker, TLAPS
-----------------------------------------------------------------------------
(* The inductive invariant.                                                  *)

\* How far the handler, the channel and the agent of one request can be apart.
Shape(r) ==
    /\ pc[r] = "idle" => chan[r] = "none" /\ client[r] \in {"none", "gone"}
    /\ pc[r] # "idle" => client[r] # "none"
    /\ pc[r] = "emitted" => chan[r] = "none"
    /\ ReceiverAlive(r) => chan[r] # "none"
    /\ client[r] = "waiting" => pc[r] = "emitted" \/ ReceiverAlive(r)
    /\ client[r] \in Decisions => pc[r] = "done"

\* An entry is stored under the id of its own request.
EntryUnderOwnKey == \A k \in Keys : pending[k] # None => KeyOf[pending[k]] = k

\* A live receiver lost its sender only to a request with the same id.
ClosedOnlyByReuse ==
    \A r \in Requests :
       ReceiverAlive(r) /\ chan[r] = "closed" =>
          \E q \in Requests \ {r} : KeyOf[q] = KeyOf[r] /\ pc[q] # "idle"

IInv ==
    /\ TypeOK
    /\ \A r \in Requests : Shape(r)
    /\ EntryUnderOwnKey
    /\ ChannelOwnership
    /\ VerdictHonoured
    /\ ClosedOnlyByReuse
-----------------------------------------------------------------------------
\* The variables keep their types: every answer is a decision, every entry a
\* request.
THEOREM TypeCorrect == Spec => []TypeOK
<1> USE BrokerAssumption
<1>1. Init => TypeOK
  BY DEF Init, TypeOK
<1>2. TypeOK /\ [Next]_vars => TypeOK'
  <2> SUFFICES ASSUME TypeOK, [Next]_vars PROVE TypeOK'
    OBVIOUS
  <2> USE DEF TypeOK, Decisions
  <2>1. ASSUME NEW r \in Requests, HttpStore(r) PROVE TypeOK'
    BY <2>1 DEF HttpStore, Store
  <2>2. ASSUME NEW r \in Requests, PipeEmit(r) PROVE TypeOK'
    BY <2>2 DEF PipeEmit
  <2>3. ASSUME NEW r \in Requests, Refused(r) PROVE TypeOK'
    BY <2>3 DEF Refused
  <2>4. ASSUME NEW r \in Requests, HttpEmit(r) PROVE TypeOK'
    BY <2>4 DEF HttpEmit
  <2>5. ASSUME NEW r \in Requests, PipeStore(r) PROVE TypeOK'
    BY <2>5 DEF PipeStore, Store
  <2>6. ASSUME NEW r \in Requests, DecisionArrives(r) PROVE TypeOK'
    BY <2>6 DEF DecisionArrives, Reply
  <2>7. ASSUME NEW r \in Requests, SenderDropped(r) \/ PipeTimerFires(r) \/ PipeTimeout(r)
        PROVE TypeOK'
    BY <2>7 DEF SenderDropped, PipeTimerFires, PipeTimeout, Reply, FallbackAnswer
  <2>8. ASSUME NEW r \in Requests, ClientLeaves(r) \/ HttpDrop(r) PROVE TypeOK'
    BY <2>8 DEF ClientLeaves, HttpDrop
  <2>9. ASSUME NEW k \in Keys, NEW d \in Decisions, Submit(k, d) PROVE TypeOK'
    BY <2>9 DEF Submit
  <2>10. CASE AppExit
    BY <2>10 DEF AppExit
  <2>11. CASE AppStart
    BY <2>11 DEF AppStart
  <2>12. CASE UNCHANGED vars
    BY <2>12 DEF vars
  <2> QED
    BY <2>1, <2>2, <2>3, <2>4, <2>5, <2>6, <2>7, <2>8, <2>9, <2>10, <2>11, <2>12 DEF Next
<1> QED
  BY <1>1, <1>2, PTL DEF Spec
-----------------------------------------------------------------------------
(* Storing a sender, the step where two requests can meet under one id.      *)

\* The sender that is stored is open, the one it replaces is closed, and the
\* map still holds exactly the open ones.
LEMMA StoreOwnership ==
    ASSUME BrokerAssumption, TypeOK, EntryUnderOwnKey, ChannelOwnership,
           NEW r \in Requests, Store(r)
    PROVE  ChannelOwnership' /\ EntryUnderOwnKey'
<1> USE DEF BrokerAssumption, TypeOK, EntryUnderOwnKey, ChannelOwnership, Store
<1>1. ASSUME NEW q \in Requests PROVE (chan[q] = "open" <=> pending[KeyOf[q]] = q)'
  <2>1. CASE q = r
    BY <2>1
  <2>2. CASE q # r /\ q = pending[KeyOf[r]]
    BY <2>2
  <2>3. CASE q # r /\ q # pending[KeyOf[r]]
    BY <2>3
  <2> QED
    BY <2>1, <2>2, <2>3
<1>2. ASSUME NEW k \in Keys, pending'[k] # None PROVE KeyOf[pending'[k]] = k
  BY <1>2
<1> QED
  BY <1>1, <1>2

\* The one channel a store can close belongs to another request of the same id.
LEMMA StoreCloses ==
    ASSUME BrokerAssumption, TypeOK, EntryUnderOwnKey,
           NEW r \in Requests, Store(r), NEW q \in Requests, chan'[q] = "closed"
    PROVE  q # r /\ (chan[q] = "closed" \/ KeyOf[q] = KeyOf[r])
BY DEF BrokerAssumption, TypeOK, EntryUnderOwnKey, Store

\* A store leaves every channel but its own and the replaced one alone.
LEMMA StoreKeepsVerdicts ==
    ASSUME BrokerAssumption, TypeOK, ChannelOwnership,
           NEW r \in Requests, Store(r), NEW q \in Requests, chan'[q] \in Decisions
    PROVE  q # r /\ chan'[q] = chan[q]
BY DEF BrokerAssumption, TypeOK, Store, Decisions
-----------------------------------------------------------------------------
LEMMA InitIInv == ASSUME BrokerAssumption, Init PROVE IInv
BY DEF BrokerAssumption, Init, IInv, TypeOK, Shape, EntryUnderOwnKey, ChannelOwnership,
       VerdictHonoured, ClosedOnlyByReuse, ReceiverAlive, Decisions

\* The steps that store a sender preserve the invariant.
LEMMA StoreIInv ==
    ASSUME BrokerAssumption, IInv, TypeOK', NEW r \in Requests, HttpStore(r) \/ PipeStore(r)
    PROVE  IInv'
<1> USE BrokerAssumption DEF IInv
<1>0. Store(r) /\ pc[r] \in {"idle", "emitted"} /\ pc' = [pc EXCEPT ![r] = pc'[r]]
      /\ pc'[r] \in {"stored", "waiting"}
      /\ client' = [client EXCEPT ![r] = client'[r]] /\ chan[r] = "none"
      /\ client'[r] \in {"waiting", "gone"}
  BY DEF HttpStore, PipeStore, TypeOK, Shape, ReceiverAlive, Decisions
<1>1. ASSUME NEW q \in Requests PROVE Shape(q)'
  <2>1. CASE q = r
    BY <1>0, <2>1 DEF Shape, ReceiverAlive, TypeOK, Store, Decisions
  <2>2. CASE q # r /\ q = pending[KeyOf[r]]
    BY <1>0, <2>2 DEF Shape, ReceiverAlive, TypeOK, Store, Decisions, ChannelOwnership, EntryUnderOwnKey, BrokerAssumption
  <2>3. CASE q # r /\ q # pending[KeyOf[r]]
    BY <1>0, <2>3 DEF Shape, ReceiverAlive, TypeOK, Store, Decisions
  <2> QED BY <2>1, <2>2, <2>3
<1>2. ChannelOwnership' /\ EntryUnderOwnKey'
  BY <1>0, StoreOwnership
<1>3. ASSUME NEW q \in Requests, chan'[q] \in Decisions
      PROVE  \/ client'[q] \in {"waiting", "gone", chan'[q]}
             \/ Via[q] = "pipe" /\ client'[q] = "allow"
  <2>1. q # r /\ chan'[q] = chan[q]
    BY <1>0, <1>3, StoreKeepsVerdicts
  <2> QED
    BY <1>0, <1>3, <2>1 DEF VerdictHonoured, TypeOK
<1>4. ASSUME NEW q \in Requests, ReceiverAlive(q)', chan'[q] = "closed"
      PROVE  \E p \in Requests \ {q} : KeyOf[p] = KeyOf[q] /\ pc'[p] # "idle"
  <2>1. q # r /\ (chan[q] = "closed" \/ KeyOf[q] = KeyOf[r])
    BY <1>0, <1>4, StoreCloses
  <2>2. CASE KeyOf[q] = KeyOf[r]
    BY <1>0, <2>1, <2>2 DEF TypeOK
  <2>3. CASE chan[q] = "closed"
    BY <1>0, <1>4, <2>1, <2>3 DEF TypeOK, ReceiverAlive, ClosedOnlyByReuse
  <2> QED BY <2>1, <2>2, <2>3
<1> QED
  BY <1>1, <1>2, <1>3, <1>4 DEF VerdictHonoured, ClosedOnlyByReuse

\* submit_approval_response preserves the invariant.
LEMMA SubmitIInv ==
    ASSUME BrokerAssumption, IInv, TypeOK',
           NEW k \in Keys, NEW d \in Decisions, Submit(k, d)
    PROVE  IInv'
<1> USE BrokerAssumption DEF IInv
<1> DEFINE r == pending[k]
<1>0. r \in Requests /\ KeyOf[r] = k /\ chan[r] = "open"
  BY DEF Submit, TypeOK, EntryUnderOwnKey, ChannelOwnership, BrokerAssumption
<1>1. ASSUME NEW q \in Requests PROVE Shape(q)'
  BY <1>0 DEF Submit, Shape, TypeOK, Decisions, ReceiverAlive
<1>2. ASSUME NEW q \in Requests PROVE (chan[q] = "open" <=> pending[KeyOf[q]] = q)'
  BY <1>0 DEF Submit, TypeOK, Decisions, ChannelOwnership, EntryUnderOwnKey, BrokerAssumption
<1>3. EntryUnderOwnKey'
  BY <1>0 DEF Submit, TypeOK, EntryUnderOwnKey
<1>4. ASSUME NEW q \in Requests, chan'[q] \in Decisions
      PROVE  \/ client'[q] \in {"waiting", "gone", chan'[q]}
             \/ Via[q] = "pipe" /\ client'[q] = "allow"
  <2>1. CASE q = r
    BY <1>0, <1>4, <2>1 DEF Submit, TypeOK, Shape, ReceiverAlive, Decisions
  <2>2. CASE q # r
    BY <1>0, <1>4, <2>2 DEF Submit, TypeOK, VerdictHonoured
  <2> QED BY <2>1, <2>2
<1>5. ClosedOnlyByReuse'
  BY <1>0 DEF Submit, TypeOK, ClosedOnlyByReuse, ReceiverAlive, Decisions
<1> QED
  BY <1>1, <1>2, <1>3, <1>4, <1>5 DEF ChannelOwnership, VerdictHonoured

\* A handler that answers preserves the invariant: it touches only its own
\* handler and agent, and answers with the channel's decision when there is one,
\* unless it timed out on the pipe.
LEMMA AnswerIInv ==
    ASSUME BrokerAssumption, IInv, TypeOK', NEW r \in Requests,
           DecisionArrives(r) \/ SenderDropped(r) \/ PipeTimeout(r)
    PROVE  IInv'
<1> USE BrokerAssumption DEF IInv
<1>0. PICK d \in Decisions :
         /\ Reply(r, d)
         /\ chan[r] \in Decisions => d = chan[r] \/ (Via[r] = "pipe" /\ d = "allow")
         /\ pc[r] \in {"waiting", "timedOut"}
  BY DEF DecisionArrives, SenderDropped, PipeTimeout, FallbackAnswer, Decisions
<1>1. ASSUME NEW q \in Requests PROVE Shape(q)'
  BY <1>0 DEF Reply, Shape, ReceiverAlive, TypeOK, Decisions
<1>2. (ChannelOwnership /\ EntryUnderOwnKey)'
  BY <1>0 DEF Reply, ChannelOwnership, EntryUnderOwnKey
<1>3. VerdictHonoured'
  BY <1>0 DEF Reply, TypeOK, VerdictHonoured, Decisions
<1>4. ClosedOnlyByReuse'
  BY <1>0 DEF Reply, TypeOK, ClosedOnlyByReuse, ReceiverAlive
<1> QED
  BY <1>1, <1>2, <1>3, <1>4

\* The steps that touch neither a channel nor the map preserve the invariant.
LEMMA QuietIInv ==
    ASSUME BrokerAssumption, IInv, TypeOK', NEW r \in Requests,
           PipeEmit(r) \/ Refused(r) \/ HttpEmit(r) \/ PipeTimerFires(r)
           \/ ClientLeaves(r) \/ HttpDrop(r)
    PROVE  IInv'
<1> USE BrokerAssumption DEF IInv
<1>0. UNCHANGED <<pending, chan>>
  BY DEF PipeEmit, Refused, HttpEmit, PipeTimerFires, ClientLeaves, HttpDrop
<1>1. ASSUME NEW q \in Requests PROVE Shape(q)'
  BY <1>0 DEF PipeEmit, Refused, HttpEmit, PipeTimerFires, ClientLeaves, HttpDrop, Shape, ReceiverAlive,
              TypeOK, Decisions
<1>2. (ChannelOwnership /\ EntryUnderOwnKey)'
  BY <1>0 DEF ChannelOwnership, EntryUnderOwnKey
<1>3. VerdictHonoured'
  <2>1. \A q \in Requests : client'[q] = client[q] \/ client'[q] = "gone"
                            \/ (client'[q] = "waiting" /\ client[q] = "none")
    BY DEF PipeEmit, Refused, HttpEmit, PipeTimerFires, ClientLeaves, HttpDrop, TypeOK
  <2> QED
    BY <1>0, <2>1 DEF VerdictHonoured, Decisions
<1>4. ClosedOnlyByReuse'
  BY <1>0 DEF PipeEmit, Refused, HttpEmit, PipeTimerFires, ClientLeaves, HttpDrop, TypeOK, Shape,
              ClosedOnlyByReuse, ReceiverAlive
<1> QED
  BY <1>1, <1>2, <1>3, <1>4

LEMMA ExitIInv == ASSUME BrokerAssumption, IInv, TypeOK', AppExit PROVE IInv'
<1> USE BrokerAssumption DEF IInv
<1>1. ASSUME NEW q \in Requests PROVE Shape(q)'
  BY DEF AppExit, Shape, ReceiverAlive, TypeOK, Decisions
<1>2. (ChannelOwnership /\ EntryUnderOwnKey)'
  BY DEF AppExit, TypeOK, ChannelOwnership, EntryUnderOwnKey, BrokerAssumption
<1>3. VerdictHonoured'
  BY DEF AppExit, TypeOK, VerdictHonoured, Decisions
<1>4. ClosedOnlyByReuse'
  BY DEF AppExit, TypeOK, ClosedOnlyByReuse, ReceiverAlive
<1> QED
  BY <1>1, <1>2, <1>3, <1>4
-----------------------------------------------------------------------------
\* The invariant holds in every reachable state.
THEOREM Inductive == Spec => []IInv
<1> USE BrokerAssumption
<1>1. Init => IInv
  BY InitIInv
<1>2. IInv /\ TypeOK' /\ [Next]_vars => IInv'
  <2> SUFFICES ASSUME IInv, TypeOK', [Next]_vars PROVE IInv'
    OBVIOUS
  <2>1. ASSUME NEW r \in Requests, HttpStore(r) \/ PipeStore(r) PROVE IInv'
    BY <2>1, StoreIInv
  <2>2. ASSUME NEW r \in Requests,
               PipeEmit(r) \/ Refused(r) \/ HttpEmit(r) \/ PipeTimerFires(r)
               \/ ClientLeaves(r) \/ HttpDrop(r)
        PROVE IInv'
    BY <2>2, QuietIInv
  <2>3. ASSUME NEW r \in Requests, DecisionArrives(r) \/ SenderDropped(r) \/ PipeTimeout(r)
        PROVE IInv'
    BY <2>3, AnswerIInv
  <2>4. ASSUME NEW k \in Keys, NEW d \in Decisions, Submit(k, d) PROVE IInv'
    BY <2>4, SubmitIInv
  <2>5. CASE AppExit
    BY <2>5, ExitIInv
  <2>6. CASE AppStart \/ UNCHANGED vars
    BY <2>6 DEF AppStart, vars, IInv, TypeOK, Shape, EntryUnderOwnKey, ChannelOwnership,
                VerdictHonoured, ClosedOnlyByReuse, ReceiverAlive
  <2> QED
    BY <2>1, <2>2, <2>3, <2>4, <2>5, <2>6 DEF Next
<1> QED
  BY <1>1, <1>2, TypeCorrect, PTL DEF Spec

\* A sender is in the map exactly while its channel is open, so no live handler
\* is out of submit_approval_response's reach.
THEOREM SendersAreOwned == Spec => []ChannelOwnership
BY Inductive, PTL DEF IInv

\* A decision acknowledged to the user is the only answer its agent can get,
\* but for a denial that meets the pipe's timer.
THEOREM VerdictsAreHonoured == Spec => []VerdictHonoured
BY Inductive, PTL DEF IInv

\* A waiting handler loses its sender only to a reused tool_use_id.
THEOREM SendersLostOnlyByReuse == Spec => []SenderDroppedOnlyByReuse
<1>1. IInv => SenderDroppedOnlyByReuse
  BY DEF IInv, ClosedOnlyByReuse, SenderDroppedOnlyByReuse, ReceiverAlive
<1> QED
  BY <1>1, Inductive, PTL
-----------------------------------------------------------------------------
(* The refinement.                                                           *)

\* A step that moves at most one request's handler and agent changes at most
\* that request's status in the contract.
LEMMA StatusChanges ==
    ASSUME TypeOK, NEW r \in Requests,
           pc' = [pc EXCEPT ![r] = pc'[r]], client' = [client EXCEPT ![r] = client'[r]]
    PROVE  /\ ContractStatus' = [ContractStatus EXCEPT ![r] = ContractStatus'[r]]
           /\ ContractStatus'[r] = ContractStatus[r] => ContractStatus' = ContractStatus
<1>1. ASSUME NEW q \in Requests, q # r PROVE ContractStatus'[q] = ContractStatus[q]
  BY <1>1 DEF TypeOK, ContractStatus
<1>2. /\ ContractStatus = [q \in Requests |-> ContractStatus[q]]
      /\ ContractStatus' = [q \in Requests |-> ContractStatus'[q]]
  BY DEF ContractStatus
<1> QED
  BY <1>1, <1>2

\* Storing a sender acknowledges nothing: the new channel and the one it closes
\* are both undecided.
LEMMA StoreAcknowledgesNothing ==
    ASSUME BrokerAssumption, IInv, NEW r \in Requests, HttpStore(r) \/ PipeStore(r)
    PROVE  ContractVerdict' = ContractVerdict
<1>1. ASSUME NEW q \in Requests PROVE chan'[q] \in Decisions <=> chan[q] \in Decisions
  BY BrokerAssumption DEF IInv, TypeOK, Shape, ChannelOwnership, EntryUnderOwnKey,
     HttpStore, PipeStore, Store, Decisions
<1>2. ASSUME NEW q \in Requests, chan[q] \in Decisions PROVE chan'[q] = chan[q]
  BY <1>1, <1>2, BrokerAssumption DEF IInv, TypeOK, HttpStore, PipeStore, Store, Decisions
<1> QED
  BY <1>1, <1>2 DEF ContractVerdict

\* A decision is one of the contract's when the receiver is alive; otherwise the
\* send fails and nothing was promised.
LEMMA SubmitRefines ==
    ASSUME BrokerAssumption, IInv, NEW k \in Keys, NEW d \in Decisions, Submit(k, d)
    PROVE  Contract!Decide(pending[k], d) \/ UNCHANGED <<ContractStatus, ContractVerdict>>
<1> DEFINE r == pending[k]
<1>0. r \in Requests /\ chan[r] = "open"
  BY BrokerAssumption DEF IInv, Submit, TypeOK, EntryUnderOwnKey, ChannelOwnership
<1>1. ContractStatus' = ContractStatus
  BY DEF Submit, ContractStatus, StatusOf
<1>2. CASE ReceiverAlive(r)
  <2>1. ContractStatus[r] \in {"open", "closing", "lost"}
    BY <1>0, <1>2 DEF IInv, TypeOK, Shape, ReceiverAlive, Decisions, ContractStatus, StatusOf
  <2>2. ContractVerdict[r] = "none"
    BY <1>0 DEF ContractVerdict, Decisions
  <2>3. ContractVerdict' = [ContractVerdict EXCEPT ![r] = d]
    BY <1>0, <1>2 DEF IInv, TypeOK, Submit, ContractVerdict
  <2> QED
    BY <1>1, <2>1, <2>2, <2>3 DEF Contract!Decide
<1>3. CASE ~ReceiverAlive(r)
  <2>1. ContractVerdict' = ContractVerdict
    BY <1>0, <1>3 DEF IInv, TypeOK, Submit, ContractVerdict, Decisions
  <2> QED
    BY <1>1, <2>1
<1> QED
  BY <1>2, <1>3

\* A handler's answer is the acknowledged verdict, or the transport's fallback
\* when there is none or its time is up; to an agent that left it is no answer.
LEMMA AnswerRefines ==
    ASSUME BrokerAssumption, IInv, TypeOK', NEW r \in Requests,
           DecisionArrives(r) \/ SenderDropped(r) \/ PipeTimeout(r)
    PROVE  Contract!Answer(r) \/ Contract!FallBack(r)
           \/ UNCHANGED <<ContractStatus, ContractVerdict>>
<1>1. ContractVerdict' = ContractVerdict
  BY DEF DecisionArrives, SenderDropped, PipeTimeout, Reply, ContractVerdict
<1>2. pc'[r] = "done" /\ pc' = [pc EXCEPT ![r] = pc'[r]]
      /\ client' = [client EXCEPT ![r] = client'[r]]
  BY DEF DecisionArrives, SenderDropped, PipeTimeout, Reply, IInv, TypeOK
<1>3. ContractStatus' = [ContractStatus EXCEPT ![r] = StatusOf[client'[r]]]
  <2>1. ContractStatus'[r] = StatusOf[client'[r]]
    BY <1>2 DEF ContractStatus
  <2> QED
    BY <1>2, <2>1, StatusChanges DEF IInv
<1>4. CASE client[r] # "waiting"
  <2>1. client'[r] = client[r]
    BY <1>4 DEF DecisionArrives, SenderDropped, PipeTimeout, Reply, IInv, TypeOK
  <2>2. ContractStatus[r] = StatusOf[client[r]]
    BY <1>4 DEF ContractStatus
  <2> QED
    BY <1>1, <1>3, <2>1, <2>2 DEF ContractStatus
<1>5. CASE client[r] = "waiting" /\ DecisionArrives(r)
  <2>1. client'[r] = chan[r] /\ chan[r] \in Decisions
    BY <1>5 DEF DecisionArrives, Reply, IInv, TypeOK
  <2>2. ContractStatus[r] = "open" /\ ContractVerdict[r] = chan[r]
    BY <1>5, <2>1 DEF DecisionArrives, ContractStatus, StatusOf, ContractVerdict
  <2>3. StatusOf[chan[r]] = chan[r]
    BY <2>1 DEF StatusOf, Decisions
  <2> QED
    BY <1>1, <1>3, <2>1, <2>2, <2>3 DEF Contract!Answer, Contract!Decisions, Decisions
<1>6. CASE client[r] = "waiting" /\ (SenderDropped(r) \/ PipeTimeout(r))
  <2>1. client'[r] = FallbackAnswer(r)
    BY <1>6 DEF SenderDropped, PipeTimeout, Reply, IInv, TypeOK
  <2>2. \/ ContractStatus[r] = "closing"
        \/ ContractStatus[r] = "open" /\ ContractVerdict[r] = "none"
    BY <1>6 DEF SenderDropped, PipeTimeout, ContractStatus, StatusOf, ContractVerdict, Decisions
  <2>3. StatusOf[FallbackAnswer(r)] = FallbackAnswer(r)
    BY DEF StatusOf, FallbackAnswer
  <2> QED
    BY <1>1, <1>3, <2>1, <2>2, <2>3 DEF Contract!FallBack, Contract!FallbackAnswer, FallbackAnswer
<1> QED
  BY <1>4, <1>5, <1>6

\* The pipe's timer gives up on an undecided request, unless its agent left.
LEMMA TimerRefines ==
    ASSUME BrokerAssumption, IInv, NEW r \in Requests, PipeTimerFires(r)
    PROVE  Contract!GiveUp(r) \/ UNCHANGED <<ContractStatus, ContractVerdict>>
<1>1. ContractVerdict' = ContractVerdict
  BY DEF PipeTimerFires, ContractVerdict
<1>2. pc'[r] = "timedOut" /\ client' = client
  BY DEF PipeTimerFires, IInv, TypeOK
<1>3. /\ ContractStatus' = [ContractStatus EXCEPT ![r] = ContractStatus'[r]]
      /\ ContractStatus'[r] = ContractStatus[r] => ContractStatus' = ContractStatus
  <2>1. pc' = [pc EXCEPT ![r] = pc'[r]] /\ client' = [client EXCEPT ![r] = client'[r]]
    BY <1>2 DEF PipeTimerFires, IInv, TypeOK
  <2> QED
    BY <2>1, StatusChanges DEF IInv
<1>4. CASE client[r] = "waiting"
  <2>1. ContractStatus[r] = "open" /\ ContractStatus'[r] = "closing"
    BY <1>2, <1>4 DEF PipeTimerFires, ContractStatus, StatusOf
  <2>2. ContractVerdict[r] = "none"
    BY DEF PipeTimerFires, ContractVerdict, Decisions
  <2> QED
    BY <1>1, <1>3, <2>1, <2>2 DEF PipeTimerFires, Contract!GiveUp
<1>5. CASE client[r] # "waiting"
  BY <1>1, <1>2, <1>3, <1>5 DEF ContractStatus
<1> QED
  BY <1>4, <1>5

\* An agent that leaves is abandoned, alone.
LEMMA LeaveRefines ==
    ASSUME IInv, TypeOK', NEW r \in Requests, ClientLeaves(r) \/ Refused(r)
    PROVE  Contract!Abandon({r})
<1>1. client' = [client EXCEPT ![r] = "gone"] /\ client[r] \in {"none", "waiting"}
  BY DEF ClientLeaves, Refused
<1>2. ContractStatus[r] \in {"new", "open", "closing"} /\ ContractStatus'[r] = "lost"
  BY <1>1 DEF ContractStatus, StatusOf, IInv, TypeOK
<1>3. ContractStatus' = [q \in Requests |-> IF q \in {r} THEN "lost" ELSE ContractStatus[q]]
  <2>1. pc' = pc
    BY DEF ClientLeaves, Refused
  <2> QED
    BY <1>1, <2>1 DEF ContractStatus, StatusOf, IInv, TypeOK
<1>4. ContractVerdict' = ContractVerdict
  BY DEF ClientLeaves, Refused, ContractVerdict
<1> QED
  BY <1>2, <1>3, <1>4 DEF Contract!Abandon

\* The app's exit abandons every agent that still waits.
LEMMA ExitRefines ==
    ASSUME IInv, TypeOK', AppExit
    PROVE  Contract!Abandon({r \in Requests : client[r] = "waiting"})
<1>1. \A r \in {q \in Requests : client[q] = "waiting"} : ContractStatus[r] \in {"open", "closing"}
  BY DEF ContractStatus, StatusOf
<1>2. ContractStatus' = [r \in Requests |-> IF r \in {q \in Requests : client[q] = "waiting"}
                                            THEN "lost" ELSE ContractStatus[r]]
  BY DEF AppExit, ContractStatus, StatusOf, IInv, TypeOK
<1>3. ContractVerdict' = ContractVerdict
  BY DEF AppExit, ContractVerdict, IInv, TypeOK, Decisions
<1> QED
  BY <1>1, <1>2, <1>3 DEF Contract!Abandon

\* Every step of the broker is a step of the contract or leaves it as it was.
LEMMA StepRefines ==
    ASSUME BrokerAssumption, IInv, TypeOK', [Next]_vars
    PROVE  [Contract!Next]_(Contract!vars)
<1> USE BrokerAssumption
<1>1. ASSUME NEW r \in Requests, HttpStore(r) \/ PipeEmit(r) PROVE Contract!Ask(r)
  <2>1. /\ client[r] = "none" /\ client' = [client EXCEPT ![r] = "waiting"]
        /\ pc' = [pc EXCEPT ![r] = pc'[r]] /\ pc'[r] \in {"stored", "emitted"}
    BY <1>1 DEF HttpStore, PipeEmit, IInv, TypeOK
  <2>2. client' = [client EXCEPT ![r] = client'[r]] /\ client'[r] = "waiting"
    BY <2>1 DEF IInv, TypeOK
  <2>3. ContractStatus[r] = "new" /\ ContractStatus'[r] = "open"
    BY <2>1, <2>2 DEF ContractStatus, StatusOf
  <2>4. ContractStatus' = [ContractStatus EXCEPT ![r] = "open"]
    BY <2>1, <2>2, <2>3, StatusChanges DEF IInv
  <2>5. ContractVerdict' = ContractVerdict
    BY <1>1, StoreAcknowledgesNothing DEF PipeEmit, ContractVerdict
  <2> QED
    BY <2>3, <2>4, <2>5 DEF Contract!Ask
<1>2. ASSUME NEW r \in Requests, HttpEmit(r) \/ PipeStore(r) \/ HttpDrop(r)
      PROVE UNCHANGED Contract!vars
  <2>1. /\ pc' = [pc EXCEPT ![r] = pc'[r]] /\ pc[r] # "timedOut" /\ pc'[r] # "timedOut"
        /\ client' = client
    BY <1>2 DEF HttpEmit, PipeStore, HttpDrop, IInv, TypeOK
  <2>2. client' = [client EXCEPT ![r] = client'[r]]
    BY <2>1 DEF IInv, TypeOK
  <2>3. ContractStatus'[r] = ContractStatus[r]
    BY <2>1 DEF ContractStatus
  <2>4. ContractStatus' = ContractStatus
    BY <2>1, <2>2, <2>3, StatusChanges DEF IInv
  <2>5. ContractVerdict' = ContractVerdict
    BY <1>2, StoreAcknowledgesNothing DEF HttpEmit, HttpDrop, ContractVerdict
  <2> QED
    BY <2>4, <2>5 DEF Contract!vars
<1>3. ASSUME NEW r \in Requests, PipeTimerFires(r) PROVE [Contract!Next]_(Contract!vars)
  BY <1>3, TimerRefines DEF Contract!Next, Contract!vars
<1>4. CASE AppStart \/ UNCHANGED vars
  BY <1>4 DEF AppStart, vars, ContractStatus, StatusOf, ContractVerdict, Contract!vars
<1>5. ASSUME NEW r \in Requests, DecisionArrives(r) \/ SenderDropped(r) \/ PipeTimeout(r)
      PROVE  [Contract!Next]_(Contract!vars)
  BY <1>5, AnswerRefines DEF Contract!Next, Contract!vars
<1>6. ASSUME NEW r \in Requests, ClientLeaves(r) \/ Refused(r) PROVE Contract!Next
  BY <1>6, LeaveRefines DEF Contract!Next
<1>7. ASSUME NEW k \in Keys, NEW d \in Decisions, Submit(k, d)
      PROVE  [Contract!Next]_(Contract!vars)
  <2>1. pending[k] \in Requests
    BY <1>7 DEF Submit, IInv, TypeOK
  <2> QED
    BY <1>7, <2>1, SubmitRefines DEF Contract!Next, Contract!vars, Contract!Decisions, Decisions
<1>8. CASE AppExit
  <2>1. {r \in Requests : client[r] = "waiting"} \in SUBSET Requests
    OBVIOUS
  <2> QED
    BY <1>8, <2>1, ExitRefines DEF Contract!Next
<1> QED
  BY <1>1, <1>2, <1>3, <1>4, <1>5, <1>6, <1>7, <1>8 DEF Next, Contract!Next

\* The broker implements the contract, for every set of requests and however
\* their tool_use_ids collide.
THEOREM BrokerImplementsContract == Spec => ImplementsContract
<1> USE BrokerAssumption
<1>1. Init => Contract!Init
  BY DEF Init, Contract!Init, ContractStatus, StatusOf, ContractVerdict, Decisions
<1>2. IInv /\ TypeOK' /\ [Next]_vars => [Contract!Next]_(Contract!vars)
  BY StepRefines
<1> QED
  BY <1>1, <1>2, Inductive, TypeCorrect, PTL DEF Spec, ImplementsContract, Contract!Spec
=============================================================================
