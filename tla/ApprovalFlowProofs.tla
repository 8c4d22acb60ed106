------------------------- MODULE ApprovalFlowProofs -------------------------
(* Theorems about the approval flow, for any requests, sessions and bounds.   *)
EXTENDS ApprovalFlow, SubsequenceProofs, TLAPS

\* The broker's own theorems: its variables are some of the flow's.
BP == INSTANCE ApprovalBrokerProofs
-----------------------------------------------------------------------------
\* Every step of the flow is a step of the broker or none.
LEMMA FlowStep == ASSUME [Next]_vars PROVE [B!Next]_brokerVars
<1>1. ASSUME NEW r \in Requests, Silent(r) \/ Announce(r) \/ Decided(r) PROVE B!Next
  BY <1>1 DEF Silent, Announce, Decided, B!Next
<1>2. ASSUME NEW r \in Requests, NEW d \in B!Decisions, Execute(r, d) PROVE [B!Next]_brokerVars
  <2>1. KeyOf[r] \in Keys
    BY FlowAssumption
  <2> QED
    BY <1>2, <2>1 DEF Execute, B!Next
<1>3. ASSUME NEW r \in Requests, NEW d \in B!Decisions, Click(r, d) \/ Handled(r, d) \/ Expire(r)
      PROVE UNCHANGED brokerVars
  BY <1>3 DEF Click, Handled, Expire
<1>4. ASSUME NEW r \in Requests, Expire(r) PROVE UNCHANGED brokerVars
  BY <1>4 DEF Expire
<1>5. ASSUME NEW s \in Sessions, OtherHook(s) PROVE UNCHANGED brokerVars
  BY <1>5 DEF OtherHook
<1>6. HandleEvent \/ Look => UNCHANGED brokerVars
  BY DEF HandleEvent, Look
<1>7. UNCHANGED vars => UNCHANGED brokerVars
  BY DEF vars
<1> QED
  BY <1>1, <1>2, <1>3, <1>4, <1>5, <1>6, <1>7 DEF Next

\* Whatever the overlay does with events and commands, it only ever makes the broker
\* take its own steps.
THEOREM FlowRunsBroker == Spec => B!Spec
<1>1. Init => B!Init
  BY DEF Init
<1>3. [Next]_vars => [B!Next]_B!vars
  BY FlowStep DEF brokerVars, B!vars
<1> QED
  BY <1>1, <1>3, PTL DEF Spec, B!Spec

\* The two instances of the broker are the same specification.
LEMMA SameBroker == B!Spec => BP!Spec
<1>1. B!Init => BP!Init
  BY DEF B!Init, BP!Init
<1>2. [B!Next]_B!vars => [BP!Next]_BP!vars
  BY DEF B!Next, BP!Next, B!vars, BP!vars, B!Decisions, BP!Decisions, 
     B!HttpStore, BP!HttpStore, B!Store, BP!Store, B!HttpEmit, BP!HttpEmit,
     B!PipeEmit, BP!PipeEmit, B!PipeStore, BP!PipeStore, 
     B!ReceiverAlive, BP!ReceiverAlive, B!Submit, BP!Submit,
     B!Reply, BP!Reply, B!DecisionArrives, BP!DecisionArrives,
     B!FallbackAnswer, BP!FallbackAnswer, B!SenderDropped, BP!SenderDropped,
     B!PipeTimerFires, BP!PipeTimerFires, B!PipeTimeout, BP!PipeTimeout,
     B!ClientLeaves, BP!ClientLeaves, B!HttpDrop, BP!HttpDrop, B!Refused, BP!Refused,
     B!AppExit, BP!AppExit, B!AppStart, BP!AppStart
<1> QED
  BY <1>1, <1>2, PTL DEF B!Spec, BP!Spec

LEMMA FlowKeepsBroker == Spec => []BP!IInv
<1>0. BP!BrokerAssumption
  BY FlowAssumption DEF BP!BrokerAssumption
<1>1. BP!Spec => []BP!IInv
  BY <1>0, BP!Inductive, PTL
<1> QED
  BY <1>1, SameBroker, FlowRunsBroker, PTL

\* What the broker guarantees alone it guarantees to an overlay that answers late and
\* twice: a sender is in the map while its channel is open, an acknowledged
\* verdict is the one the agent gets, and only reuse of an id takes a sender away.
THEOREM BrokerIsSafe ==
    Spec => [](B!ChannelOwnership /\ B!VerdictHonoured /\ B!SenderDroppedOnlyByReuse)
<1>1. BP!IInv => BP!ChannelOwnership /\ BP!VerdictHonoured /\ BP!SenderDroppedOnlyByReuse
  BY DEF BP!IInv, BP!SenderDroppedOnlyByReuse, BP!ClosedOnlyByReuse, BP!ReceiverAlive
<1>2. /\ BP!ChannelOwnership => B!ChannelOwnership
      /\ BP!VerdictHonoured => B!VerdictHonoured
      /\ BP!SenderDroppedOnlyByReuse => B!SenderDroppedOnlyByReuse
  BY DEF BP!ChannelOwnership, B!ChannelOwnership, BP!VerdictHonoured, B!VerdictHonoured,
         BP!SenderDroppedOnlyByReuse, B!SenderDroppedOnlyByReuse, B!Decisions, BP!Decisions
<1> QED
  BY <1>1, <1>2, FlowKeepsBroker, PTL

\* The flow as a whole keeps the contract with the agents.
THEOREM FlowImplementsContract == Spec => BP!ImplementsContract
<1>1. BP!BrokerAssumption
  BY FlowAssumption DEF BP!BrokerAssumption
<1>2. BP!Spec => BP!ImplementsContract
  BY <1>1, BP!BrokerImplementsContract, PTL
<1> QED
  BY <1>2, SameBroker, FlowRunsBroker, PTL
-----------------------------------------------------------------------------
(* The queue of cards.                                                       *)

\* The index is in the queue, or at 0 when there is none.
InQueue(s, i) == i \in Nat /\ IF s = <<>> THEN i = 0 ELSE i < Len(s)

OneCardPerId(s) == \A i, j \in DOMAIN s : KeyOf[s[i]] = KeyOf[s[j]] => i = j

GoodQueue(s, i) == s \in Seq(Requests) /\ InQueue(s, i) /\ OneCardPerId(s)

QueueInv ==
    /\ GoodQueue(cards, idx)
    /\ minimized \in BOOLEAN /\ collapsed \in BOOLEAN

LEMMA QueueInvMeans == QueueInv => QueueTypeOK /\ QueueWellFormed
<1> SUFFICES ASSUME QueueInv PROVE QueueTypeOK /\ QueueWellFormed
  OBVIOUS
<1>1. cards \in Seq(Requests) /\ DOMAIN cards = 1..Len(cards)
  BY LenProperties DEF QueueInv, GoodQueue
<1> QED
  BY <1>1 DEF QueueInv, GoodQueue, InQueue, OneCardPerId, QueueTypeOK, QueueWellFormed, Current, CurrentOf

\* An index brought back into a queue is in it.
LEMMA AtMostInQueue ==
    ASSUME NEW s \in Seq(Requests), NEW i \in Nat
    PROVE  InQueue(s, AtMost(i, s))
<1>1. Len(s) \in Nat /\ (s # <<>> => Len(s) > 0)
  BY LenProperties, EmptySeq
<1> QED
  BY <1>1 DEF InQueue, AtMost

\* A queue without one of its cards.
LEMMA RemoveAtProperties ==
    ASSUME NEW S, NEW s \in Seq(S), NEW i \in 1..Len(s)
    PROVE  /\ RemoveAt(s, i) \in Seq(S) /\ Len(RemoveAt(s, i)) = Len(s) - 1
           /\ \A j \in 1..(Len(s) - 1) : RemoveAt(s, i)[j] = IF j < i THEN s[j] ELSE s[j + 1]
<1> DEFINE a == SubSeq(s, 1, i - 1)
           b == SubSeq(s, i + 1, Len(s))
<1>1. Len(s) \in Nat /\ \A j \in 1..Len(s) : s[j] \in S
  BY LenProperties, ElementOfSeq
<1>2. i \in Int /\ i - 1 \in Int /\ i + 1 \in Int /\ Len(s) \in Int
  BY <1>1
<1>3. /\ \A j \in 1..(i - 1) : s[j] \in S
      /\ \A j \in (i + 1)..Len(s) : s[j] \in S
  BY <1>1
<1>4. a \in Seq(S) /\ Len(a) = i - 1 /\ \A j \in 1..(i - 1) : a[j] = s[j]
  <2>1. /\ a \in Seq(S)
        /\ Len(a) = IF 1 <= i - 1 THEN i - 1 - 1 + 1 ELSE 0
        /\ \A j \in 1..(i - 1 - 1 + 1) : a[j] = s[1 + j - 1]
    BY <1>2, <1>3, SubSeqProperties
  <2> QED
    BY <1>1, <1>2, <2>1
<1>5. b \in Seq(S) /\ Len(b) = Len(s) - i /\ \A j \in 1..(Len(s) - i) : b[j] = s[i + j]
  <2>1. /\ b \in Seq(S)
        /\ Len(b) = IF i + 1 <= Len(s) THEN Len(s) - (i + 1) + 1 ELSE 0
        /\ \A j \in 1..(Len(s) - (i + 1) + 1) : b[j] = s[i + 1 + j - 1]
    BY <1>2, <1>3, SubSeqProperties
  <2> QED
    BY <1>1, <1>2, <2>1
<1> HIDE DEF a, b
<1>6. /\ a \o b \in Seq(S) /\ Len(a \o b) = Len(a) + Len(b)
      /\ \A j \in 1..(Len(a) + Len(b)) : (a \o b)[j] = IF j <= Len(a) THEN a[j] ELSE b[j - Len(a)]
  BY <1>4, <1>5, ConcatProperties
<1>7. RemoveAt(s, i) = a \o b
  BY DEF RemoveAt, a, b
<1>8. \A j \in 1..(Len(s) - 1) : (a \o b)[j] = IF j < i THEN s[j] ELSE s[j + 1]
  <2> SUFFICES ASSUME NEW j \in 1..(Len(s) - 1)
               PROVE  (a \o b)[j] = IF j < i THEN s[j] ELSE s[j + 1]
    OBVIOUS
  <2>1. (a \o b)[j] = IF j <= i - 1 THEN a[j] ELSE b[j - (i - 1)]
    BY <1>1, <1>2, <1>4, <1>5, <1>6
  <2>2. CASE j < i
    BY <1>1, <1>2, <1>4, <2>1, <2>2
  <2>3. CASE ~(j < i)
    <3>1. j - (i - 1) \in 1..(Len(s) - i) /\ i + (j - (i - 1)) = j + 1
      BY <1>1, <1>2, <2>3
    <3>2. b[j - (i - 1)] = s[i + (j - (i - 1))]
      BY <1>5, <3>1
    <3> QED
      BY <1>1, <1>2, <2>1, <2>3, <3>1, <3>2
  <2> QED
    BY <2>2, <2>3
<1> QED
  BY <1>1, <1>2, <1>4, <1>5, <1>6, <1>7, <1>8

LEMMA RemoveAtKeepsIds ==
    ASSUME NEW s \in Seq(Requests), OneCardPerId(s), NEW i \in 1..Len(s)
    PROVE  OneCardPerId(RemoveAt(s, i))
<1> DEFINE u == RemoveAt(s, i)
           from(j) == IF j < i THEN j ELSE j + 1
<1>1. Len(s) \in Nat /\ DOMAIN s = 1..Len(s)
  BY LenProperties
<1>2. u \in Seq(Requests) /\ Len(u) = Len(s) - 1 /\ \A j \in 1..(Len(s) - 1) : u[j] = s[from(j)]
  BY RemoveAtProperties
<1>3. DOMAIN u = 1..(Len(s) - 1)
  BY <1>2, LenProperties
<1>4. /\ \A j \in 1..(Len(s) - 1) : from(j) \in 1..Len(s)
      /\ \A j, k \in 1..(Len(s) - 1) : from(j) = from(k) => j = k
  BY <1>1
<1> HIDE DEF u, from
<1>5. OneCardPerId(u)
  BY <1>1, <1>2, <1>3, <1>4 DEF OneCardPerId
<1> QED
  BY <1>5 DEF u

\* Removing by session leaves the others' cards, each once.
LEMMA OfOthersProperties ==
    ASSUME GoodQueue(cards, idx), NEW t \in Sessions
    PROVE  OfOthers(t) \in Seq(Requests) /\ OneCardPerId(OfOthers(t))
<1> DEFINE I == {i \in DOMAIN cards : SessionOf[cards[i]] # t}
           u == Keep(cards, I)
<1>1. cards \in Seq(Requests) /\ I \in SUBSET DOMAIN cards
  BY DEF GoodQueue
<1> HIDE DEF I
<1>2. /\ u \in Seq(Requests) /\ DOMAIN u = 1..Cardinality(I)
      /\ \A j \in 1..Cardinality(I) : Origin(I)[j] \in I /\ u[j] = cards[Origin(I)[j]]
      /\ \A j, k \in 1..Cardinality(I) : Origin(I)[j] = Origin(I)[k] => j = k
  BY <1>1, KeepKeeps
<1>3. OneCardPerId(u)
  BY <1>1, <1>2 DEF OneCardPerId, GoodQueue
<1> QED
  BY <1>2, <1>3 DEF OfOthers, I

\* Every handler that touches the queue leaves it well formed.
LEMMA AddKeepsQueue ==
    ASSUME QueueInv, NEW r \in Requests, AddPendingApproval(r)
    PROVE  QueueInv'
<1>1. /\ cards \in Seq(Requests) /\ DOMAIN cards = 1..Len(cards) /\ Len(cards) \in Nat
      /\ \A j \in DOMAIN cards : cards[j] \in Requests
      /\ (cards = <<>> => idx = 0) /\ (cards # <<>> => idx < Len(cards)) /\ idx \in Nat
  BY LenProperties, ElementOfSeq DEF QueueInv, GoodQueue, InQueue
<1>2. CASE UNCHANGED queueVars
  BY <1>2 DEF queueVars, QueueInv, GoodQueue, InQueue, OneCardPerId
<1>3. CASE /\ \A c \in ToSet(cards) : KeyOf[c] # KeyOf[r]
           /\ Show(Append(cards, r), IF minimized THEN 0 ELSE idx)
           /\ minimized' = FALSE
  <2> DEFINE u == Append(cards, r)
             i == IF minimized THEN 0 ELSE idx
  <2>1. /\ u \in Seq(Requests) /\ u # <<>> /\ Len(u) = Len(cards) + 1
        /\ \A j \in 1..Len(cards) : u[j] = cards[j]
        /\ u[Len(cards) + 1] = r /\ DOMAIN u = 1..Len(u)
    <3>1. /\ u \in Seq(Requests) /\ u # <<>> /\ Len(u) = Len(cards) + 1
          /\ \A j \in 1..Len(cards) : u[j] = cards[j]
          /\ u[Len(cards) + 1] = r
      BY <1>1, AppendProperties
    <3> QED
      BY <3>1, LenProperties
  <2>2. \A j \in DOMAIN cards : KeyOf[cards[j]] # KeyOf[r]
    BY <1>3 DEF ToSet
  <2>3. i \in Nat /\ i < Len(cards) + 1
    <3>1. Len(cards) = 0 => cards = <<>>
      BY <1>1, EmptySeq
    <3> QED
      BY <1>1, <3>1 DEF QueueInv
  <2>4. cards' = u /\ idx' = i /\ collapsed' \in BOOLEAN /\ minimized' = FALSE
    BY <1>3 DEF Show, QueueInv
  <2> HIDE DEF u, i
  <2>5. OneCardPerId(u)
    <3> SUFFICES ASSUME NEW j \in DOMAIN u, NEW k \in DOMAIN u, KeyOf[u[j]] = KeyOf[u[k]]
                 PROVE  j = k
      BY DEF OneCardPerId
    <3>1. CASE j \in DOMAIN cards /\ k \in DOMAIN cards
      BY <1>1, <2>1, <3>1 DEF QueueInv, GoodQueue, OneCardPerId
    <3>2. CASE j \in DOMAIN cards /\ k = Len(cards) + 1
      BY <1>1, <2>1, <2>2, <3>2
    <3>3. CASE j = Len(cards) + 1 /\ k \in DOMAIN cards
      BY <1>1, <2>1, <2>2, <3>3
    <3> QED
      BY <1>1, <2>1, <3>1, <3>2, <3>3
  <2>6. InQueue(u, i)
    BY <2>1, <2>3 DEF InQueue
  <2> QED
    BY <2>1, <2>4, <2>5, <2>6 DEF QueueInv, GoodQueue, InQueue, OneCardPerId
<1> QED
  BY <1>2, <1>3 DEF AddPendingApproval

\* What the three removals do.
LEMMA ShowKeepsQueue ==
    ASSUME NEW s, NEW i, GoodQueue(s, i), Show(s, i), UNCHANGED minimized, QueueInv
    PROVE  QueueInv'
BY DEF Show, QueueInv, GoodQueue, InQueue, OneCardPerId

LEMMA RemoveCurrentKeepsQueue ==
    ASSUME QueueInv, RemoveCurrentApproval, UNCHANGED minimized
    PROVE  QueueInv'
<1>1. CASE UNCHANGED <<cards, idx, collapsed>>
  BY <1>1 DEF QueueInv, GoodQueue, InQueue, OneCardPerId
<1>2. CASE Current # {}
  <2> DEFINE rest == RemoveAt(cards, idx + 1)
  <2>1. cards \in Seq(Requests) /\ Len(cards) \in Nat /\ idx \in Nat /\ idx < Len(cards)
    BY <1>2, LenProperties DEF QueueInv, GoodQueue, InQueue, Current, CurrentOf
  <2>2. idx + 1 \in 1..Len(cards)
    BY <2>1
  <2>3. rest \in Seq(Requests) /\ OneCardPerId(rest)
    BY <2>1, <2>2, RemoveAtProperties, RemoveAtKeepsIds DEF QueueInv, GoodQueue
  <2>4. Show(rest, AtMost(idx, rest))
    BY <1>2 DEF RemoveCurrentApproval
  <2>5. GoodQueue(rest, AtMost(idx, rest))
    BY <2>1, <2>3, AtMostInQueue DEF GoodQueue
  <2> QED
    BY <2>4, <2>5, ShowKeepsQueue
<1> QED
  BY <1>1, <1>2 DEF RemoveCurrentApproval

LEMMA RemoveByIdKeepsQueue ==
    ASSUME QueueInv, NEW k, RemoveApprovalByToolUseId(k), UNCHANGED minimized
    PROVE  QueueInv'
<1> DEFINE I == {j \in 1..Len(cards) : KeyOf[cards[j]] = k}
           i == SelectInSeq(cards, LAMBDA c : KeyOf[c] = k)
           rest == RemoveAt(cards, i)
<1>1. /\ cards \in Seq(Requests) /\ Len(cards) \in Nat /\ idx \in Nat /\ DOMAIN cards = 1..Len(cards)
      /\ (cards # <<>> => idx < Len(cards))
  BY LenProperties DEF QueueInv, GoodQueue, InQueue
<1>2. CASE i = 0
  BY <1>2 DEF RemoveApprovalByToolUseId, QueueInv, GoodQueue, InQueue, OneCardPerId
<1>3. CASE i # 0
  <2>1. i = Min(I) /\ I # {}
    BY <1>3 DEF SelectInSeq
  <2>2. PICK m \in I : TRUE
    BY <2>1
  <2>3. \A j \in I : j = m
    BY <1>1 DEF QueueInv, GoodQueue, OneCardPerId
  <2>4. m \in 1..Len(cards) /\ I = {m}
    BY <2>2, <2>3
  <2>5. Min({m}) = m
    BY <1>1, <2>4 DEF Min
  <2>6. Show(rest, IF i - 1 < idx THEN idx - 1 ELSE AtMost(idx, rest))
    BY <1>3 DEF RemoveApprovalByToolUseId
  <2> HIDE DEF i, I
  <2>7. i \in 1..Len(cards) /\ i \in Nat
    BY <1>1, <2>1, <2>4, <2>5
  <2>8. /\ rest \in Seq(Requests) /\ OneCardPerId(rest) /\ Len(rest) = Len(cards) - 1
    BY <1>1, <2>7, RemoveAtProperties, RemoveAtKeepsIds DEF QueueInv, GoodQueue
  <2>9. CASE i - 1 < idx
    <3>1. cards # <<>>
      BY <1>1, <2>7, EmptySeq
    <3>2. idx - 1 \in Nat /\ idx - 1 < Len(rest)
      BY <1>1, <2>7, <2>8, <2>9, <3>1
    <3>3. rest # <<>>
      BY <3>2, <2>8, EmptySeq
    <3>4. GoodQueue(rest, idx - 1)
      BY <2>8, <3>2, <3>3 DEF GoodQueue, InQueue
    <3> QED
      BY <2>6, <2>9, <3>4, ShowKeepsQueue
  <2>10. CASE ~(i - 1 < idx)
    <3>1. GoodQueue(rest, AtMost(idx, rest))
      BY <1>1, <2>8, AtMostInQueue DEF GoodQueue
    <3> QED
      BY <2>6, <2>10, <3>1, ShowKeepsQueue
  <2> QED
    BY <2>9, <2>10
<1> QED
  BY <1>2, <1>3

LEMMA RemoveBySessionKeepsQueue ==
    ASSUME QueueInv, NEW t \in Sessions, RemoveApprovalsBySessionId(t), UNCHANGED minimized
    PROVE  QueueInv'
<1> DEFINE rest == OfOthers(t)
<1>1. CASE UNCHANGED <<cards, idx, collapsed>>
  BY <1>1 DEF QueueInv, GoodQueue, InQueue, OneCardPerId
<1>2. CASE Show(rest, AtMost(idx, rest))
  <2>1. rest \in Seq(Requests) /\ OneCardPerId(rest) /\ idx \in Nat
    BY OfOthersProperties DEF QueueInv, GoodQueue, InQueue
  <2>2. GoodQueue(rest, AtMost(idx, rest))
    BY <2>1, AtMostInQueue DEF GoodQueue
  <2> QED
    BY <1>2, <2>2, ShowKeepsQueue
<1> QED
  BY <1>1, <1>2 DEF RemoveApprovalsBySessionId

LEMMA LookKeepsQueue == ASSUME QueueInv, UserLooks PROVE QueueInv'
<1>1. ASSUME Navigate PROVE QueueInv'
  <2>1. PICK i \in {idx + 1} \cup (IF idx > 0 THEN {idx - 1} ELSE {}) : i < Len(cards) /\ Show(cards, i)
    BY <1>1 DEF Navigate
  <2>2. i \in Nat /\ Len(cards) \in Nat /\ cards \in Seq(Requests)
    BY LenProperties DEF QueueInv, GoodQueue, InQueue
  <2>3. cards # <<>>
    BY <2>1, <2>2, EmptySeq
  <2>4. GoodQueue(cards, i)
    BY <2>1, <2>2, <2>3 DEF QueueInv, GoodQueue, InQueue
  <2> QED
    BY <1>1, <2>1, <2>4, ShowKeepsQueue DEF Navigate
<1>2. ASSUME MinimizeApprovalPanel \/ Toggle PROVE QueueInv'
  BY <1>2 DEF MinimizeApprovalPanel, Toggle, QueueInv, GoodQueue, InQueue, OneCardPerId
<1>3. ASSUME RestoreApprovalPanel PROVE QueueInv'
  <2>1. cards # <<>> /\ cards \in Seq(Requests) /\ Len(cards) \in Nat
    BY <1>3, LenProperties DEF RestoreApprovalPanel, QueueInv, GoodQueue
  <2>2. 0 \in Nat /\ 0 < Len(cards)
    BY <2>1, EmptySeq
  <2>3. cards' = cards /\ idx' = 0 /\ collapsed' \in BOOLEAN /\ minimized' = FALSE
    BY <1>3 DEF RestoreApprovalPanel, Show, QueueInv
  <2> QED
    BY <2>1, <2>2, <2>3 DEF QueueInv, GoodQueue, InQueue, OneCardPerId
<1> QED
  BY <1>1, <1>2, <1>3 DEF UserLooks

\* The cards are those there were, and the one that is added.
LEMMA CardsComeFrom ==
    ASSUME QueueInv, NEW S \in SUBSET Requests, cards \in Seq(S),
           \/ \E r \in S : AddPendingApproval(r)
           \/ RemoveCurrentApproval
           \/ \E k : RemoveApprovalByToolUseId(k)
           \/ \E t \in Sessions : RemoveApprovalsBySessionId(t)
           \/ UserLooks
           \/ UNCHANGED cards
    PROVE  cards' \in Seq(S)
<1>1. /\ cards \in Seq(S) /\ Len(cards) \in Nat /\ idx \in Nat /\ DOMAIN cards = 1..Len(cards)
  BY LenProperties DEF QueueInv, GoodQueue, InQueue
<1>2. ASSUME NEW r \in S, AddPendingApproval(r) PROVE cards' \in Seq(S)
  <2>1. Append(cards, r) \in Seq(S)
    BY <1>1, AppendProperties
  <2> QED
    BY <1>1, <1>2, <2>1 DEF AddPendingApproval, Show, queueVars
<1>3. ASSUME RemoveCurrentApproval PROVE cards' \in Seq(S)
  <2>1. Current # {} => idx + 1 \in 1..Len(cards)
    BY <1>1 DEF Current, CurrentOf
  <2>2. Current # {} => RemoveAt(cards, idx + 1) \in Seq(S)
    BY <1>1, <2>1, RemoveAtProperties
  <2> QED
    BY <1>1, <1>3, <2>2 DEF RemoveCurrentApproval, Show
<1>4. ASSUME NEW k, RemoveApprovalByToolUseId(k) PROVE cards' \in Seq(S)
  <2> DEFINE I == {j \in 1..Len(cards) : KeyOf[cards[j]] = k}
             i == SelectInSeq(cards, LAMBDA c : KeyOf[c] = k)
  <2>1. CASE UNCHANGED cards
    BY <1>1, <2>1
  <2>2. CASE i # 0 /\ cards' = RemoveAt(cards, i)
    <3>1. i = Min(I) /\ I # {}
      BY <2>2 DEF SelectInSeq
    <3>2. PICK m \in I : TRUE
      BY <3>1
    <3>3. I = {m} /\ m \in 1..Len(cards)
      BY <1>1, <3>2 DEF QueueInv, GoodQueue, OneCardPerId
    <3>4. Min({m}) = m
      BY <1>1, <3>3 DEF Min
    <3>5. cards' = RemoveAt(cards, i)
      BY <2>2
    <3> HIDE DEF i, I
    <3>6. i \in 1..Len(cards)
      BY <3>1, <3>3, <3>4
    <3>7. RemoveAt(cards, i) \in Seq(S)
      BY <1>1, <3>6, RemoveAtProperties
    <3> QED
      BY <3>5, <3>7
  <2> QED
    BY <1>4, <2>1, <2>2 DEF RemoveApprovalByToolUseId, Show
<1>5. ASSUME NEW t \in Sessions, RemoveApprovalsBySessionId(t) PROVE cards' \in Seq(S)
  <2>1. OfOthers(t) \in Seq(S)
    <3> DEFINE I == {j \in DOMAIN cards : SessionOf[cards[j]] # t}
    <3>1. I \in SUBSET DOMAIN cards
      OBVIOUS
    <3>2. OfOthers(t) = Keep(cards, I)
      BY DEF OfOthers
    <3> HIDE DEF I
    <3> QED
      BY <1>1, <3>1, <3>2, KeepKeeps
  <2> QED
    BY <1>1, <1>5, <2>1 DEF RemoveApprovalsBySessionId, Show
<1>6. ASSUME UserLooks PROVE cards' = cards
  BY <1>6 DEF UserLooks, Navigate, MinimizeApprovalPanel, RestoreApprovalPanel, Toggle, Show
<1> QED
  BY <1>1, <1>2, <1>3, <1>4, <1>5, <1>6
-----------------------------------------------------------------------------
(* The flow.                                                                 *)

\* What the overlay was told of: whatever it holds and sends back is among it.
Announced == {r \in Requests : KeyOf[r] \in announced}

UiTypeOK ==
    /\ events \in Seq(Events)
    /\ uiWaiting \subseteq Sessions
    /\ sent \subseteq Answers
    /\ accepted \subseteq Answers
    /\ activity \in 0..MaxActivity

\* The overlay knows only requests that were announced, and the app runs.
HeardOf ==
    /\ up
    /\ \A k \in DOMAIN events : events[k].type = "request" => events[k].of \in Announced
    /\ cards \in Seq(Announced)
    /\ \A r \in Requests, d \in B!Decisions : <<r, d>> \in sent => r \in Announced

FlowInv == BP!IInv /\ QueueInv /\ UiTypeOK /\ HeardOf

\* Requests stay announced, and the app stays up.
LEMMA AnnouncedGrows ==
    ASSUME UiTypeOK, [Next]_vars, up
    PROVE  announced \subseteq announced' /\ up'
<1>1. ASSUME NEW r \in Requests, Silent(r) \/ Announce(r) \/ Decided(r)
      PROVE announced \subseteq announced' /\ up'
  BY <1>1 DEF Silent, Announce, Decided, B!HttpStore, B!PipeStore, B!SenderDropped,
     B!PipeTimerFires, B!PipeTimeout, B!ClientLeaves, B!HttpDrop, B!HttpEmit, B!PipeEmit,
     B!DecisionArrives, B!Reply
<1>2. ASSUME NEW r \in Requests, NEW d \in B!Decisions, Execute(r, d)
      PROVE announced \subseteq announced' /\ up'
  BY <1>2 DEF Execute, B!Submit, brokerVars
<1>3. ASSUME UNCHANGED brokerVars PROVE announced \subseteq announced' /\ up'
  BY <1>3 DEF brokerVars
<1> QED
  BY <1>1, <1>2, <1>3 DEF Next, Click, Handled, Expire, OtherHook, HandleEvent, Look, vars

\* What one event adds to those that wait.
LEMMA EmitKeeps ==
    ASSUME UiTypeOK, NEW type, NEW of, [type |-> type, of |-> of] \in Events, Emit(type, of),
           HeardOf, announced \subseteq announced', type = "request" => of \in Announced'
    PROVE  /\ events' \in Seq(Events)
           /\ \A k \in DOMAIN events' : events'[k].type = "request" => events'[k].of \in Announced'
<1> DEFINE e == [type |-> type, of |-> of]
<1>1. /\ events \in Seq(Events) /\ DOMAIN events = 1..Len(events) /\ Len(events) \in Nat
      /\ events' = Append(events, e) /\ e.type = type /\ e.of = of
  BY LenProperties DEF UiTypeOK, Emit
<1> HIDE DEF e
<1>2. e \in Events
  BY DEF e
<1>3. /\ events' \in Seq(Events) /\ Len(events') = Len(events) + 1
      /\ \A k \in 1..Len(events) : events'[k] = events[k]
      /\ events'[Len(events) + 1] = e
  BY <1>1, <1>2, AppendProperties
<1>4. DOMAIN events' = 1..(Len(events) + 1)
  BY <1>3, LenProperties
<1>5. Announced \subseteq Announced'
  BY DEF Announced
<1>6. ASSUME NEW k \in DOMAIN events', events'[k].type = "request"
      PROVE  events'[k].of \in Announced'
  <2>1. CASE k \in DOMAIN events
    BY <1>1, <1>3, <1>5, <1>6, <2>1 DEF HeardOf
  <2>2. CASE k = Len(events) + 1
    BY <1>1, <1>3, <1>6, <2>2
  <2> QED
    BY <1>1, <1>4, <2>1, <2>2
<1> QED
  BY <1>3, <1>6

\* The first event is handled.
LEMMA HandleEventStep ==
    ASSUME QueueInv, UiTypeOK, HeardOf, HandleEvent
    PROVE  /\ QueueInv' /\ cards' \in Seq(Announced)
           /\ uiWaiting' \subseteq Sessions
           /\ events' \in Seq(Events)
           /\ \A k \in DOMAIN events' : events'[k].type = "request" => events'[k].of \in Announced
<1> DEFINE e == Head(events)
<1>1. /\ events \in Seq(Events) /\ events # <<>> /\ events' = Tail(events)
      /\ DOMAIN events = 1..Len(events) /\ Len(events) \in Nat
  BY LenProperties DEF UiTypeOK, HandleEvent
<1>2. /\ e \in Events /\ 1 \in DOMAIN events /\ e = events[1]
      /\ events' \in Seq(Events) /\ Len(events') = Len(events) - 1
      /\ \A k \in 1..Len(events') : events'[k] = events[k + 1]
  <2>1. Len(events) # 0
    BY <1>1, EmptySeq
  <2> QED
    BY <1>1, <2>1, HeadTailProperties
<1>3. \A k \in DOMAIN events' : events'[k].type = "request" => events'[k].of \in Announced
  <2>1. \A k \in DOMAIN events' : k + 1 \in DOMAIN events /\ events'[k] = events[k + 1]
    BY <1>1, <1>2, LenProperties
  <2> QED
    BY <2>1 DEF HeardOf
<1>4. Announced \in SUBSET Requests /\ cards \in Seq(Announced) /\ uiWaiting \subseteq Sessions
  BY DEF Announced, HeardOf, UiTypeOK
<1>5. CASE e.type = "request" /\ HandleRequest(e.of)
  <2>1. e.of \in Announced /\ AddPendingApproval(e.of)
    BY <1>2, <1>5 DEF HandleRequest, HeardOf
  <2>2. SessionOf[e.of] \in Sessions
    BY <1>4, <2>1, FlowAssumption
  <2>3. QueueInv' /\ cards' \in Seq(Announced)
    BY <1>4, <2>1, AddKeepsQueue, CardsComeFrom
  <2> QED
    BY <1>2, <1>3, <1>4, <1>5, <2>2, <2>3 DEF HandleRequest
<1>6. CASE e.type = "state_change" /\ HandleStateChange(e.of)
  <2>1. e.of \in Sessions
    BY <1>2, <1>6 DEF Events
  <2>2. UNCHANGED minimized /\ (RemoveApprovalsBySessionId(e.of) \/ UNCHANGED <<cards, idx, collapsed>>)
    BY <1>6 DEF HandleStateChange
  <2>3. CASE RemoveApprovalsBySessionId(e.of)
    <3>1. QueueInv' /\ cards' \in Seq(Announced)
      BY <1>4, <2>1, <2>2, <2>3, RemoveBySessionKeepsQueue, CardsComeFrom
    <3> QED
      BY <1>2, <1>3, <1>4, <1>6, <3>1 DEF HandleStateChange
  <2>4. CASE UNCHANGED <<cards, idx, collapsed>>
    <3>1. QueueInv'
      BY <2>2, <2>4 DEF QueueInv, GoodQueue, InQueue, OneCardPerId
    <3> QED
      BY <1>2, <1>3, <1>4, <1>6, <2>4, <3>1 DEF HandleStateChange
  <2> QED
    BY <2>2, <2>3, <2>4
<1>7. CASE e.type = "quiet" /\ HandleQuiet(e.of)
  <2>1. QueueInv' /\ cards' = cards
    BY <1>7 DEF HandleQuiet, queueVars, QueueInv, GoodQueue, InQueue, OneCardPerId
  <2> QED
    BY <1>2, <1>3, <1>4, <1>7, <2>1 DEF HandleQuiet
<1> QED
  BY <1>5, <1>6, <1>7 DEF HandleEvent

LEMMA FlowInvStep ==
    ASSUME QueueInv, UiTypeOK, HeardOf, [Next]_vars
    PROVE  QueueInv' /\ UiTypeOK' /\ HeardOf'
<1>1. announced \subseteq announced' /\ up'
  BY AnnouncedGrows DEF HeardOf
<1>2. Announced \subseteq Announced' /\ Announced \in SUBSET Requests
  BY <1>1 DEF Announced
<1>3. /\ cards \in Seq(Announced)
      /\ \A k \in DOMAIN events : events[k].type = "request" => events[k].of \in Announced
      /\ \A r \in Requests, d \in B!Decisions : <<r, d>> \in sent => r \in Announced
  BY DEF HeardOf
<1>4. ASSUME UNCHANGED queueVars PROVE QueueInv' /\ cards' \in Seq(Announced)
  BY <1>3, <1>4 DEF queueVars, QueueInv, GoodQueue, InQueue, OneCardPerId
<1>5. ASSUME cards' \in Seq(Announced) PROVE cards' \in Seq(Announced')
  BY <1>2, <1>5, SeqMonotonic
<1>6. ASSUME NEW r \in Requests, Silent(r) PROVE QueueInv' /\ UiTypeOK' /\ HeardOf'
  BY <1>1, <1>2, <1>3, <1>4, <1>5, <1>6 DEF Silent, uiVars, queueVars, callVars, UiTypeOK, HeardOf
<1>7. ASSUME NEW r \in Requests, Announce(r) PROVE QueueInv' /\ UiTypeOK' /\ HeardOf'
  <2>1. r \in Announced'
    BY <1>7 DEF Announce, B!HttpEmit, B!PipeEmit, Announced
  <2>2. [type |-> "request", of |-> r] \in Events
    BY DEF Events
  <2>3. /\ events' \in Seq(Events)
        /\ \A k \in DOMAIN events' : events'[k].type = "request" => events'[k].of \in Announced'
    BY <1>1, <1>7, <2>1, <2>2, EmitKeeps DEF Announce
  <2> QED
    BY <1>1, <1>2, <1>3, <1>4, <1>5, <1>7, <2>3 DEF Announce, uiVars, queueVars, callVars, UiTypeOK, HeardOf
<1>8. ASSUME NEW t \in Sessions, NEW type \in {"state_change", "quiet"}, Emit(type, t)
      PROVE  /\ events' \in Seq(Events)
             /\ \A k \in DOMAIN events' : events'[k].type = "request" => events'[k].of \in Announced'
  <2>1. [type |-> type, of |-> t] \in Events
    BY DEF Events
  <2>2. type # "request"
    OBVIOUS
  <2> QED
    BY <1>1, <1>8, <2>1, <2>2, EmitKeeps
<1>9. ASSUME UNCHANGED events
      PROVE  /\ events' \in Seq(Events)
             /\ \A k \in DOMAIN events' : events'[k].type = "request" => events'[k].of \in Announced'
  BY <1>2, <1>3, <1>9 DEF UiTypeOK
<1>10. ASSUME NEW r \in Requests, Decided(r) PROVE QueueInv' /\ UiTypeOK' /\ HeardOf'
  <2>1. SessionOf[r] \in Sessions
    BY FlowAssumption
  <2>2. /\ events' \in Seq(Events)
        /\ \A k \in DOMAIN events' : events'[k].type = "request" => events'[k].of \in Announced'
    BY <1>8, <1>9, <1>10, <2>1 DEF Decided
  <2> QED
    BY <1>1, <1>2, <1>3, <1>4, <1>5, <1>10, <2>2 DEF Decided, uiVars, queueVars, callVars, UiTypeOK, HeardOf
<1>11. ASSUME NEW t \in Sessions, OtherHook(t) PROVE QueueInv' /\ UiTypeOK' /\ HeardOf'
  <2>1. PICK type \in {"state_change", "quiet"} : Emit(type, t)
    BY <1>11 DEF OtherHook
  <2>2. /\ events' \in Seq(Events)
        /\ \A k \in DOMAIN events' : events'[k].type = "request" => events'[k].of \in Announced'
    BY <1>8, <2>1
  <2>3. activity' \in 0..MaxActivity
    BY <1>11, FlowAssumption DEF OtherHook, UiTypeOK
  <2> QED
    BY <1>1, <1>2, <1>3, <1>4, <1>5, <1>11, <2>2, <2>3 DEF OtherHook, uiVars, queueVars, callVars, UiTypeOK, HeardOf
<1>12. ASSUME NEW r \in Requests, NEW d \in B!Decisions, Execute(r, d)
       PROVE  QueueInv' /\ UiTypeOK' /\ HeardOf'
  <2>1. <<r, d>> \in Answers
    BY DEF Answers
  <2> QED
    BY <1>1, <1>2, <1>3, <1>4, <1>5, <1>9, <1>12, <2>1 DEF Execute, uiVars, queueVars, UiTypeOK, HeardOf
<1>13. ASSUME NEW r \in Requests, NEW d \in B!Decisions, Click(r, d)
       PROVE  QueueInv' /\ UiTypeOK' /\ HeardOf'
  <2>1. <<r, d>> \in Answers
    BY DEF Answers
  <2>2. r \in Announced
    <3>1. cards \in Seq(Announced) /\ Len(cards) \in Nat /\ idx \in Nat
      BY <1>3, LenProperties DEF QueueInv, GoodQueue, InQueue
    <3>2. idx < Len(cards) /\ r = cards[idx + 1]
      BY <1>13 DEF Click, Shown, Current, CurrentOf
    <3> QED
      BY <3>1, <3>2, ElementOfSeq
  <2>3. UNCHANGED <<brokerVars, uiVars, accepted, events, activity>> /\ sent' = sent \cup {<<r, d>>}
    BY <1>13 DEF Click
  <2>4. \A q \in Requests, c \in B!Decisions : <<q, c>> \in sent' => q \in Announced'
    BY <1>2, <1>3, <2>2, <2>3
  <2> QED
    BY <1>1, <1>4, <1>5, <1>9, <2>1, <2>3, <2>4 DEF uiVars, queueVars, UiTypeOK, HeardOf
<1>14. ASSUME NEW r \in Requests, NEW d \in B!Decisions, Handled(r, d)
       PROVE  QueueInv' /\ UiTypeOK' /\ HeardOf'
  <2>1. RemoveCurrentApproval /\ UNCHANGED minimized
    BY <1>14 DEF Handled
  <2>2. QueueInv' /\ cards' \in Seq(Announced)
    BY <1>2, <1>3, <2>1, RemoveCurrentKeepsQueue, CardsComeFrom
  <2> QED
    BY <1>1, <1>2, <1>3, <1>5, <1>9, <1>14, <2>2 DEF Handled, UiTypeOK, HeardOf
<1>15. ASSUME NEW r \in Requests, Expire(r) PROVE QueueInv' /\ UiTypeOK' /\ HeardOf'
  <2>1. RemoveApprovalByToolUseId(KeyOf[r]) /\ UNCHANGED minimized
    BY <1>15 DEF Expire
  <2>2. QueueInv' /\ cards' \in Seq(Announced)
    BY <1>2, <1>3, <2>1, RemoveByIdKeepsQueue, CardsComeFrom
  <2> QED
    BY <1>1, <1>2, <1>3, <1>5, <1>9, <1>15, <2>2 DEF Expire, callVars, UiTypeOK, HeardOf
<1>16. ASSUME HandleEvent PROVE QueueInv' /\ UiTypeOK' /\ HeardOf'
  <2>1. UNCHANGED <<brokerVars, callVars, activity>>
    BY <1>16 DEF HandleEvent
  <2>2. Announced' = Announced
    BY <2>1 DEF Announced, brokerVars
  <2>3. /\ QueueInv' /\ cards' \in Seq(Announced) /\ uiWaiting' \subseteq Sessions
        /\ events' \in Seq(Events)
        /\ \A k \in DOMAIN events' : events'[k].type = "request" => events'[k].of \in Announced
    BY <1>16, HandleEventStep
  <2> QED
    BY <1>1, <1>3, <2>1, <2>2, <2>3 DEF callVars, UiTypeOK, HeardOf
<1>17. ASSUME Look PROVE QueueInv' /\ UiTypeOK' /\ HeardOf'
  <2>1. UserLooks /\ UNCHANGED <<brokerVars, uiWaiting, callVars, events, activity>>
    BY <1>17 DEF Look
  <2>2. QueueInv' /\ cards' \in Seq(Announced)
    BY <1>2, <1>3, <2>1, LookKeepsQueue, CardsComeFrom
  <2> QED
    BY <1>1, <1>2, <1>3, <1>5, <1>9, <2>1, <2>2 DEF callVars, UiTypeOK, HeardOf
<1>18. ASSUME UNCHANGED vars PROVE QueueInv' /\ UiTypeOK' /\ HeardOf'
  BY <1>1, <1>2, <1>3, <1>4, <1>5, <1>9, <1>18 DEF vars, uiVars, queueVars, callVars, UiTypeOK, HeardOf
<1> QED
  BY <1>6, <1>7, <1>10, <1>11, <1>12, <1>13, <1>14, <1>15, <1>16, <1>17, <1>18 DEF Next

LEMMA FlowInvariant == Spec => []FlowInv
<1>1. Init => QueueInv /\ UiTypeOK /\ HeardOf
  <2> SUFFICES ASSUME Init PROVE QueueInv /\ UiTypeOK /\ HeardOf
    OBVIOUS
  <2>1. /\ up = TRUE /\ announced = {} /\ cards = <<>> /\ idx = 0
        /\ minimized = FALSE /\ collapsed = FALSE
        /\ events = <<>> /\ uiWaiting = {} /\ sent = {} /\ accepted = {} /\ activity = 0
    BY DEF Init, B!Init, QueueInit
  <2>2. QueueInv
    <3>1. cards \in Seq(Requests) /\ DOMAIN cards = {} /\ 0 \in Nat
      BY <2>1
    <3>2. InQueue(cards, idx) /\ OneCardPerId(cards)
      BY <2>1, <3>1 DEF InQueue, OneCardPerId
    <3> QED
      BY <2>1, <3>1, <3>2 DEF QueueInv, GoodQueue
  <2>3. UiTypeOK
    BY <2>1, FlowAssumption DEF UiTypeOK
  <2>4. HeardOf
    BY <2>1 DEF HeardOf
  <2> QED
    BY <2>2, <2>3, <2>4
<1>2. (QueueInv /\ UiTypeOK /\ HeardOf) /\ [Next]_vars => (QueueInv /\ UiTypeOK /\ HeardOf)'
  BY FlowInvStep
<1> QED
  BY <1>1, <1>2, FlowKeepsBroker, PTL DEF Spec, FlowInv

\* Events, cards, calls and the broker's map keep their types.
THEOREM TypeCorrect == Spec => []FlowTypeOK
<1>1. FlowInv => FlowTypeOK
  <2>1. BP!TypeOK => B!TypeOK
    BY DEF BP!TypeOK, B!TypeOK, BP!Decisions, B!Decisions
  <2> QED
    BY <2>1, QueueInvMeans DEF FlowInv, BP!IInv, UiTypeOK, FlowTypeOK
<1> QED
  BY <1>1, FlowInvariant, PTL

\* The overlay never has cards and none to show, nor two cards with one id.
THEOREM QueueIsWellFormed == Spec => []QueueWellFormed
<1>1. FlowInv => QueueWellFormed
  BY QueueInvMeans DEF FlowInv
<1> QED
  BY <1>1, FlowInvariant, PTL

\* A click that was sent is about a request the backend announced, in an app that
\* still runs: the command never waits for either.
ClicksAreAnnounced ==
    \A r \in Requests, d \in B!Decisions : <<r, d>> \in sent => up /\ KeyOf[r] \in announced

\* What submit_approval_response takes for granted of its caller holds of the overlay.
THEOREM ClicksFollowAnnouncements == Spec => []ClicksAreAnnounced
<1>1. FlowInv => ClicksAreAnnounced
  BY DEF FlowInv, HeardOf, Announced, ClicksAreAnnounced
<1> QED
  BY <1>1, FlowInvariant, PTL
-----------------------------------------------------------------------------
(* Who answers whom.                                                         *)

\* A request is decided only by a click on a card of its id, with what was clicked.
AnsweredByItsId ==
    [][\A r \in Requests, d \in B!Decisions :
          chan[r] # d /\ chan'[r] = d =>
             \E q \in Requests : KeyOf[q] = KeyOf[r] /\ <<q, d>> \in sent]_vars

\* The step that decides r is the command that was sent for a card of its id.
LEMMA DecidedByClick ==
    ASSUME BP!IInv, Next, NEW r \in Requests, NEW d \in B!Decisions, chan[r] # d, chan'[r] = d
    PROVE  \E q \in Requests : KeyOf[q] = KeyOf[r] /\ <<q, d>> \in sent
<1> USE DEF B!Decisions
<1>0. /\ chan \in [Requests -> {"allow", "deny", "none", "open", "closed"}]
      /\ pending \in [Keys -> Requests \cup {None}]
      /\ \A k \in Keys : pending[k] # None => KeyOf[pending[k]] = k
  BY DEF BP!IInv, BP!TypeOK, BP!Decisions, BP!EntryUnderOwnKey
<1>1. ASSUME NEW q \in Requests, B!Store(q) PROVE FALSE
  BY <1>0, <1>1 DEF B!Store
<1>2. ASSUME UNCHANGED chan PROVE FALSE
  BY <1>2
<1>3. ASSUME NEW q \in Requests, Silent(q) \/ Announce(q) \/ Decided(q) PROVE FALSE
  BY <1>1, <1>2, <1>3 DEF Silent, Announce, Decided, B!HttpStore, B!PipeStore, B!SenderDropped,
     B!PipeTimerFires, B!PipeTimeout, B!ClientLeaves, B!HttpDrop, B!HttpEmit, B!PipeEmit,
     B!DecisionArrives, B!Reply
<1>4. ASSUME NEW q \in Requests, NEW c \in B!Decisions, Execute(q, c)
      PROVE  KeyOf[q] = KeyOf[r] /\ <<q, d>> \in sent
  <2>1. <<q, c>> \in sent /\ B!Submit(KeyOf[q], c) /\ KeyOf[q] \in Keys
    BY <1>2, <1>4, FlowAssumption DEF Execute, brokerVars
  <2> DEFINE p == pending[KeyOf[q]]
  <2>2. p # None /\ chan' = [chan EXCEPT ![p] = IF B!ReceiverAlive(p) THEN c ELSE "closed"]
    BY <2>1 DEF B!Submit
  <2>3. p \in Requests /\ KeyOf[p] = KeyOf[q]
    BY <1>0, <2>1, <2>2
  <2> HIDE DEF p
  <2>4. r = p /\ c = d
    BY <1>0, <2>2, <2>3
  <2> QED
    BY <2>1, <2>3, <2>4
<1>5. ASSUME NEW q \in Requests, NEW c \in B!Decisions, Click(q, c) \/ Handled(q, c) PROVE FALSE
  BY <1>2, <1>5 DEF Click, Handled, brokerVars
<1>6. ASSUME NEW q \in Requests, Expire(q) PROVE FALSE
  BY <1>2, <1>6 DEF Expire, brokerVars
<1>7. ASSUME NEW t \in Sessions, OtherHook(t) PROVE FALSE
  BY <1>2, <1>7 DEF OtherHook, brokerVars
<1>8. ~HandleEvent /\ ~Look
  BY <1>2 DEF HandleEvent, Look, brokerVars
<1> QED
  BY <1>3, <1>4, <1>5, <1>6, <1>7, <1>8 DEF Next

\* However ids are shared, no request is decided by a click on a card of another id.
THEOREM AnswersGoById == Spec => AnsweredByItsId
<1> DEFINE Step == \A r \in Requests, d \in B!Decisions :
                     chan[r] # d /\ chan'[r] = d =>
                        \E q \in Requests : KeyOf[q] = KeyOf[r] /\ <<q, d>> \in sent
<1>1. FlowInv /\ [Next]_vars => [Step]_vars
  BY DecidedByClick DEF FlowInv
<1> QED
  BY <1>1, FlowInvariant, PTL DEF Spec, AnsweredByItsId

\* Every call has an id of its own.  The ids that agents send are meant to; those
\* that the app makes up for a call without one are not (hook_server.rs, pipe_server.rs).
UniqueIds == \A r, q \in Requests : KeyOf[r] = KeyOf[q] => r = q

\* With ids of their own, a request is decided only as the user clicked on its own
\* card, with what that card showed.
THEOREM AnswersGoByCard == ASSUME UniqueIds PROVE Spec => AnsweredAsClicked
<1> DEFINE Step == \A r \in Requests, d \in B!Decisions :
                     chan[r] # d /\ chan'[r] = d => <<r, d>> \in sent
<1>1. FlowInv /\ [Next]_vars => [Step]_vars
  <2> SUFFICES ASSUME FlowInv, Next, NEW r \in Requests, NEW d \in B!Decisions,
                      chan[r] # d, chan'[r] = d
               PROVE  <<r, d>> \in sent
    OBVIOUS
  <2>1. PICK q \in Requests : KeyOf[q] = KeyOf[r] /\ <<q, d>> \in sent
    BY DecidedByClick DEF FlowInv
  <2>2. q = r
    BY <2>1 DEF UniqueIds
  <2> QED
    BY <2>1, <2>2
<1> QED
  BY <1>1, FlowInvariant, PTL DEF Spec, AnsweredAsClicked
=============================================================================
