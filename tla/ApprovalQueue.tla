---------------------------- MODULE ApprovalQueue ----------------------------
(***************************************************************************)
(* The frontend half of the approval flow: pendingApprovals, the queue of  *)
(* cards the overlay shows one at a time, with the index of the current    *)
(* card and the two ways of hiding it (sessions.ts, Overlay.tsx).          *)
(*                                                                         *)
(* A card is the request whose permission_request event made it: that is   *)
(* the tool and the arguments a user sees.  Its toolUseId is KeyOf[card].  *)
(***************************************************************************)
EXTENDS Naturals, Sequences, SequencesExt, Subsequence

CONSTANTS Requests, KeyOf,
          SessionOf      \* the session a request belongs to

VARIABLES
    cards,      \* pendingApprovals
    idx,        \* currentApprovalIndex, from 0
    minimized,  \* approvalMinimized: the overlay shows the session list
    collapsed   \* the user closed the overlay on the current card

queueVars == <<cards, idx, minimized, collapsed>>

QueueTypeOK ==
    /\ cards \in Seq(Requests)
    /\ idx \in Nat
    /\ minimized \in BOOLEAN
    /\ collapsed \in BOOLEAN

QueueInit ==
    /\ cards = <<>>
    /\ idx = 0
    /\ minimized = FALSE
    /\ collapsed = FALSE

AtMost(i, s) == IF s = <<>> THEN 0 ELSE IF i < Len(s) THEN i ELSE Len(s) - 1

\* currentApproval, as a set with at most one card.
CurrentOf(s, i) == IF i < Len(s) THEN {s[i + 1]} ELSE {}
Current == CurrentOf(cards, idx)

\* The panel is mounted: it takes clicks and its timer runs.
Shown(r) == r \in Current /\ ~minimized /\ ~collapsed

\* The overlay opens again when it gets another card to focus.
Show(newCards, newIdx) ==
    /\ cards' = newCards
    /\ idx' = newIdx
    /\ collapsed' = (collapsed /\ CurrentOf(newCards, newIdx) = Current)
-----------------------------------------------------------------------------
\* addPendingApproval: a toolUseId that has a card gets no second one.  A queue
\* that grew brings a minimized panel back at its first card.
AddPendingApproval(r) ==
    IF \E c \in ToSet(cards) : KeyOf[c] = KeyOf[r]
    THEN UNCHANGED queueVars
    ELSE /\ Show(Append(cards, r), IF minimized THEN 0 ELSE idx)
         /\ minimized' = FALSE

\* Mutant: removing the last card leaves the index on it.
RemoveCurrentKeepsIndex ==
    IF Current = {} THEN UNCHANGED <<cards, idx, collapsed>>
    ELSE Show(RemoveAt(cards, idx + 1), idx)

\* removeCurrentApproval: whatever card is current now.
RemoveCurrentApproval ==
    IF Current = {} THEN UNCHANGED <<cards, idx, collapsed>>
    ELSE LET rest == RemoveAt(cards, idx + 1) IN Show(rest, AtMost(idx, rest))

\* removeApprovalByToolUseId: the current card stays the current one.
RemoveApprovalByToolUseId(k) ==
    LET i == SelectInSeq(cards, LAMBDA c : KeyOf[c] = k)
        rest == RemoveAt(cards, i)
    IN IF i = 0 THEN UNCHANGED <<cards, idx, collapsed>>
       ELSE Show(rest, IF i - 1 < idx THEN idx - 1 ELSE AtMost(idx, rest))

OfOthers(s) == Keep(cards, {i \in DOMAIN cards : SessionOf[cards[i]] # s})

\* Mutant: the index is not brought back into the queue.
RemoveBySessionIdKeepsIndex(s) == Show(OfOthers(s), idx)

\* removeApprovalsBySessionId: the index is only brought back into the queue.
RemoveApprovalsBySessionId(s) ==
    LET rest == OfOthers(s) IN
    IF rest = cards THEN UNCHANGED <<cards, idx, collapsed>>
    ELSE Show(rest, AtMost(idx, rest))
-----------------------------------------------------------------------------
\* handleNavigatePrev, handleNavigateNext.
Navigate ==
    /\ \E r \in Current : Shown(r)
    /\ \E i \in {idx + 1} \cup (IF idx > 0 THEN {idx - 1} ELSE {}) :
          /\ i < Len(cards)
          /\ Show(cards, i)
    /\ UNCHANGED minimized

\* The back button of the panel.
MinimizeApprovalPanel ==
    /\ \E r \in Current : Shown(r)
    /\ minimized' = TRUE
    /\ UNCHANGED <<cards, idx, collapsed>>

\* The chip and the banner that count the pending approvals.
RestoreApprovalPanel ==
    /\ cards # <<>>
    /\ Show(cards, 0)
    /\ minimized' = FALSE

\* A click on the bar opens and closes the overlay.
Toggle ==
    /\ cards # <<>>
    /\ collapsed' = ~collapsed
    /\ UNCHANGED <<cards, idx, minimized>>

UserLooks == Navigate \/ MinimizeApprovalPanel \/ RestoreApprovalPanel \/ Toggle
=============================================================================
