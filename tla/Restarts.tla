------------------------------ MODULE Restarts ------------------------------
(***************************************************************************)
(* What outlives the app and is read back at its start: its own            *)
(* sessions.json (SessionStore) and the agents' transcripts (Transcripts), *)
(* their lines and the text in one of them.  The three share no state; a   *)
(* behaviour follows one of them.                                          *)
(***************************************************************************)
EXTENDS SessionStore, Transcripts

VARIABLE focus

vars == <<storeVars, transcriptVars, focus>>

Init == StoreInit /\ TranscriptInit /\ focus \in {"store", "transcripts", "text"}

Next ==
    /\ UNCHANGED focus
    /\ \/ focus = "store" /\ StoreNext /\ UNCHANGED transcriptVars
       \/ focus = "transcripts" /\ TranscriptNext /\ UNCHANGED storeVars
       \/ focus = "text" /\ AddChar /\ UNCHANGED storeVars

Spec == Init /\ [][Next]_vars

RestartsTypeOK == StoreTypeOK /\ TranscriptTypeOK
=============================================================================
