---------------------------- MODULE MCSessionFlow ----------------------------
(* A session over either transport, and two tool uses with different names.    *)
EXTENDS SessionFlow, TLC

CONSTANTS s1, bash, edit

MCNameOf == [t \in Tools |-> IF t = bash THEN "Bash" ELSE "Edit"]
=============================================================================
