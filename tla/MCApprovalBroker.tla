-------------------------- MODULE MCApprovalBroker --------------------------
(* One request over HTTP has an id of its own.  The other two, one over each  *)
(* transport, share one: an agent configured with both hooks sends the same   *)
(* tool_use_id twice.                                                         *)
EXTENDS ApprovalBroker, TLC

CONSTANTS h1, h2, p1,          \* requests over HTTP and over the pipe
          shared, own          \* tool_use_ids

MCKeyOf == [r \in Requests |-> IF r = h1 THEN own ELSE shared]
MCVia == [r \in Requests |-> IF r = p1 THEN "pipe" ELSE "http"]
=============================================================================
