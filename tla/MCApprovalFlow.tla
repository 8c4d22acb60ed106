--------------------------- MODULE MCApprovalFlow ---------------------------
(* Two sessions: the first has the requests a over HTTP and b over the pipe,  *)
(* the second has c over HTTP.  Every request has an id of its own.           *)
EXTENDS ApprovalFlow, TLC

CONSTANTS a, b, c, k1, k2, k3, s1, s2

MCVia == [r \in Requests |-> IF r = b THEN "pipe" ELSE "http"]
MCSessionOf == [r \in Requests |-> IF r = c THEN s2 ELSE s1]
MCKeyOf == [r \in Requests |-> (a :> k1 @@ b :> k2 @@ c :> k3)[r]]
=============================================================================
