----------------------------- MODULE MCServices -----------------------------
(* Three processes, x and y with one pid; one session that hooks made.  Three *)
(* clients of the pipe, one of them blocking.                                 *)
EXTENDS Services

CONSTANTS x, y, z, p, q, h, c1, c2, c3

MCPid == [r \in {x, y, z} |-> IF r = z THEN q ELSE p]
MCAgent == [r \in {x, y, z, h} |-> IF r = y THEN "codex" ELSE "claude"]
=============================================================================
