---------------------------- MODULE MCAgentClient ----------------------------
(* An instance of AgentClient for TLC: two requests, which may come over    *)
(* the same connection or over two.                                         *)
EXTENDS AgentClient, TLC

CONSTANTS r1, r2

TwoRequests == {r1, r2}

=============================================================================
