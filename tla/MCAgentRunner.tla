--------------------------- MODULE MCAgentRunner ---------------------------
(* Small instances of AgentRunner for TLC.                                 *)
EXTENDS AgentRunner
=============================================================================
