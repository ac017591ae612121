---------------------------- MODULE MCAgentGraph ----------------------------
(* Small instances of AgentGraph for TLC.                                  *)
EXTENDS AgentGraph
=============================================================================
