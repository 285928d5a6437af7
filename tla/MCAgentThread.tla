--------------------------- MODULE MCAgentThread ---------------------------
(* One interactive action and one that is not.                             *)
EXTENDS AgentThread

MCActions == {"EXEC", "SYNC"}
=============================================================================
