-------------------------- MODULE MCAgentLifecycle --------------------------
(* Two lines, so that one can be in the callback while another is at hand, *)
(* and two boots, so that the second comes up on what the first wrote.     *)
EXTENDS AgentLifecycle
=============================================================================
