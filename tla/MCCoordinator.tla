--------------------------- MODULE MCCoordinator ---------------------------
(* Two agents report one address, n1 also a local event; two alerts each   *)
(* per life of an agent, one restart of n1 and of the coordinator, up to   *)
(* two failing statements.                                                 *)
EXTENDS Coordinator

CONSTANTS n1, n2, ip1, ssh

MCInputs ==
    { [node |-> n1, srcIp |-> ip1,  sourceIp |-> NoIp, rule |-> ssh, severity |-> 1],
      [node |-> n2, srcIp |-> ip1,  sourceIp |-> NoIp, rule |-> ssh, severity |-> 1],
      [node |-> n1, srcIp |-> NoIp, sourceIp |-> NoIp, rule |-> ssh, severity |-> 1] }

MCAgentRestarts == [n \in Nodes |-> IF n = n1 THEN 1 ELSE 0]
=============================================================================
