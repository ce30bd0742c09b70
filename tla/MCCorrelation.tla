--------------------------- MODULE MCCorrelation ---------------------------
(***************************************************************************)
(* A small coordinator: three agents, one address that reads like the name *)
(* of n3, two rules.  n1 alerts under both rules and with two severities;  *)
(* alerts of n2 and n3 name no address.                                    *)
(***************************************************************************)
EXTENDS CorrelationEngine

CONSTANTS n1, n2, n3, ssh, scan

MCInputs ==
    { [node |-> n1, srcIp |-> n3,   sourceIp |-> NoIp, rule |-> ssh,  severity |-> 0],
      [node |-> n1, srcIp |-> n3,   sourceIp |-> NoIp, rule |-> scan, severity |-> 3],
      [node |-> n2, srcIp |-> NoIp, sourceIp |-> n3,   rule |-> scan, severity |-> 1],
      [node |-> n2, srcIp |-> NoIp, sourceIp |-> NoIp, rule |-> ssh,  severity |-> 1],
      [node |-> n3, srcIp |-> NoIp, sourceIp |-> NoIp, rule |-> ssh,  severity |-> 2] }
=============================================================================
