--------------------------- MODULE MCNodeRegistry ---------------------------
(* Both nodes behave alike and may be exchanged.                           *)
EXTENDS NodeRegistry, TLC

CONSTANTS n1, n2

Exchange == Permutations({n1, n2})
=============================================================================
