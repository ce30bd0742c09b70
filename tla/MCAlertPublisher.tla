-------------------------- MODULE MCAlertPublisher --------------------------
(* Two places in the queue, five alerts and two starts: the queue fills,   *)
(* alerts are left over by a stop, and a second send thread finds them.    *)
EXTENDS AlertPublisher
=============================================================================
