---------------------------- MODULE SlidingWindow ----------------------------
(***************************************************************************)
(* What the agent's event buffer and the coordinator's caches promise: the *)
(* most recent Cap elements, in the order they were pushed, oldest first.  *)
(***************************************************************************)
EXTENDS Naturals, Sequences

CONSTANTS Values, Cap

VARIABLE window

Push(v) == window' = IF Len(window) < Cap THEN Append(window, v)
                     ELSE Append(Tail(window), v)

Clear == window' = <<>>

Init == window = <<>>

Next == Clear \/ \E v \in Values : Push(v)

Spec == Init /\ [][Next]_window
=============================================================================
