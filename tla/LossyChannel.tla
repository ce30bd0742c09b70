---------------------------- MODULE LossyChannel ----------------------------
(***************************************************************************)
(* What a publisher of alerts promises its callers: an offer never waits.  *)
(* It is accepted, or refused when Capacity alerts wait already; accepted  *)
(* alerts come out in the order of their offers and at most once.  Alert i *)
(* is the i-th offer.                                                      *)
(***************************************************************************)
EXTENDS Naturals, Sequences

CONSTANT Capacity

VARIABLES offered, pipe, delivered

vars == <<offered, pipe, delivered>>

\* One alert more than Capacity may be on its way: the one being sent.
Accept == /\ Len(pipe) <= Capacity
          /\ offered' = offered + 1
          /\ pipe' = Append(pipe, offered + 1)
          /\ UNCHANGED delivered

Refuse == /\ Len(pipe) >= Capacity
          /\ offered' = offered + 1
          /\ UNCHANGED <<pipe, delivered>>

Deliver == /\ pipe # <<>>
           /\ delivered' = Append(delivered, Head(pipe))
           /\ pipe' = Tail(pipe)
           /\ UNCHANGED offered

\* A transport failure takes the alert being sent with it.
Lose == /\ pipe # <<>>
        /\ pipe' = Tail(pipe)
        /\ UNCHANGED <<offered, delivered>>

Init == offered = 0 /\ pipe = <<>> /\ delivered = <<>>

Next == Accept \/ Refuse \/ Deliver \/ Lose

Spec == Init /\ [][Next]_vars
=============================================================================
