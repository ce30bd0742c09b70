------------------------------ MODULE Consensus ------------------------------
(***************************************************************************)
(* What the coordinator promises about an address reported by its agents,  *)
(* without saying how the reports are stored.                              *)
(*                                                                         *)
(* `heard[k]' holds the alerts received about address k since the last     *)
(* threat raised for it.  A node is RECENT for k when one of those alerts  *)
(* is inside the correlation window, and STEADY when all of them are.      *)
(*   - a threat is raised only on the word of a quorum of recent nodes,    *)
(*     the sender of the triggering alert among them;                      *)
(*   - an alert passes without a threat only while the steady nodes are    *)
(*     not a quorum.                                                       *)
(* Between the two bounds lies what the code decides: whether a node whose *)
(* alerts straddle the edge of the window counts.                          *)
(***************************************************************************)
EXTENDS Integers

CONSTANTS Keys,          \* addresses (or host names) alerts are about
          Nodes,         \* agents
          WindowSec,     \* correlation_window_sec
          Quorums,       \* the sets of nodes that make a consensus
          TicksPerSec    \* resolution of the clock below one second

VARIABLES now, heard, reports

\* Age in whole seconds, rounded down, past the window.
Expired(t, stamp) == (t - stamp) \div TicksPerSec > WindowSec

RecentNodes(t, all) == {n \in Nodes : \E h \in all : h.node = n /\ ~Expired(t, h.time)}

SteadyNodes(t, all) ==
    {n \in Nodes : /\ \E h \in all : h.node = n
                   /\ \A h \in all : h.node = n => ~Expired(t, h.time)}

Hear(k, h) ==
    LET all == heard[k] \cup {h}
    IN  /\ SteadyNodes(now, all) \notin Quorums
        /\ heard' = [heard EXCEPT ![k] = all]
        /\ UNCHANGED <<now, reports>>

Report(k, h, confirming) ==
    LET all == heard[k] \cup {h}
    IN  /\ confirming \subseteq RecentNodes(now, all)
        /\ h.node \in confirming
        /\ confirming \in Quorums
        /\ heard' = [heard EXCEPT ![k] = {}]
        /\ reports' = reports \cup {[key |-> k, nodes |-> confirming, time |-> now]}
        /\ UNCHANGED now

Tick == /\ now' = now + 1
        /\ UNCHANGED <<heard, reports>>

Init == /\ now = 0
        /\ heard = [k \in Keys |-> {}]
        /\ reports = {}

\* Whether an alert named its key as an address is kept and makes no difference here.
AtNow == [node : Nodes, time : {now}, named : BOOLEAN]

Next == \/ Tick
        \/ \E k \in Keys, h \in AtNow :
              \/ Hear(k, h)
              \/ \E confirming \in SUBSET Nodes : Report(k, h, confirming)

vars == <<now, heard, reports>>

Spec == Init /\ [][Next]_vars
=============================================================================
