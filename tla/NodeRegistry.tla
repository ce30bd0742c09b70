---------------------------- MODULE NodeRegistry ----------------------------
(***************************************************************************)
(* dlads::NodeRegistry (include/dlads/node_registry.hpp), the agents'      *)
(* heartbeat threads (src/agent_main.cpp) and the three coordinator        *)
(* threads that use the registry (src/coordinator.cpp): the heartbeat      *)
(* receiver, the alert receiver and the watchdog.  Each member function    *)
(* holds the registry's mutex; between two of them the threads interleave. *)
(*                                                                         *)
(* A tick is a second.  What the code derives from system_clock is the age *)
(* of a node's last ping, kept here instead of the two times and counted   *)
(* up to AgeCap; the clock is assumed not to jump.  The address that a     *)
(* heartbeat may carry is left out: nothing but GET /nodes reads it.       *)
(***************************************************************************)
EXTENDS Naturals

CONSTANTS Nodes,
          DeadThreshold,   \* dead_threshold_, 30 in coordinator.cpp
          Period,          \* the watchdog's sleep, 10
          BeatPeriod,      \* an agent's sleep between heartbeats, 10
          MaxMissed,       \* bound on the heartbeats lost in a row
          AgeCap,          \* bound on the age of a ping
          MaxAlerts        \* bound on a node's alerts

ASSUME RegistryAssumption ==
    /\ DeadThreshold \in Nat /\ Period \in Nat \ {0} /\ MaxAlerts \in Nat
    /\ Period <= DeadThreshold
    /\ BeatPeriod \in Nat \ {0} /\ MaxMissed \in Nat
    /\ (MaxMissed + 1) * (BeatPeriod + 1) <= DeadThreshold
    /\ AgeCap \in Nat /\ AgeCap > DeadThreshold + Period

VARIABLES running,      \* the agents that run
          sinceBeat,    \* seconds since a running agent sent a heartbeat
          missed,       \* its heartbeats lost in a row
          joined,       \* history: one of this run of the agent arrived
          known,        \* the keys of nodes_
          status, age, alertsSent,   \* of a known node
          receiving,    \* the nodes whose ping() the alert receiver has made
                        \* and whose record_alert() it has not
          received,     \* history: alerts received from a node
          watchdog,     \* asleep, or between check_dead_nodes and all_nodes
          timer,        \* seconds since the watchdog fell asleep
          reportedDead, \* reported_dead
          announced     \* history: reported since its last ping

agentVars    == <<running, sinceBeat, missed, joined>>
watchdogVars == <<watchdog, timer, reportedDead>>

vars == <<agentVars, known, status, age, alertsSent, receiving, received,
          watchdogVars, announced>>

TypeOK ==
    /\ running \subseteq Nodes /\ joined \subseteq running
    /\ sinceBeat \in [Nodes -> 0..(BeatPeriod + 1)] /\ missed \in [Nodes -> 0..MaxMissed]
    /\ known \subseteq Nodes /\ receiving \subseteq known
    /\ status \in [Nodes -> {"ALIVE", "DEAD"}]
    /\ age \in [Nodes -> 0..AgeCap]
    /\ alertsSent \in [Nodes -> Nat] /\ received \in [Nodes -> Nat]
    /\ watchdog \in {"asleep", "checked"} /\ timer \in 0..Period
    /\ reportedDead \in [Nodes -> BOOLEAN] /\ announced \in [Nodes -> BOOLEAN]
-----------------------------------------------------------------------------
\* A bug in ping(): a known node stays DEAD.
PingKeepsStatus(n) ==
    /\ known' = known \cup {n}
    /\ age' = [age EXCEPT ![n] = 0]
    /\ announced' = [announced EXCEPT ![n] = FALSE]
    /\ UNCHANGED status

Ping(n) ==
    /\ known' = known \cup {n}
    /\ status' = [status EXCEPT ![n] = "ALIVE"]
    /\ age' = [age EXCEPT ![n] = 0]
    /\ announced' = [announced EXCEPT ![n] = FALSE]

\* An agent starts, and its heartbeat is due; or it stops or dies.
AgentStarts(n) ==
    /\ n \notin running
    /\ running' = running \cup {n}
    /\ sinceBeat' = [sinceBeat EXCEPT ![n] = BeatPeriod]
    /\ missed' = [missed EXCEPT ![n] = 0]
    /\ UNCHANGED <<joined, known, status, age, alertsSent, receiving, received,
                   watchdogVars, announced>>

AgentStops(n) ==
    /\ n \in running
    /\ running' = running \ {n} /\ joined' = joined \ {n}
    /\ UNCHANGED <<sinceBeat, missed, known, status, age, alertsSent, receiving,
                   received, watchdogVars, announced>>

\* The loop's fifty short sleeps add up to a second more than the period at most.
HeartbeatDue(n) == n \in running /\ sinceBeat[n] >= BeatPeriod
HeartbeatOverdue(n) == n \in running /\ sinceBeat[n] > BeatPeriod

\* heartbeat_loop sends, zmq_heartbeat_receiver calls ping() ...
Heartbeat(n) ==
    /\ HeartbeatDue(n)
    /\ sinceBeat' = [sinceBeat EXCEPT ![n] = 0]
    /\ missed' = [missed EXCEPT ![n] = 0]
    /\ joined' = joined \cup {n}
    /\ Ping(n)
    /\ UNCHANGED <<running, alertsSent, receiving, received, watchdogVars>>

\* ... or zmq_send, which does not wait, leaves it behind.
HeartbeatLost(n) ==
    /\ HeartbeatDue(n) /\ missed[n] < MaxMissed
    /\ sinceBeat' = [sinceBeat EXCEPT ![n] = 0]
    /\ missed' = [missed EXCEPT ![n] = @ + 1]
    /\ UNCHANGED <<running, joined, known, status, age, alertsSent, receiving, received,
                   watchdogVars, announced>>

\* zmq_alert_receiver calls ping() ...
AlertArrives(n) ==
    /\ receiving = {} /\ received[n] < MaxAlerts
    /\ receiving' = {n}
    /\ received' = [received EXCEPT ![n] = @ + 1]
    /\ Ping(n)
    /\ UNCHANGED <<agentVars, alertsSent, watchdogVars>>

\* A bug: an alert is counted only while its node is alive.
RecordAlertIfAlive(n) ==
    /\ n \in receiving
    /\ receiving' = {}
    /\ alertsSent' = IF status[n] = "ALIVE" THEN [alertsSent EXCEPT ![n] = @ + 1]
                     ELSE alertsSent
    /\ UNCHANGED <<agentVars, known, status, age, received, watchdogVars, announced>>

\* ... and then record_alert(), which counts for a known node.
RecordAlert(n) ==
    /\ n \in receiving
    /\ receiving' = {}
    /\ alertsSent' = IF n \in known THEN [alertsSent EXCEPT ![n] = @ + 1] ELSE alertsSent
    /\ UNCHANGED <<agentVars, known, status, age, received, watchdogVars, announced>>
-----------------------------------------------------------------------------
\* A bug: a node is silent one second early.
SilentEarly == {n \in known : status[n] = "ALIVE" /\ age[n] >= DeadThreshold}

Silent == {n \in known : status[n] = "ALIVE" /\ age[n] > DeadThreshold}

\* A bug: the watchdog looks without checking first.
WakeUpWithoutCheck ==
    /\ watchdog = "asleep" /\ timer = Period
    /\ watchdog' = "checked"
    /\ UNCHANGED <<agentVars, known, status, age, alertsSent, receiving, received, timer,
                   reportedDead, announced>>

\* The watchdog wakes and calls check_dead_nodes() ...
WakeUp ==
    /\ watchdog = "asleep" /\ timer = Period
    /\ watchdog' = "checked"
    /\ status' = [n \in Nodes |-> IF n \in Silent THEN "DEAD" ELSE status[n]]
    /\ UNCHANGED <<agentVars, known, age, alertsSent, receiving, received, timer,
                   reportedDead, announced>>

Dead == {n \in known : status[n] = "DEAD"}

\* A bug: a node that came back is not reported again.
ReportOnlyOnce ==
    /\ watchdog = "checked" /\ watchdog' = "asleep" /\ timer' = 0
    /\ announced' = [n \in Nodes |-> announced[n] \/ (n \in Dead /\ ~reportedDead[n])]
    /\ reportedDead' = [n \in Nodes |-> reportedDead[n] \/ n \in Dead]
    /\ UNCHANGED <<agentVars, known, status, age, alertsSent, receiving, received>>

\* ... then copies all_nodes(), reports the dead it has not reported yet, and
\* goes back to sleep.  The report concerns the copy and the watchdog's own map.
Report ==
    /\ watchdog = "checked" /\ watchdog' = "asleep" /\ timer' = 0
    /\ announced' = [n \in Nodes |-> announced[n] \/ (n \in Dead /\ ~reportedDead[n])]
    /\ reportedDead' = [n \in Nodes |-> n \in Dead \/ (n \notin known /\ reportedDead[n])]
    /\ UNCHANGED <<agentVars, known, status, age, alertsSent, receiving, received>>

Older == [n \in Nodes |-> IF n \in known /\ age[n] < AgeCap THEN age[n] + 1 ELSE age[n]]

\* A second passes; the watchdog wakes within the second it is due.
Tick ==
    /\ watchdog = "asleep" /\ timer < Period
    /\ \A n \in Nodes : ~HeartbeatOverdue(n)
    /\ timer' = timer + 1
    /\ age' = Older
    /\ sinceBeat' = [n \in Nodes |-> IF n \in running THEN sinceBeat[n] + 1 ELSE sinceBeat[n]]
    /\ UNCHANGED <<running, missed, joined, known, status, alertsSent, receiving, received,
                   watchdog, reportedDead, announced>>

Init ==
    /\ running = {} /\ joined = {}
    /\ sinceBeat = [n \in Nodes |-> 0] /\ missed = [n \in Nodes |-> 0]
    /\ known = {} /\ receiving = {}
    /\ status = [n \in Nodes |-> "ALIVE"]
    /\ age = [n \in Nodes |-> 0]
    /\ alertsSent = [n \in Nodes |-> 0] /\ received = [n \in Nodes |-> 0]
    /\ watchdog = "asleep" /\ timer = 0
    /\ reportedDead = [n \in Nodes |-> FALSE] /\ announced = [n \in Nodes |-> FALSE]

Next == \/ \E n \in Nodes : \/ AgentStarts(n) \/ AgentStops(n)
                            \/ Heartbeat(n) \/ HeartbeatLost(n)
                            \/ AlertArrives(n) \/ RecordAlert(n)
        \/ WakeUp \/ Report \/ Tick

Spec == Init /\ [][Next]_vars
-----------------------------------------------------------------------------
\* DEAD is only said of a node that is silent: whatever ping comes between the
\* watchdog's check and its copy, GET /nodes shows no DEAD node that pinged
\* within the threshold.
DeadIsSilent == \A n \in known : status[n] = "DEAD" => age[n] > DeadThreshold

\* ALIVE goes stale by one watchdog period at the most.
AliveIsFresh == \A n \in known : status[n] = "ALIVE" => age[n] <= DeadThreshold + Period

\* While the watchdog sleeps, whoever is DEAD was reported as dead since it was last
\* alive, the second time of a node too: two deaths are so far apart that the watchdog
\* sees the node alive in between.  (A death that a ping undoes between
\* check_dead_nodes() and the copy is over before anybody could report it.)
DeathsAreReported ==
    watchdog = "asleep" => \A n \in known : status[n] = "DEAD" => announced[n]

\* No alert is counted twice or forgotten, wherever the receiver stands.
AlertsAreCounted ==
    \A n \in Nodes : received[n] = alertsSent[n] + (IF n \in receiving THEN 1 ELSE 0)

\* An agent that runs and has been heard is not said to be DEAD, for MaxMissed
\* heartbeats lost in a row: with the periods of the code, one.
RunningIsAlive == \A n \in joined : status[n] = "ALIVE"

-----------------------------------------------------------------------------
(* The inductive invariant.                                                *)

\* The alert receiver is one thread.
OneReceiver == \A m, n \in receiving : m = n

\* A node that is ALIVE was within the threshold when the watchdog last looked.
AliveWhenChecked ==
    \A n \in known : status[n] = "ALIVE" =>
        age[n] <= DeadThreshold + (IF watchdog = "asleep" THEN timer ELSE 0)

\* A node last reported dead is dead still, and announced, or it pinged since the
\* watchdog fell asleep, so that it will not be found silent when it wakes.
ReportedDeadIsKnown ==
    \A n \in known : reportedDead[n] =>
        IF status[n] = "DEAD" THEN announced[n]
                              ELSE watchdog = "asleep" => age[n] <= timer

\* A heard agent's last ping is as old as the heartbeats lost since, and the wait.
JoinedIsHeard ==
    \A n \in joined : n \in known /\ age[n] <= missed[n] * (BeatPeriod + 1) + sinceBeat[n]

IInv == /\ TypeOK /\ OneReceiver /\ DeadIsSilent /\ AliveWhenChecked
        /\ ReportedDeadIsKnown /\ DeathsAreReported /\ AlertsAreCounted
        /\ JoinedIsHeard /\ RunningIsAlive
=============================================================================
