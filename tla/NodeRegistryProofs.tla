------------------------- MODULE NodeRegistryProofs -------------------------
(***************************************************************************)
(* The safety of the registry and its watchdog, for any set of nodes and   *)
(* any periods and threshold that meet RegistryAssumption.                 *)
(***************************************************************************)
EXTENDS NodeRegistry, TLAPS

\* What the assumption says, for the provers.
LEMMA Periods ==
    /\ DeadThreshold \in Nat /\ Period \in Nat /\ Period > 0 /\ Period <= DeadThreshold
    /\ BeatPeriod \in Nat /\ MaxMissed \in Nat /\ MaxAlerts \in Nat
    /\ AgeCap \in Nat /\ AgeCap > DeadThreshold + Period
BY RegistryAssumption

\* MaxMissed heartbeats lost and a last wait stay below the threshold.
LEMMA LossesFit ==
    ASSUME NEW m \in 0..MaxMissed, NEW s \in 0..(BeatPeriod + 1)
    PROVE  /\ m * (BeatPeriod + 1) \in Nat
           /\ m * (BeatPeriod + 1) + s <= DeadThreshold
<1>1. m \in Nat /\ m <= MaxMissed /\ BeatPeriod \in Nat /\ MaxMissed \in Nat
  BY Periods
<1>2. m * (BeatPeriod + 1) \in Nat
  BY <1>1
<1>3. m * (BeatPeriod + 1) <= MaxMissed * (BeatPeriod + 1)
  BY <1>1
<1>4. (MaxMissed + 1) * (BeatPeriod + 1) = MaxMissed * (BeatPeriod + 1) + (BeatPeriod + 1)
  BY <1>1
<1>5. MaxMissed * (BeatPeriod + 1) \in Nat
  BY <1>1
<1>6. (MaxMissed + 1) * (BeatPeriod + 1) <= DeadThreshold
  BY RegistryAssumption
<1> DEFINE a == m * (BeatPeriod + 1)
           b == MaxMissed * (BeatPeriod + 1)
           c == (MaxMissed + 1) * (BeatPeriod + 1)
<1>7. a \in Nat /\ b \in Nat /\ a <= b /\ c = b + (BeatPeriod + 1) /\ c <= DeadThreshold
  BY <1>2, <1>3, <1>4, <1>5, <1>6
<1>8. s \in Nat /\ s <= BeatPeriod + 1 /\ DeadThreshold \in Nat
  BY <1>1, Periods
<1> HIDE DEF a, b, c
<1>9. a + s <= DeadThreshold
  BY <1>1, <1>7, <1>8
<1>. QED
  BY <1>2, <1>9 DEF a

\* Losing one more heartbeat buys one more wait.
LEMMA OneMoreLost ==
    ASSUME NEW m \in Nat
    PROVE  (m + 1) * (BeatPeriod + 1) = m * (BeatPeriod + 1) + (BeatPeriod + 1)
BY Periods

\* RunningIsAlive needs no step of its own: a heard agent that the watchdog
\* checks is within the threshold.
LEMMA HeardIsFresh ==
    ASSUME TypeOK, JoinedIsHeard, NEW n \in joined
    PROVE  n \in known /\ age[n] <= DeadThreshold
<1>1. n \in Nodes /\ missed[n] \in 0..MaxMissed /\ sinceBeat[n] \in 0..(BeatPeriod + 1)
      /\ age[n] \in Nat
  BY Periods DEF TypeOK
<1>2. missed[n] * (BeatPeriod + 1) \in Nat
      /\ missed[n] * (BeatPeriod + 1) + sinceBeat[n] <= DeadThreshold
  BY <1>1, LossesFit
<1>3. n \in known /\ age[n] <= missed[n] * (BeatPeriod + 1) + sinceBeat[n]
  BY DEF JoinedIsHeard
<1> DEFINE a == missed[n] * (BeatPeriod + 1)
<1>4. a \in Nat /\ a + sinceBeat[n] <= DeadThreshold /\ age[n] <= a + sinceBeat[n]
  BY <1>2, <1>3
<1> HIDE DEF a
<1>5. age[n] <= DeadThreshold
  BY <1>1, <1>4, Periods
<1>. QED
  BY <1>3, <1>5

LEMMA InitInvariant == Init => IInv
BY Periods DEF Init, IInv, TypeOK, OneReceiver, DeadIsSilent, AliveWhenChecked,
    ReportedDeadIsKnown, DeathsAreReported, AlertsAreCounted, JoinedIsHeard, RunningIsAlive
-----------------------------------------------------------------------------
\* ping(), whoever calls it: the watchdog's side of the invariant.
WatchdogInv == /\ DeadIsSilent /\ AliveWhenChecked /\ ReportedDeadIsKnown
               /\ DeathsAreReported

LEMMA PingKeepsWatchdogInv ==
    ASSUME TypeOK, WatchdogInv, NEW n \in Nodes, Ping(n),
           UNCHANGED watchdogVars
    PROVE  WatchdogInv'
<1>1. /\ status'[n] = "ALIVE" /\ age'[n] = 0
      /\ \A m \in known' : m = n \/ m \in known
      /\ \A m \in Nodes : m # n => /\ status'[m] = status[m] /\ age'[m] = age[m]
                                   /\ announced'[m] = announced[m]
  BY DEF Ping, TypeOK
<1>2. known \subseteq Nodes /\ timer \in Nat
  BY Periods DEF TypeOK
<1>3. watchdog' = watchdog /\ timer' = timer /\ reportedDead' = reportedDead
  BY DEF watchdogVars
<1>4. DeadIsSilent'
  BY <1>1, <1>2 DEF DeadIsSilent, WatchdogInv
<1>5. AliveWhenChecked'
  BY <1>1, <1>2, <1>3, Periods DEF AliveWhenChecked, WatchdogInv
<1>6. ReportedDeadIsKnown'
  BY <1>1, <1>2, <1>3 DEF ReportedDeadIsKnown, WatchdogInv
<1>7. DeathsAreReported'
  BY <1>1, <1>2, <1>3 DEF DeathsAreReported, WatchdogInv
<1>. QED
  BY <1>4, <1>5, <1>6, <1>7 DEF WatchdogInv

\* ping() of any node leaves the heard agents alive.
LEMMA PingKeepsAlive ==
    ASSUME TypeOK, NEW n \in Nodes, Ping(n), RunningIsAlive, joined' \subseteq joined \cup {n}
    PROVE  RunningIsAlive'
BY DEF TypeOK, Ping, RunningIsAlive
-----------------------------------------------------------------------------
LEMMA AgentStartsInvariant ==
    ASSUME IInv, NEW n \in Nodes, AgentStarts(n)
    PROVE  IInv'
<1>1. TypeOK'
  BY Periods DEF IInv, TypeOK, AgentStarts, watchdogVars
<1>2. JoinedIsHeard'
  BY DEF IInv, TypeOK, JoinedIsHeard, AgentStarts
<1>3. WatchdogInv' /\ OneReceiver' /\ AlertsAreCounted' /\ RunningIsAlive'
  BY DEF IInv, WatchdogInv, OneReceiver, DeadIsSilent, AliveWhenChecked, ReportedDeadIsKnown,
         DeathsAreReported, AlertsAreCounted, RunningIsAlive, AgentStarts, watchdogVars
<1>. QED
  BY <1>1, <1>2, <1>3 DEF IInv, WatchdogInv

LEMMA AgentStopsInvariant ==
    ASSUME IInv, NEW n \in Nodes, AgentStops(n)
    PROVE  IInv'
<1>1. TypeOK'
  BY DEF IInv, TypeOK, AgentStops, watchdogVars
<1>2. JoinedIsHeard' /\ RunningIsAlive'
  BY DEF IInv, JoinedIsHeard, RunningIsAlive, AgentStops
<1>3. WatchdogInv' /\ OneReceiver' /\ AlertsAreCounted'
  BY DEF IInv, WatchdogInv, OneReceiver, DeadIsSilent, AliveWhenChecked, ReportedDeadIsKnown,
         DeathsAreReported, AlertsAreCounted, AgentStops, watchdogVars
<1>. QED
  BY <1>1, <1>2, <1>3 DEF IInv, WatchdogInv

LEMMA HeartbeatInvariant ==
    ASSUME IInv, NEW n \in Nodes, Heartbeat(n)
    PROVE  IInv'
<1>1. TypeOK'
  BY Periods DEF IInv, TypeOK, Heartbeat, HeartbeatDue, Ping, watchdogVars
<1>2. WatchdogInv'
  BY PingKeepsWatchdogInv DEF IInv, WatchdogInv, Heartbeat
<1>3. JoinedIsHeard'
  <2> SUFFICES ASSUME NEW m \in joined'
               PROVE  /\ m \in known'
                      /\ age'[m] <= missed'[m] * (BeatPeriod + 1) + sinceBeat'[m]
    BY DEF JoinedIsHeard
  <2>1. CASE m = n
    <3>1. m \in known' /\ age'[m] = 0 /\ missed'[m] = 0 /\ sinceBeat'[m] = 0
      BY <2>1 DEF IInv, TypeOK, Heartbeat, Ping
    <3>. QED
      BY <3>1, Periods
  <2>2. CASE m # n
    BY <2>2 DEF IInv, TypeOK, JoinedIsHeard, Heartbeat, Ping
  <2>. QED
    BY <2>1, <2>2
<1>4. RunningIsAlive'
  BY PingKeepsAlive DEF IInv, Heartbeat
<1>5. OneReceiver' /\ AlertsAreCounted'
  BY DEF IInv, OneReceiver, AlertsAreCounted, Heartbeat
<1>. QED
  BY <1>1, <1>2, <1>3, <1>4, <1>5 DEF IInv, WatchdogInv

LEMMA HeartbeatLostInvariant ==
    ASSUME IInv, NEW n \in Nodes, HeartbeatLost(n)
    PROVE  IInv'
<1>1. missed[n] \in Nat /\ missed[n] < MaxMissed /\ missed'[n] = missed[n] + 1
      /\ sinceBeat'[n] = 0 /\ sinceBeat[n] \in 0..(BeatPeriod + 1)
  BY DEF IInv, TypeOK, HeartbeatLost
<1>2. TypeOK'
  <2>1. missed' \in [Nodes -> 0..MaxMissed]
    BY <1>1, Periods DEF IInv, TypeOK, HeartbeatLost
  <2>2. sinceBeat' \in [Nodes -> 0..(BeatPeriod + 1)]
    BY Periods DEF IInv, TypeOK, HeartbeatLost
  <2>. QED
    BY <2>1, <2>2 DEF IInv, TypeOK, HeartbeatLost, watchdogVars
<1>3. JoinedIsHeard'
  <2> SUFFICES ASSUME NEW m \in joined
               PROVE  /\ m \in known
                      /\ age[m] <= missed'[m] * (BeatPeriod + 1) + sinceBeat'[m]
    BY DEF JoinedIsHeard, HeartbeatLost
  <2>1. m \in known /\ m \in Nodes /\ age[m] \in Nat
        /\ age[m] <= missed[m] * (BeatPeriod + 1) + sinceBeat[m]
    BY Periods DEF IInv, TypeOK, JoinedIsHeard
  <2>2. CASE m = n
    <3> DEFINE a == missed[n] * (BeatPeriod + 1)
               b == (missed[n] + 1) * (BeatPeriod + 1)
    <3>1. a \in Nat /\ b = a + (BeatPeriod + 1) /\ age[n] <= a + sinceBeat[n]
      BY <1>1, <2>1, <2>2, OneMoreLost, Periods
    <3>2. missed'[n] * (BeatPeriod + 1) + sinceBeat'[n] = b + 0
      BY <1>1
    <3> HIDE DEF a, b
    <3>3. age[n] <= b + 0
      BY <1>1, <2>1, <2>2, <3>1, Periods
    <3>. QED
      BY <2>1, <2>2, <3>2, <3>3
  <2>3. CASE m # n
    BY <2>1, <2>3 DEF IInv, TypeOK, HeartbeatLost
  <2>. QED
    BY <2>2, <2>3
<1>4. WatchdogInv' /\ OneReceiver' /\ AlertsAreCounted' /\ RunningIsAlive'
  BY DEF IInv, WatchdogInv, OneReceiver, DeadIsSilent, AliveWhenChecked, ReportedDeadIsKnown,
         DeathsAreReported, AlertsAreCounted, RunningIsAlive, HeartbeatLost, watchdogVars
<1>. QED
  BY <1>2, <1>3, <1>4 DEF IInv, WatchdogInv
-----------------------------------------------------------------------------
LEMMA AlertArrivesInvariant ==
    ASSUME IInv, NEW n \in Nodes, AlertArrives(n)
    PROVE  IInv'
<1>1. TypeOK'
  BY Periods DEF IInv, TypeOK, AlertArrives, Ping, agentVars, watchdogVars
<1>2. WatchdogInv'
  BY PingKeepsWatchdogInv DEF IInv, WatchdogInv, AlertArrives
<1>3. JoinedIsHeard'
  <2> SUFFICES ASSUME NEW m \in joined
               PROVE  /\ m \in known'
                      /\ age'[m] <= missed[m] * (BeatPeriod + 1) + sinceBeat[m]
    BY DEF JoinedIsHeard, AlertArrives, agentVars
  <2>1. CASE m = n
    <3>1. m \in known' /\ age'[m] = 0 /\ missed[m] \in 0..MaxMissed /\ sinceBeat[m] \in Nat
      BY <2>1, Periods DEF IInv, TypeOK, AlertArrives, Ping
    <3>2. missed[m] * (BeatPeriod + 1) \in Nat
      BY <3>1, Periods
    <3>. QED
      BY <3>1, <3>2
  <2>2. CASE m # n
    BY <2>2 DEF IInv, TypeOK, JoinedIsHeard, AlertArrives, Ping
  <2>. QED
    BY <2>1, <2>2
<1>4. RunningIsAlive'
  BY PingKeepsAlive DEF IInv, AlertArrives, agentVars
<1>5. OneReceiver'
  BY DEF OneReceiver, AlertArrives
<1>6. AlertsAreCounted'
  BY DEF IInv, TypeOK, AlertsAreCounted, AlertArrives
<1>. QED
  BY <1>1, <1>2, <1>3, <1>4, <1>5, <1>6 DEF IInv, WatchdogInv

LEMMA RecordAlertInvariant ==
    ASSUME IInv, NEW n \in Nodes, RecordAlert(n)
    PROVE  IInv'
<1>1. receiving = {n} /\ n \in known
  BY DEF IInv, TypeOK, OneReceiver, RecordAlert
<1>2. TypeOK'
  BY <1>1 DEF IInv, TypeOK, RecordAlert, agentVars, watchdogVars
<1>3. AlertsAreCounted'
  BY <1>1 DEF IInv, TypeOK, AlertsAreCounted, RecordAlert
<1>4. OneReceiver'
  BY DEF OneReceiver, RecordAlert
<1>5. WatchdogInv' /\ JoinedIsHeard' /\ RunningIsAlive'
  BY DEF IInv, WatchdogInv, DeadIsSilent, AliveWhenChecked, ReportedDeadIsKnown,
         DeathsAreReported, JoinedIsHeard, RunningIsAlive, RecordAlert, agentVars, watchdogVars
<1>. QED
  BY <1>2, <1>3, <1>4, <1>5 DEF IInv, WatchdogInv
-----------------------------------------------------------------------------
LEMMA WakeUpInvariant ==
    ASSUME IInv, WakeUp
    PROVE  IInv'
<1>1. TypeOK'
  BY DEF IInv, TypeOK, WakeUp, agentVars
<1>2. \A n \in known : /\ n \in Nodes /\ age[n] \in Nat
                       /\ status'[n] = IF n \in Silent THEN "DEAD" ELSE status[n]
                       /\ status[n] \in {"ALIVE", "DEAD"}
  BY Periods DEF IInv, TypeOK, WakeUp
<1>3. UNCHANGED <<known, age, reportedDead, announced, timer>>
      /\ watchdog = "asleep" /\ watchdog' = "checked" /\ timer = Period
  BY DEF WakeUp
<1>4. DeadIsSilent'
  BY <1>2, <1>3 DEF IInv, DeadIsSilent, Silent
<1>5. AliveWhenChecked'
  BY <1>2, <1>3, Periods DEF AliveWhenChecked, Silent
<1>6. ReportedDeadIsKnown'
  BY <1>2, <1>3, Periods DEF IInv, ReportedDeadIsKnown, DeathsAreReported, Silent
<1>7. DeathsAreReported'
  BY <1>3 DEF DeathsAreReported
<1>8. RunningIsAlive'
  <2> SUFFICES ASSUME NEW n \in joined PROVE status'[n] = "ALIVE"
    BY DEF RunningIsAlive, WakeUp, agentVars
  <2>1. n \in known /\ age[n] <= DeadThreshold
    BY HeardIsFresh DEF IInv
  <2>2. n \notin Silent
    BY <1>2, <2>1, Periods DEF Silent
  <2>. QED
    BY <1>2, <2>1, <2>2 DEF IInv, RunningIsAlive
<1>9. OneReceiver' /\ AlertsAreCounted' /\ JoinedIsHeard'
  BY DEF IInv, OneReceiver, AlertsAreCounted, JoinedIsHeard, WakeUp, agentVars
<1>. QED
  BY <1>1, <1>4, <1>5, <1>6, <1>7, <1>8, <1>9 DEF IInv

LEMMA ReportInvariant ==
    ASSUME IInv, Report
    PROVE  IInv'
<1>1. TypeOK'
  <2>1. announced' \in [Nodes -> BOOLEAN]
    BY Zenon DEF IInv, TypeOK, Report
  <2>2. reportedDead' \in [Nodes -> BOOLEAN]
    BY Zenon DEF IInv, TypeOK, Report
  <2>3. timer' \in 0..Period
    BY Periods DEF Report
  <2>. QED
    BY <2>1, <2>2, <2>3 DEF IInv, TypeOK, Report, agentVars
<1>2. /\ UNCHANGED <<known, status, age>> /\ known \subseteq Nodes
      /\ watchdog = "checked" /\ watchdog' = "asleep" /\ timer' = 0
      /\ \A n \in known : reportedDead'[n] = (n \in Dead)
      /\ \A n \in known : announced'[n] = (announced[n] \/ (n \in Dead /\ ~reportedDead[n]))
  BY DEF IInv, TypeOK, Report
<1>3. DeathsAreReported'
  BY <1>2 DEF IInv, ReportedDeadIsKnown, DeathsAreReported, Dead
<1>4. ReportedDeadIsKnown'
  BY <1>2, <1>3 DEF ReportedDeadIsKnown, DeathsAreReported, Dead
<1>5. DeadIsSilent'
  BY <1>2 DEF IInv, DeadIsSilent
<1>6. AliveWhenChecked'
  BY <1>2, Periods DEF IInv, AliveWhenChecked
<1>7. OneReceiver' /\ AlertsAreCounted' /\ JoinedIsHeard' /\ RunningIsAlive'
  BY DEF IInv, OneReceiver, AlertsAreCounted, JoinedIsHeard, RunningIsAlive, Report, agentVars
<1>. QED
  BY <1>1, <1>3, <1>4, <1>5, <1>6, <1>7 DEF IInv

LEMMA TickInvariant ==
    ASSUME IInv, Tick
    PROVE  IInv'
<1>1. \A n \in Nodes : /\ age[n] \in Nat /\ age'[n] \in Nat
                       /\ age[n] <= age'[n] /\ age'[n] <= age[n] + 1
                       /\ age'[n] <= AgeCap
  BY Periods DEF IInv, TypeOK, Tick, Older
<1>2. \A n \in Nodes : /\ sinceBeat[n] \in Nat
                       /\ sinceBeat'[n] = IF n \in running THEN sinceBeat[n] + 1
                                          ELSE sinceBeat[n]
                       /\ n \in running => sinceBeat[n] <= BeatPeriod
  BY Periods DEF IInv, TypeOK, Tick, HeartbeatOverdue
<1>3. UNCHANGED <<running, missed, joined, known, status, reportedDead, announced>>
      /\ watchdog = "asleep" /\ watchdog' = "asleep"
      /\ timer \in Nat /\ timer < Period /\ timer' = timer + 1
  BY Periods DEF IInv, TypeOK, Tick
<1>4. known \subseteq Nodes /\ joined \subseteq running /\ running \subseteq Nodes
  BY DEF IInv, TypeOK
<1>5. TypeOK'
  <2>1. age' \in [Nodes -> 0..AgeCap]
    BY <1>1, Periods DEF Tick, Older
  <2>2. sinceBeat' \in [Nodes -> 0..(BeatPeriod + 1)]
    BY <1>2, Periods DEF IInv, TypeOK, Tick
  <2>3. timer' \in 0..Period
    BY <1>3, Periods
  <2>. QED
    BY <2>1, <2>2, <2>3 DEF IInv, TypeOK, Tick
<1>6. DeadIsSilent'
  BY <1>1, <1>3, <1>4, Periods DEF IInv, DeadIsSilent
<1>7. AliveWhenChecked'
  BY <1>1, <1>3, <1>4, Periods DEF IInv, AliveWhenChecked
<1>8. ReportedDeadIsKnown'
  BY <1>1, <1>3, <1>4 DEF IInv, ReportedDeadIsKnown
<1>9. DeathsAreReported'
  BY <1>3 DEF IInv, DeathsAreReported
<1>10. JoinedIsHeard'
  <2> SUFFICES ASSUME NEW n \in joined
               PROVE  /\ n \in known
                      /\ age'[n] <= missed[n] * (BeatPeriod + 1) + sinceBeat'[n]
    BY <1>3 DEF JoinedIsHeard
  <2>1. n \in known /\ n \in Nodes /\ missed[n] \in Nat
        /\ age[n] <= missed[n] * (BeatPeriod + 1) + sinceBeat[n]
    BY <1>4 DEF IInv, TypeOK, JoinedIsHeard
  <2>2. sinceBeat'[n] = sinceBeat[n] + 1 /\ sinceBeat[n] \in Nat
    BY <1>2, <1>4
  <2>3. age'[n] \in Nat /\ age[n] \in Nat /\ age'[n] <= age[n] + 1
    BY <1>1, <2>1
  <2> DEFINE a == missed[n] * (BeatPeriod + 1)
  <2>4. a \in Nat /\ age[n] <= a + sinceBeat[n]
    BY <2>1, Periods
  <2> HIDE DEF a
  <2>5. age'[n] <= a + sinceBeat'[n]
    BY <2>2, <2>3, <2>4
  <2>. QED
    BY <2>1, <2>5 DEF a
<1>11. OneReceiver' /\ AlertsAreCounted' /\ RunningIsAlive'
  BY DEF IInv, OneReceiver, AlertsAreCounted, RunningIsAlive, Tick
<1>. QED
  BY <1>5, <1>6, <1>7, <1>8, <1>9, <1>10, <1>11 DEF IInv
-----------------------------------------------------------------------------
LEMMA StepInvariant == IInv /\ [Next]_vars => IInv'
<1> SUFFICES ASSUME IInv, [Next]_vars PROVE IInv'
  OBVIOUS
<1>1. ASSUME NEW n \in Nodes, AgentStarts(n) PROVE IInv'
  BY <1>1, AgentStartsInvariant
<1>2. ASSUME NEW n \in Nodes, AgentStops(n) PROVE IInv'
  BY <1>2, AgentStopsInvariant
<1>3. ASSUME NEW n \in Nodes, Heartbeat(n) PROVE IInv'
  BY <1>3, HeartbeatInvariant
<1>4. ASSUME NEW n \in Nodes, HeartbeatLost(n) PROVE IInv'
  BY <1>4, HeartbeatLostInvariant
<1>5. ASSUME NEW n \in Nodes, AlertArrives(n) PROVE IInv'
  BY <1>5, AlertArrivesInvariant
<1>6. ASSUME NEW n \in Nodes, RecordAlert(n) PROVE IInv'
  BY <1>6, RecordAlertInvariant
<1>7. CASE WakeUp
  BY <1>7, WakeUpInvariant
<1>8. CASE Report
  BY <1>8, ReportInvariant
<1>9. CASE Tick
  BY <1>9, TickInvariant
<1>10. CASE UNCHANGED vars
  BY <1>10 DEF vars, agentVars, watchdogVars, IInv, TypeOK, OneReceiver, DeadIsSilent,
               AliveWhenChecked, ReportedDeadIsKnown, DeathsAreReported, AlertsAreCounted,
               JoinedIsHeard, RunningIsAlive
<1>. QED
  BY <1>1, <1>2, <1>3, <1>4, <1>5, <1>6, <1>7, <1>8, <1>9, <1>10 DEF Next

\* The registry, the agents' heartbeats and the watchdog keep the inductive
\* invariant.
THEOREM RegistryInvariant == Spec => []IInv
<1>. QED
  BY InitInvariant, StepInvariant, PTL DEF Spec

\* Type correctness: timers within their periods, the alert receiver at a known
\* node.
THEOREM RegistryTypes == Spec => []TypeOK
<1>1. IInv => TypeOK
  BY DEF IInv
<1>. QED
  BY <1>1, RegistryInvariant, PTL

\* check_dead_nodes() and ping(), in any order: DEAD is only said of the silent.
THEOREM DeadNodesAreSilent == Spec => []DeadIsSilent
<1>1. IInv => DeadIsSilent
  BY DEF IInv
<1>. QED
  BY <1>1, RegistryInvariant, PTL

\* The watchdog's period bounds how stale ALIVE can be.
THEOREM AliveNodesAreFresh == Spec => []AliveIsFresh
<1>1. IInv => AliveIsFresh
  <2> SUFFICES ASSUME IInv, NEW n \in known, status[n] = "ALIVE"
               PROVE  age[n] <= DeadThreshold + Period
    BY DEF AliveIsFresh
  <2>1. age[n] \in Nat /\ timer \in 0..Period
    BY Periods DEF IInv, TypeOK
  <2>2. age[n] <= DeadThreshold + (IF watchdog = "asleep" THEN timer ELSE 0)
    BY DEF IInv, AliveWhenChecked
  <2>. QED
    BY <2>1, <2>2, Periods
<1>. QED
  BY <1>1, RegistryInvariant, PTL

\* The watchdog reports every death, the second one of a node too.
THEOREM EveryDeathIsReported == Spec => []DeathsAreReported
<1>1. IInv => DeathsAreReported
  BY DEF IInv
<1>. QED
  BY <1>1, RegistryInvariant, PTL

\* record_alert() counts every alert of zmq_alert_receiver once.
THEOREM EveryAlertIsCounted == Spec => []AlertsAreCounted
<1>1. IInv => AlertsAreCounted
  BY DEF IInv
<1>. QED
  BY <1>1, RegistryInvariant, PTL

\* A running agent that was heard is never called DEAD, as long as the losses in
\* a row fit into the threshold.
THEOREM RunningAgentsAreAlive == Spec => []RunningIsAlive
<1>1. IInv => RunningIsAlive
  BY DEF IInv
<1>. QED
  BY <1>1, RegistryInvariant, PTL
=============================================================================
