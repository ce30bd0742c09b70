---------------------------- MODULE Coordinator ----------------------------
(***************************************************************************)
(* The coordinator's alert path (zmq_alert_receiver in src/coordinator.cpp *)
(* with include/dlads/alert_store.hpp) around the CorrelationEngine: an    *)
(* alert is saved, then ingested, then its threat is saved, and the        *)
(* process may die between two of these steps.  alerts.db survives it; the *)
(* engine's index and the caches behind the REST API do not.  Nothing      *)
(* looks at what sqlite3_step() returns, so a statement that fails, on a   *)
(* full disk for one, leaves the row out and goes unnoticed.  The REST     *)
(* handlers read the caches and change nothing.                            *)
(*                                                                         *)
(* Agents number their alerts (AlertEvent::next_id, prefixed with the node *)
(* in agent_main.cpp) from 1 in every process.                             *)
(***************************************************************************)
EXTENDS Integers, Sequences, FiniteSets

CONSTANTS Nodes, Ips, NoIp, Rules, Inputs, WindowSec, Threshold, TicksPerSec,
          MaxTime, MaxThreats,    \* as in CorrelationEngine
          AlertCap, ThreatCap,    \* sizes of the caches, 100 and 50
          InFlight,               \* bound on the alerts in ZMQ's queues
          MaxSeq,                 \* bound on an agent's alert numbers
          MaxRestarts,            \* bound on the restarts of the coordinator,
          MaxAgentRestarts,       \* and of each agent
          MaxFailures             \* bound on the statements that fail

VARIABLES index, threatCounter, threats, now, heard,   \* the engine
          alertRows,      \* table alerts
          threatRows,     \* table threats
          recentAlerts,   \* recent_alerts_
          recentThreats,  \* recent_threats_
          inbox,          \* alerts on their way to the receiver
          receiver,       \* where zmq_alert_receiver stands
          message,        \* the alert in its hand
          nextSeq,        \* the next alert number of each agent
          agentBoots,     \* restarts of each agent so far
          boots,          \* restarts of the coordinator so far
          lostAlerts,     \* history: rows a failing statement left out,
          lostThreats,    \* of each table; alerts handed to save_alert() in
          saved,          \* any life; rows of threats the last restart found
          oldRows

engineVars == <<index, threatCounter, threats, now, heard>>
storeVars  == <<alertRows, threatRows, recentAlerts, recentThreats, lostAlerts, lostThreats,
               saved, oldRows>>
agentVars  == <<nextSeq, agentBoots>>
vars == <<engineVars, storeVars, inbox, receiver, message, agentVars, boots>>

Engine == INSTANCE CorrelationEngine

ASSUME CoordinatorAssumption ==
    /\ Engine!EngineAssumption
    /\ AlertCap \in Nat \ {0} /\ ThreatCap \in Nat \ {0}
    /\ InFlight \in Nat \ {0} /\ MaxSeq \in Nat
    /\ MaxRestarts \in Nat /\ MaxAgentRestarts \in [Nodes -> Nat] /\ MaxFailures \in Nat

Lives == UNION {0..MaxAgentRestarts[n] : n \in Nodes}

Messages == [id : Nodes \X (1..MaxSeq), alert : Inputs, boot : Lives]

TypeOK ==
    /\ Engine!TypeOK
    /\ alertRows \subseteq Messages
    /\ threatRows \subseteq Engine!Threat
    /\ lostAlerts \subseteq Messages /\ lostThreats \subseteq Engine!Threat
    /\ saved \subseteq Messages /\ oldRows \subseteq Engine!Threat
    /\ recentAlerts \in Seq(Messages) /\ Len(recentAlerts) <= AlertCap
    /\ recentThreats \in Seq(Engine!Threat) /\ Len(recentThreats) <= ThreatCap
    /\ inbox \in Seq(Messages) /\ Len(inbox) <= InFlight
    /\ receiver \in {"recv", "saveAlert", "ingest", "saveThreat"}
    /\ message \subseteq Messages /\ \A x, y \in message : x = y
    /\ nextSeq \in [Nodes -> 1..(MaxSeq + 1)]
    /\ agentBoots \in [Nodes -> Lives] /\ boots \in 0..MaxRestarts
-----------------------------------------------------------------------------
\* A bug in the agent: the number without the node.
AlertIdShared(n, seq) == <<CHOOSE m \in Nodes : TRUE, seq>>

AlertId(n, seq) == <<n, seq>>

\* INSERT OR IGNORE: a row with the id that is there already stays.
InsertOrIgnore(rows, row) ==
    IF \E r \in rows : r.id = row.id THEN rows ELSE rows \cup {row}

\* The table after the statement: as it was, when the statement fails.
Execute(rows, row) ==
    {InsertOrIgnore(rows, row)} \cup
    (IF Cardinality(lostAlerts) + Cardinality(lostThreats) < MaxFailures THEN {rows} ELSE {})

\* A bug: the newest is erased, not the oldest.
CacheReplacesNewest(cache, cap, e) ==
    IF Len(cache) + 1 > cap THEN Append(SubSeq(cache, 1, cap - 1), e) ELSE Append(cache, e)

\* push_back, then erase the oldest when there are too many.
Cache(cache, cap, e) ==
    IF Len(cache) + 1 > cap THEN Tail(Append(cache, e)) ELSE Append(cache, e)
-----------------------------------------------------------------------------
\* An agent fires an alert; PUB drops it when the coordinator is not subscribed
\* yet, or it waits for the receiver.
FireAlert(a) ==
    /\ nextSeq[a.node] <= MaxSeq
    /\ nextSeq' = [nextSeq EXCEPT ![a.node] = @ + 1]
    /\ \/ UNCHANGED inbox
       \/ /\ Len(inbox) < InFlight
          /\ inbox' = Append(inbox, [id |-> AlertId(a.node, nextSeq[a.node]), alert |-> a,
                                     boot |-> agentBoots[a.node]])
    /\ UNCHANGED <<engineVars, storeVars, receiver, message, agentBoots, boots>>

\* sub.recv()
Receive ==
    /\ receiver = "recv" /\ inbox # <<>>
    /\ receiver' = "saveAlert" /\ message' = {Head(inbox)} /\ inbox' = Tail(inbox)
    /\ UNCHANGED <<engineVars, storeVars, agentVars, boots>>

\* A bug: the alert reaches the engine before it is saved, and is saved only
\* when it raises nothing.
SaveAlertSkipped ==
    /\ receiver = "saveAlert" /\ receiver' = "ingest"
    /\ UNCHANGED <<engineVars, storeVars, inbox, message, agentVars, boots>>

\* store.save_alert()
SaveAlert ==
    /\ receiver = "saveAlert" /\ receiver' = "ingest"
    /\ \E m \in message :
          /\ alertRows' \in Execute(alertRows, m)
          /\ lostAlerts' = lostAlerts \cup (InsertOrIgnore(alertRows, m) \ alertRows')
          /\ recentAlerts' = Cache(recentAlerts, AlertCap, m)
          /\ saved' = saved \cup {m}
    /\ UNCHANGED <<engineVars, threatRows, recentThreats, lostThreats, oldRows, inbox, message,
                   agentVars, boots>>

\* engine.ingest()
IngestAlert ==
    /\ receiver = "ingest"
    /\ \E m \in message : Engine!Ingest(m.alert)
    /\ \/ threats' # threats /\ receiver' = "saveThreat" /\ UNCHANGED message
       \/ threats' = threats /\ receiver' = "recv" /\ message' = {}
    /\ UNCHANGED <<storeVars, inbox, agentVars, boots>>

NewThreat == CHOOSE t \in threats : t.id = threatCounter - 1

\* A bug: the threat goes to the cache, its row is never written.
SaveThreatCacheOnly ==
    /\ receiver = "saveThreat" /\ receiver' = "recv" /\ message' = {}
    /\ recentThreats' = Cache(recentThreats, ThreatCap, NewThreat)
    /\ UNCHANGED <<engineVars, alertRows, threatRows, recentAlerts, lostAlerts, lostThreats,
                   saved, oldRows, inbox, agentVars, boots>>

\* store.save_threat()
SaveThreat ==
    /\ receiver = "saveThreat" /\ receiver' = "recv" /\ message' = {}
    /\ threatRows' \in Execute(threatRows, NewThreat)
    /\ lostThreats' = lostThreats \cup (InsertOrIgnore(threatRows, NewThreat) \ threatRows')
    /\ recentThreats' = Cache(recentThreats, ThreatCap, NewThreat)
    /\ UNCHANGED <<engineVars, alertRows, recentAlerts, lostAlerts, saved, oldRows, inbox,
                   agentVars, boots>>

Tick == Engine!Tick /\ UNCHANGED <<storeVars, inbox, receiver, message, agentVars, boots>>

\* The coordinator dies and is started again on the same alerts.db.  What its
\* socket had received is lost; what an agent's socket holds may still come.
Restart ==
    /\ boots < MaxRestarts /\ boots' = boots + 1
    /\ index' = [k \in Engine!Keys |-> {}] /\ heard' = [k \in Engine!Keys |-> {}]
    /\ threatCounter' = 1 /\ threats' = {}
    /\ recentAlerts' = <<>> /\ recentThreats' = <<>> /\ oldRows' = threatRows
    /\ receiver' = "recv" /\ message' = {} /\ inbox' \in {<<>>, inbox}
    /\ UNCHANGED <<now, alertRows, threatRows, lostAlerts, lostThreats, saved, agentVars>>

AgentRestarts(n) ==
    /\ agentBoots[n] < MaxAgentRestarts[n]
    /\ agentBoots' = [agentBoots EXCEPT ![n] = @ + 1]
    /\ nextSeq' = [nextSeq EXCEPT ![n] = 1]
    /\ UNCHANGED <<engineVars, storeVars, inbox, receiver, message, boots>>

Init == /\ Engine!Init
        /\ alertRows = {} /\ threatRows = {}
        /\ recentAlerts = <<>> /\ recentThreats = <<>>
        /\ inbox = <<>> /\ receiver = "recv" /\ message = {}
        /\ nextSeq = [n \in Nodes |-> 1] /\ agentBoots = [n \in Nodes |-> 0]
        /\ boots = 0 /\ lostAlerts = {} /\ lostThreats = {}
        /\ saved = {} /\ oldRows = {}

Next == \/ \E a \in Inputs : FireAlert(a)
        \/ Receive \/ SaveAlert \/ IngestAlert \/ SaveThreat \/ Tick \/ Restart
        \/ \E n \in Nodes : AgentRestarts(n)

Spec == Init /\ [][Next]_vars
-----------------------------------------------------------------------------
\* What became of an alert that was received: it is in the table, unless its statement
\* failed or the row under its id is of another life of its agent, whose numbers began
\* anew.
Stored(m) == \/ m \in alertRows \cup lostAlerts
             \/ \E r \in alertRows : r.id = m.id /\ r.boot # m.boot

Backed(n, k) == \E m \in saved : m.alert.node = n /\ Engine!SourceIp(m.alert) = k /\ Stored(m)

\* No alert that was received, in any life of the coordinator, is missing from the
\* table but for these two reasons.
AlertsArePersisted == \A m \in saved : Stored(m)

\* A threat on disk stands on alerts on disk: whenever the process died, each node
\* that confirms a stored threat sent an alert about its address that was saved before,
\* and is stored but for the two reasons.
ThreatsAreBacked == \A t \in threatRows : \A n \in t.confirmedBy : Backed(n, t.key)

\* What GET /threats shows is stored, but for threats whose statement failed and,
\* after a restart, for those whose id a row of an earlier life has.
ShownThreatsAreStored ==
    \A i \in 1..Len(recentThreats) :
        \/ recentThreats[i] \in threatRows \cup lostThreats
        \/ \E r \in oldRows : r.id = recentThreats[i].id

\* What makes the three inductive.  The alerts anywhere in the system: their ids
\* name their agent, and one id in one life of an agent is one alert.
InHand == {inbox[i] : i \in 1..Len(inbox)} \cup {recentAlerts[i] : i \in 1..Len(recentAlerts)}
Known == alertRows \cup lostAlerts \cup message \cup InHand

Numbered ==
    \A m \in Known :
        /\ m.id[1] = m.alert.node
        /\ m.boot <= agentBoots[m.alert.node]
        /\ m.boot = agentBoots[m.alert.node] => m.id[2] < nextSeq[m.alert.node]

Unique == \A m, o \in Known : m.id = o.id /\ m.boot = o.boot => m = o

\* An alert is saved before the engine sees it, so what the engine holds is backed by
\* the table before it becomes a threat.
EngineIsBacked ==
    /\ receiver = "ingest" => message \subseteq saved
    /\ \A k \in Engine!Keys : \A e \in index[k] : Backed(e.node, k)
    /\ \A t \in threats : \A n \in t.confirmedBy : Backed(n, t.key)

\* Beside the rows of earlier lives the table holds threats of this engine, and the
\* one about to be saved has an id that none of these has.
RowsAreOlder ==
    /\ receiver = "saveThreat" => \E t \in threats : t.id = threatCounter - 1
    /\ oldRows \subseteq threatRows
    /\ \A r \in threatRows \ oldRows :
          r.id < (IF receiver = "saveThreat" THEN threatCounter - 1 ELSE threatCounter)

IInv == /\ TypeOK /\ Engine!IInv
        /\ Numbered /\ Unique /\ EngineIsBacked /\ RowsAreOlder
        /\ AlertsArePersisted /\ ThreatsAreBacked /\ ShownThreatsAreStored

\* The cache behind GET /alerts holds the last AlertCap received, in order;
\* a restart clears it.
AlertWindow == INSTANCE SlidingWindow
    WITH Values <- Messages, Cap <- AlertCap, window <- recentAlerts

AlertsAreRecent == AlertWindow!Spec

\* save_threat() "Save a correlated threat": a threat handed to the store is
\* stored, when no statement fails.  After a restart its id is one that is taken.
SavedThreatsAreStored ==
    receiver = "recv" => \A i \in 1..Len(recentThreats) :
                            recentThreats[i] \in threatRows \cup lostThreats
=============================================================================
