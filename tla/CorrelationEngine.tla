-------------------------- MODULE CorrelationEngine --------------------------
(***************************************************************************)
(* dlads::CorrelationEngine (include/dlads/correlation_engine.hpp): the    *)
(* coordinator's consensus over the agents' alerts.  ingest() runs under   *)
(* the engine's mutex, so it is one action.                                *)
(*                                                                         *)
(* The vector of entries of a key is modelled as a set: its order only     *)
(* decides the wording of the evidence.  The clock is system_clock,        *)
(* assumed not to go backwards; TicksPerSec ticks make a second, so that   *)
(* the truncation of duration_cast<seconds> is visible.                    *)
(***************************************************************************)
EXTENDS Integers, FiniteSets

CONSTANTS Nodes,         \* agents, an alert's source_host
          Ips,           \* addresses found in an alert's metadata; the rules take
                         \* any token for one, a host's name too
          NoIp,          \* the metadata names no address
          Rules,         \* rule ids
          Inputs,        \* the alerts that may arrive
          WindowSec,     \* correlation_window_sec, 120 in coordinator.cpp
          Threshold,     \* consensus_threshold, 2 in coordinator.cpp
          TicksPerSec,   \* clock ticks in a second
          MaxTime,       \* bound on the clock
          MaxThreats     \* bound on the threats raised

Severities == 0..3       \* LOW, MEDIUM, HIGH, CRITICAL

Alert == [node : Nodes, srcIp : Ips \cup {NoIp}, sourceIp : Ips \cup {NoIp},
          rule : Rules, severity : Severities]

ASSUME EngineAssumption ==
    /\ NoIp \notin Ips
    /\ Inputs \subseteq Alert
    /\ WindowSec \in Nat
    /\ Threshold \in Nat \ {0}
    /\ TicksPerSec \in Nat \ {0}
    /\ MaxTime \in Nat
    /\ MaxThreats \in Nat

Keys == Ips \cup Nodes

VARIABLES index,           \* index_: the live entries of each key
          threatCounter,   \* threat_counter_
          threats,         \* every threat returned to the caller so far
          now,             \* system_clock::now()
          heard            \* history: alerts per key since its last threat

vars == <<index, threatCounter, threats, now, heard>>

Entry == [node : Nodes, rule : Rules, severity : Severities, time : Nat]

Threat == [id : Nat, key : Keys, rule : Rules, severity : Severities,
           confirmedBy : SUBSET Nodes, size : Nat, time : Nat]

TypeOK ==
    /\ index \in [Keys -> SUBSET Entry]
    /\ threatCounter \in Nat \ {0}
    /\ threats \subseteq Threat
    /\ now \in Nat
    /\ heard \in [Keys -> SUBSET [node : Nodes, time : Nat, named : BOOLEAN]]
-----------------------------------------------------------------------------
\* A bug: the fallback is the same for all, so alerts without an address share a key.
SourceIpShared(a) == IF a.srcIp # NoIp THEN a.srcIp
                     ELSE IF a.sourceIp # NoIp THEN a.sourceIp
                     ELSE CHOOSE n \in Nodes : TRUE

\* The key: the address, else the host.
SourceIp(a) == IF a.srcIp # NoIp THEN a.srcIp
               ELSE IF a.sourceIp # NoIp THEN a.sourceIp
               ELSE a.node

\* A bug: nothing is evicted.
ExpiredNever(t, stamp) == FALSE

Expired(t, stamp) == (t - stamp) \div TicksPerSec > WindowSec

\* Bugs in the duplicate test: forgotten, or per rule as well as per node.
AlreadyPresentNever(entries, a) == FALSE
AlreadyPresentPerRule(entries, a) ==
    \E e \in entries : e.node = a.node /\ e.rule = a.rule

AlreadyPresent(entries, a) == \E e \in entries : e.node = a.node

MaxSeverity(entries) ==
    CHOOSE s \in {e.severity : e \in entries} : \A e \in entries : e.severity <= s

\* A bug: the escalation wraps around the top of the scale.
EscalateWrap(s) == (s + 1) % 4

Escalate(s) == IF s = 3 THEN 3 ELSE s + 1

Evict(entries) == {e \in entries : ~Expired(now, e.time)}

\* The entries of the alert's key after eviction and after its own contribution.
Contribute(a) ==
    LET kept == Evict(index[SourceIp(a)])
    IN  IF AlreadyPresent(kept, a) THEN kept
        ELSE kept \cup {[node |-> a.node, rule |-> a.rule,
                         severity |-> a.severity, time |-> now]}

ThreatOf(a, entries) ==
    [id |-> threatCounter, key |-> SourceIp(a), rule |-> a.rule,
     severity |-> Escalate(MaxSeverity(entries)),
     confirmedBy |-> {e.node : e \in entries}, size |-> Cardinality(entries),
     time |-> now]

\* The alert as the history keeps it, with whether it named the key as an address.
Hearsay(a) == [node |-> a.node, time |-> now,
               named |-> a.srcIp # NoIp \/ a.sourceIp # NoIp]

Heard(a) == heard[SourceIp(a)] \cup {Hearsay(a)}

Record(a, entries) ==
    /\ Cardinality(entries) < Threshold
    /\ index' = [index EXCEPT ![SourceIp(a)] = entries]
    /\ heard' = [heard EXCEPT ![SourceIp(a)] = Heard(a)]
    /\ UNCHANGED <<threatCounter, threats, now>>

Raise(a, entries) ==
    /\ Cardinality(entries) >= Threshold
    /\ threatCounter <= MaxThreats
    /\ threats' = threats \cup {ThreatOf(a, entries)}
    /\ threatCounter' = threatCounter + 1
    /\ index' = [index EXCEPT ![SourceIp(a)] = {}]
    /\ heard' = [heard EXCEPT ![SourceIp(a)] = {}]
    /\ UNCHANGED now

Ingest(a) == Record(a, Contribute(a)) \/ Raise(a, Contribute(a))

Tick == /\ now < MaxTime
        /\ now' = now + 1
        /\ UNCHANGED <<index, threatCounter, threats, heard>>

Init == /\ index = [k \in Keys |-> {}]
        /\ threatCounter = 1
        /\ threats = {}
        /\ now = 0
        /\ heard = [k \in Keys |-> {}]

Next == Tick \/ \E a \in Inputs : Ingest(a)

Spec == Init /\ [][Next]_vars
-----------------------------------------------------------------------------
(***************************************************************************)
(* Correctness.                                                            *)
(***************************************************************************)

\* Between two calls no key holds a consensus that was not raised: erasing
\* the key on a threat and firing at the first moment possible leave fewer
\* than Threshold entries behind, whatever was evicted in between.
NoPendingConsensus == \A k \in Keys : Cardinality(index[k]) < Threshold

\* "Confirmed by N nodes": a threat is confirmed by exactly Threshold
\* distinct nodes, and the N of its evidence counts nodes, not alerts.
ExactConsensus ==
    \A t \in threats : t.size = Threshold /\ Cardinality(t.confirmedBy) = Threshold

\* A threat's id names one threat: the engine never returns two with one id.
UniqueThreatIds ==
    /\ \A t, u \in threats : t.id = u.id => t = u
    /\ \A t \in threats : t.id < threatCounter

\* Alerts without an address (sudo use, for one) are keyed by host, and a token taken
\* for an address may be that host's name: then one key holds both.  A host may be
\* confirmed by itself once, but each other node of a threat named the key as an
\* address, inside the window; alerts without an address never add up.
OthersNameTheKey ==
    [][\A a \in Inputs : Ingest(a) =>
         \A t \in threats' \ threats : \A n \in t.confirmedBy \ {t.key} :
            \E h \in Heard(a) : h.node = n /\ h.named /\ ~Expired(now, h.time)]_vars

\* Escalation "one level above": a threat outranks the alert that raised it,
\* unless that is CRITICAL already.  It rests on the trigger never being a
\* repeat, whose severity is not in the entries the maximum is taken of.
OutranksTrigger ==
    [][\A a \in Inputs : Ingest(a) =>
         \A t \in threats' \ threats : t.severity > a.severity \/ t.severity = 3]_vars

\* What makes the properties above inductive: a node has one vote on a key,
\* every vote is an alert that was heard, and that named the key as an address
\* unless it came from the host of that name, and an alert heard without a vote
\* is from a node whose vote grew stale.
Votes ==
    \A k \in Keys :
      /\ IsFiniteSet(index[k])
      /\ \A e, f \in index[k] : e.node = f.node => e = f
      /\ \A e \in index[k] : \E h \in heard[k] :
            h.node = e.node /\ h.time = e.time /\ (h.named \/ h.node = k)
      /\ \A h \in heard[k] :
            \/ \E e \in index[k] : e.node = h.node
            \/ \E g \in heard[k] : g.node = h.node /\ Expired(now, g.time)

IInv == /\ TypeOK /\ NoPendingConsensus /\ Votes
        /\ ExactConsensus /\ UniqueThreatIds

\* What a threat tells about the consensus behind it.
Summary(t) == [key |-> t.key, nodes |-> t.confirmedBy, time |-> t.time]

\* The engine implements the consensus the coordinator promises: a threat only
\* on the word of Threshold nodes that reported the address inside the window,
\* and no alert passed over once Threshold nodes report it steadily.
Promise == INSTANCE Consensus WITH
    Quorums <- {Q \in SUBSET Nodes : Cardinality(Q) >= Threshold},
    reports <- {Summary(t) : t \in threats}

ImplementsConsensus == Promise!Spec

\* What tests/dlads.sh:252 tells the operator: the same src_ip from Threshold
\* agents within the window is a correlated threat.  ingest() does not refresh
\* the entry of a node that is already present, so this does not hold.
EveryRecentNodeCounts ==
    \A k \in Ips : Cardinality(Promise!RecentNodes(now, {h \in heard[k] : h.named})) < Threshold
=============================================================================
