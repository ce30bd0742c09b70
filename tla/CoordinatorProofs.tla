-------------------------- MODULE CoordinatorProofs --------------------------
(***************************************************************************)
(* The store behind the coordinator, for every number of agents, alerts,   *)
(* restarts and failing statements.  What the engine does within a step is *)
(* taken from CorrelationEngineProofs.                                     *)
(***************************************************************************)
EXTENDS Coordinator, FiniteSetTheorems, SequenceTheorems, TLAPS

Proved == INSTANCE CorrelationEngineProofs

-----------------------------------------------------------------------------
(* The engine inside the coordinator. *)

\* The two instances of the engine are one.
LEMMA SameAssumption == Proved!EngineAssumption
BY CoordinatorAssumption
DEF Engine!EngineAssumption, Proved!EngineAssumption, Engine!Alert, Proved!Alert,
    Engine!Severities, Proved!Severities

LEMMA SameCardinality ==
    \A S : /\ Engine!Cardinality(S) = Proved!Cardinality(S)
           /\ Engine!IsFiniteSet(S) = Proved!IsFiniteSet(S)
BY DEF Engine!Cardinality, Proved!Cardinality, Engine!IsFiniteSet, Proved!IsFiniteSet

LEMMA SameOperators ==
    /\ Engine!Keys = Proved!Keys
    /\ Engine!Threat = Proved!Threat
    /\ \A a : Engine!SourceIp(a) = Proved!SourceIp(a)
    /\ \A a : Engine!Contribute(a) = Proved!Contribute(a)
<1>1. Engine!Keys = Proved!Keys
  BY DEF Engine!Keys, Proved!Keys
<1>2. Engine!Threat = Proved!Threat
  BY <1>1 DEF Engine!Threat, Proved!Threat, Engine!Severities, Proved!Severities
<1>3. \A a : Engine!SourceIp(a) = Proved!SourceIp(a)
  BY DEF Engine!SourceIp, Proved!SourceIp
<1>4. \A s : Engine!Evict(s) = Proved!Evict(s)
  BY DEF Engine!Evict, Proved!Evict, Engine!Expired, Proved!Expired
<1>5. \A s, a : Engine!AlreadyPresent(s, a) = Proved!AlreadyPresent(s, a)
  BY DEF Engine!AlreadyPresent, Proved!AlreadyPresent
<1>6. \A a : Engine!Contribute(a) = Proved!Contribute(a)
  BY <1>3, <1>4, <1>5 DEF Engine!Contribute, Proved!Contribute
<1>. QED
  BY <1>1, <1>2, <1>3, <1>6

LEMMA SameInvariant == Engine!IInv <=> Proved!IInv
<1>1. Engine!TypeOK <=> Proved!TypeOK
  BY SameOperators DEF Engine!TypeOK, Proved!TypeOK, Engine!Entry, Proved!Entry,
     Engine!Severities, Proved!Severities
<1>2. Engine!NoPendingConsensus <=> Proved!NoPendingConsensus
  BY SameOperators, SameCardinality DEF Engine!NoPendingConsensus, Proved!NoPendingConsensus
<1>3. Engine!Votes <=> Proved!Votes
  BY SameOperators, SameCardinality DEF Engine!Votes, Proved!Votes, Engine!Expired, Proved!Expired
<1>4. Engine!ExactConsensus <=> Proved!ExactConsensus
  BY SameCardinality DEF Engine!ExactConsensus, Proved!ExactConsensus
<1>5. Engine!UniqueThreatIds <=> Proved!UniqueThreatIds
  BY DEF Engine!UniqueThreatIds, Proved!UniqueThreatIds
<1>. QED
  BY <1>1, <1>2, <1>3, <1>4, <1>5 DEF Engine!IInv, Proved!IInv

LEMMA SameIngest ==
    ASSUME NEW a PROVE Engine!Ingest(a) <=> Proved!Ingest(a)
<1>1. Engine!Heard(a) = Proved!Heard(a)
  BY SameOperators DEF Engine!Heard, Proved!Heard, Engine!Hearsay, Proved!Hearsay
<1>2. \A S : Engine!MaxSeverity(S) = Proved!MaxSeverity(S)
  BY DEF Engine!MaxSeverity, Proved!MaxSeverity
<1>3. \A s : Engine!Escalate(s) = Proved!Escalate(s)
  BY DEF Engine!Escalate, Proved!Escalate
<1>4. \A S : Engine!ThreatOf(a, S) = Proved!ThreatOf(a, S)
  BY <1>2, <1>3, SameOperators, SameCardinality DEF Engine!ThreatOf, Proved!ThreatOf
<1>5. \A S : Engine!Record(a, S) <=> Proved!Record(a, S)
  BY <1>1, SameOperators, SameCardinality DEF Engine!Record, Proved!Record
<1>6. \A S : Engine!Raise(a, S) <=> Proved!Raise(a, S)
  BY <1>4, SameOperators, SameCardinality DEF Engine!Raise, Proved!Raise
<1>. QED
  BY <1>5, <1>6, SameOperators DEF Engine!Ingest, Proved!Ingest

LEMMA EngineKeeps ==
    ASSUME Engine!IInv, Engine!Tick \/ \E a \in Inputs : Engine!Ingest(a)
    PROVE  Engine!IInv'
<1>1. Proved!IInv
  BY SameInvariant
<1>2. Engine!Tick <=> Proved!Tick
  BY DEF Engine!Tick, Proved!Tick
<1>3. Proved!Next
  BY <1>2, SameIngest DEF Proved!Next
<1>4. Proved!IInv'
  BY <1>1, <1>3, SameAssumption, Proved!NextInvariant
<1>. QED
  BY <1>4, SameInvariant, PTL

\* A restart leaves the empty engine, whose clock went on.
LEMMA RestartKeeps ==
    ASSUME Engine!IInv, Restart
    PROVE  Engine!IInv'
<1>1. /\ \A k \in Proved!Keys : index'[k] = {} /\ heard'[k] = {}
      /\ index' = [k \in Proved!Keys |-> {}] /\ heard' = [k \in Proved!Keys |-> {}]
      /\ threatCounter' = 1 /\ threats' = {} /\ now' = now
  BY SameOperators DEF Restart
<1>2. Proved!TypeOK'
  BY <1>1, SameInvariant DEF Proved!IInv, Proved!TypeOK
<1>3. /\ Proved!Cardinality({}) = 0 /\ Proved!IsFiniteSet({})
      /\ Threshold \in Nat \ {0}
  BY FS_EmptySet, SameAssumption
  DEF Proved!Cardinality, Cardinality, Proved!IsFiniteSet, IsFiniteSet, Proved!EngineAssumption
<1>4. Proved!NoPendingConsensus' /\ Proved!Votes'
  BY <1>1, <1>3 DEF Proved!NoPendingConsensus, Proved!Votes
<1>5. Proved!ExactConsensus' /\ Proved!UniqueThreatIds'
  BY <1>1 DEF Proved!ExactConsensus, Proved!UniqueThreatIds
<1>6. Proved!IInv'
  BY <1>2, <1>4, <1>5 DEF Proved!IInv
<1>. QED
  BY <1>6, SameInvariant, PTL

\* What the rest of the coordinator sees of an ingest: the entries it adds are of
\* the alert's node and address, and so is what a new threat adds to the entries.
LEMMA IngestFacts ==
    ASSUME Engine!IInv, NEW a \in Inputs, Engine!Ingest(a)
    PROVE  /\ \A k \in Engine!Keys : \A e \in index'[k] :
                 e \in index[k] \/ (k = Engine!SourceIp(a) /\ e.node = a.node)
           /\ threats \subseteq threats'
           /\ \A t \in threats' \ threats :
                 /\ t.id = threatCounter /\ t.key = Engine!SourceIp(a)
                 /\ \A n \in t.confirmedBy :
                       n = a.node \/ \E e \in index[t.key] : e.node = n
           /\ threats' # threats =>
                 (threatCounter' = threatCounter + 1 /\ \E t \in threats' : t.id = threatCounter)
           /\ threats' = threats => threatCounter' = threatCounter
<1> DEFINE C == Engine!Contribute(a)
           K == Engine!SourceIp(a)
<1>1. /\ a.node \in Nodes /\ K \in Engine!Keys
      /\ index \in [Engine!Keys -> SUBSET Engine!Entry]
      /\ threatCounter \in Nat /\ threats \subseteq Engine!Threat
      /\ \A t \in threats : t.id < threatCounter
  <2>1. a \in Engine!Alert
    BY CoordinatorAssumption DEF Engine!EngineAssumption
  <2>2. a.node \in Nodes /\ K \in Engine!Keys
    BY <2>1 DEF Engine!Alert, Engine!SourceIp, Engine!Keys
  <2>. QED
    BY <2>2 DEF Engine!IInv, Engine!TypeOK, Engine!UniqueThreatIds
<1>2. \A e \in C : e \in index[K] \/ e.node = a.node
  BY DEF Engine!Contribute, Engine!Evict
<1> HIDE DEF C, K
<1>3. CASE Engine!Record(a, C)
  <2>1. /\ index' = [index EXCEPT ![K] = C]
        /\ threats' = threats /\ threatCounter' = threatCounter
    BY <1>3 DEF Engine!Record, K
  <2>. QED
    BY <1>1, <1>2, <2>1 DEF K
<1>4. CASE Engine!Raise(a, C)
  <2> DEFINE t == Engine!ThreatOf(a, C)
  <2>1. /\ index' = [index EXCEPT ![K] = {}]
        /\ threats' = threats \cup {t} /\ threatCounter' = threatCounter + 1
    BY <1>4 DEF Engine!Raise, K
  <2>2. /\ t.id = threatCounter /\ t.key = K
        /\ t.confirmedBy = {e.node : e \in C}
    BY DEF Engine!ThreatOf, K
  <2> HIDE DEF t
  <2>3. t \notin threats
    BY <1>1, <2>2
  <2>4. \A n \in t.confirmedBy : n = a.node \/ \E e \in index[t.key] : e.node = n
    BY <1>2, <2>2
  <2>. QED
    BY <1>1, <2>1, <2>2, <2>3, <2>4 DEF K
<1>. QED
  BY <1>3, <1>4 DEF Engine!Ingest, C

-----------------------------------------------------------------------------
(* Tables and caches. *)

LEMMA TableFacts ==
    ASSUME NEW rows, NEW row
    PROVE  /\ InsertOrIgnore(rows, row) \in {rows, rows \cup {row}}
           /\ \/ row \in InsertOrIgnore(rows, row)
              \/ \E r \in rows : r.id = row.id
           /\ \A t \in Execute(rows, row) : t \in {rows, rows \cup {row}}
           /\ \A t \in Execute(rows, row) :
                 t \cup (InsertOrIgnore(rows, row) \ t) = t \cup InsertOrIgnore(rows, row)
BY DEF InsertOrIgnore, Execute

LEMMA CacheFacts ==
    ASSUME NEW S, NEW cache \in Seq(S), NEW e \in S, NEW cap \in Nat \ {0}, Len(cache) <= cap
    PROVE  /\ Cache(cache, cap, e) \in Seq(S)
           /\ Len(Cache(cache, cap, e)) <= cap
           /\ \A i \in 1..Len(Cache(cache, cap, e)) :
                 \/ Cache(cache, cap, e)[i] = e
                 \/ \E j \in 1..Len(cache) : Cache(cache, cap, e)[i] = cache[j]
<1> DEFINE b == Append(cache, e)
<1>1. /\ b \in Seq(S) /\ Len(b) = Len(cache) + 1 /\ Len(cache) \in Nat
      /\ \A i \in 1..Len(cache) : b[i] = cache[i]
      /\ b[Len(cache) + 1] = e
  OBVIOUS
<1> HIDE DEF b
<1>2. CASE Len(cache) + 1 > cap
  <2>1. b # <<>>
    BY <1>1
  <2>2. /\ Tail(b) \in Seq(S) /\ Len(Tail(b)) = Len(b) - 1
        /\ \A i \in 1..(Len(b) - 1) : Tail(b)[i] = b[i + 1]
    <3>1. b \in Seq(S)
      BY <1>1
    <3>2. /\ Tail(b) \in Seq(S) /\ Len(Tail(b)) = Len(b) - 1
          /\ \A i \in 1..Len(Tail(b)) : Tail(b)[i] = b[i + 1]
      BY <2>1, <3>1, HeadTailProperties
    <3>. QED
      BY <3>2
  <2>3. Cache(cache, cap, e) = Tail(b)
    BY <1>2 DEF Cache, b
  <2>4. ASSUME NEW i \in 1..Len(Tail(b))
        PROVE  Tail(b)[i] = e \/ \E j \in 1..Len(cache) : Tail(b)[i] = cache[j]
    <3>1. Tail(b)[i] = b[i + 1] /\ i \in 1..Len(cache)
      BY <1>1, <2>2
    <3>2. CASE i = Len(cache)
      BY <1>1, <3>1, <3>2
    <3>3. CASE i # Len(cache)
      <4>1. i + 1 \in 1..Len(cache)
        BY <1>1, <3>1, <3>3
      <4>. QED
        BY <1>1, <3>1, <4>1
    <3>. QED
      BY <3>2, <3>3
  <2>5. Len(Tail(b)) <= cap
    BY <1>1, <2>2
  <2>. QED
    BY <2>2, <2>3, <2>4, <2>5
<1>3. CASE ~(Len(cache) + 1 > cap)
  <2>1. Cache(cache, cap, e) = b
    BY <1>3 DEF Cache, b
  <2>. QED
    BY <1>1, <1>3, <2>1
<1>. QED
  BY <1>2, <1>3

\* What the cache does is the window's push.
LEMMA CacheIsPush ==
    ASSUME NEW S, NEW cache \in Seq(S), NEW e \in S, NEW cap \in Nat \ {0}, Len(cache) <= cap
    PROVE  Cache(cache, cap, e) = IF Len(cache) < cap THEN Append(cache, e)
                                  ELSE Append(Tail(cache), e)
<1>1. CASE Len(cache) < cap
  BY <1>1 DEF Cache
<1>2. CASE Len(cache) = cap
  <2>1. Append(cache, e) \in Seq(S) /\ Len(Append(cache, e)) = cap + 1
    BY <1>2
  <2>2. Tail(cache) \in Seq(S) /\ Len(Tail(cache)) = cap - 1
    BY <1>2
  <2>3. /\ Tail(Append(cache, e)) \in Seq(S) /\ Len(Tail(Append(cache, e))) = cap
        /\ Append(Tail(cache), e) \in Seq(S) /\ Len(Append(Tail(cache), e)) = cap
    BY <2>1, <2>2
  <2>4. \A i \in 1..cap : Tail(Append(cache, e))[i] = Append(Tail(cache), e)[i]
    BY <1>2, <2>1, <2>2, <2>3
  <2>5. Tail(Append(cache, e)) = Append(Tail(cache), e)
    BY <2>3, <2>4, SeqEqual
  <2>6. Len(cache) + 1 > cap /\ ~(Len(cache) < cap)
    BY <1>2
  <2>. QED
    BY <2>5, <2>6, Zenon DEF Cache
<1>. QED
  BY <1>1, <1>2

-----------------------------------------------------------------------------
(* The invariant, action by action. *)

LEMMA EngineStutters ==
    ASSUME Engine!IInv, UNCHANGED engineVars
    PROVE  Engine!IInv'
<1>1. Proved!IInv /\ UNCHANGED Proved!vars
  BY SameInvariant DEF engineVars, Proved!vars
<1>2. Proved!IInv'
  BY <1>1, SameAssumption, Proved!NextInvariant
<1>. QED
  BY <1>2, SameInvariant, PTL

LEMMA LivesAreNumbers == Lives \subseteq Nat
BY CoordinatorAssumption DEF Lives

LEMMA KnownShrinks ==
    ASSUME Numbered, Unique, Known' \subseteq Known, UNCHANGED agentVars
    PROVE  Numbered' /\ Unique'
BY DEF Numbered, Unique, agentVars

\* What the engine and the tables say stays true when only alerts move.
LEMMA StoreStutters ==
    ASSUME IInv, UNCHANGED <<engineVars, storeVars, agentBoots, boots>>,
           receiver' # "ingest", receiver' = "saveThreat" <=> receiver = "saveThreat"
    PROVE  /\ EngineIsBacked' /\ RowsAreOlder'
           /\ AlertsArePersisted' /\ ThreatsAreBacked' /\ ShownThreatsAreStored'
<1>1. \A n, k : Backed(n, k)' <=> Backed(n, k)
  BY DEF Backed, Stored, storeVars, Engine!SourceIp
<1>2. EngineIsBacked'
  BY <1>1 DEF IInv, EngineIsBacked, engineVars
<1>3. RowsAreOlder'
  BY DEF IInv, RowsAreOlder, engineVars, storeVars
<1>4. AlertsArePersisted' /\ ShownThreatsAreStored'
  BY DEF IInv, AlertsArePersisted, Stored, ShownThreatsAreStored, storeVars
<1>5. ThreatsAreBacked'
  BY <1>1 DEF IInv, ThreatsAreBacked, storeVars
<1>. QED
  BY <1>2, <1>3, <1>4, <1>5

LEMMA InitInvariant == Init => IInv
<1> SUFFICES ASSUME Init PROVE IInv
  OBVIOUS
<1>1. Proved!Init
  BY SameOperators DEF Init, Engine!Init, Proved!Init
<1>2. Engine!IInv
  BY <1>1, SameAssumption, Proved!InitInvariant, SameInvariant
<1>3. \A n \in Nodes : 0 \in Lives
  BY CoordinatorAssumption DEF Lives
<1>4. TypeOK
  BY <1>2, <1>3, CoordinatorAssumption, FS_EmptySet DEF Init, TypeOK, Engine!IInv
<1>5. Known = {}
  BY DEF Init, Known, InHand
<1>6. /\ \A k \in Engine!Keys : index[k] = {}
      /\ threats = {} /\ saved = {} /\ threatRows = {} /\ oldRows = {}
      /\ recentAlerts = <<>> /\ recentThreats = <<>> /\ receiver = "recv"
  BY DEF Init, Engine!Init
<1>. QED
  BY <1>2, <1>4, <1>5, <1>6
  DEF IInv, Numbered, Unique, EngineIsBacked, RowsAreOlder, AlertsArePersisted,
      ThreatsAreBacked, ShownThreatsAreStored

LEMMA FireInvariant ==
    ASSUME IInv, NEW a \in Inputs, FireAlert(a)
    PROVE  IInv'
<1> DEFINE n == a.node
           m == [id |-> AlertId(n, nextSeq[n]), alert |-> a, boot |-> agentBoots[n]]
<1>1. /\ UNCHANGED <<engineVars, storeVars, receiver, message, agentBoots, boots>>
      /\ nextSeq' = [nextSeq EXCEPT ![n] = @ + 1] /\ nextSeq[n] <= MaxSeq
      /\ inbox' = inbox \/ (Len(inbox) < InFlight /\ inbox' = Append(inbox, m))
  BY DEF FireAlert
<1>2. n \in Nodes
  BY CoordinatorAssumption DEF Engine!EngineAssumption, Engine!Alert
<1>3. TypeOK /\ Engine!IInv
  BY DEF IInv
<1>4. Engine!IInv'
  BY <1>1, <1>3, EngineStutters
<1>5. /\ nextSeq[n] \in 1..MaxSeq /\ MaxSeq \in Nat
      /\ agentBoots[n] \in Lives /\ m \in Messages
  BY <1>1, <1>2, <1>3, CoordinatorAssumption DEF TypeOK, Messages, AlertId
<1>6. m.id = <<n, nextSeq[n]>> /\ m.alert = a /\ m.boot = agentBoots[n]
  BY DEF AlertId
<1> HIDE DEF m
<1>7. /\ inbox' \in Seq(Messages) /\ Len(inbox') <= InFlight
      /\ Known' \subseteq Known \cup {m}
  <2>1. inbox \in Seq(Messages) /\ Len(inbox) <= InFlight /\ InFlight \in Nat
    BY <1>3, CoordinatorAssumption DEF TypeOK
  <2>2. CASE inbox' = inbox
    BY <1>1, <2>1, <2>2 DEF Known, InHand, storeVars
  <2>3. CASE Len(inbox) < InFlight /\ inbox' = Append(inbox, m)
    <3>1. /\ inbox' \in Seq(Messages) /\ Len(inbox') = Len(inbox) + 1
          /\ \A i \in 1..Len(inbox') : inbox'[i] = m \/ (i \in 1..Len(inbox) /\ inbox'[i] = inbox[i])
      BY <1>5, <2>1, <2>3
    <3>. QED
      BY <1>1, <2>1, <2>3, <3>1 DEF Known, InHand, storeVars
  <2>. QED
    BY <1>1, <2>2, <2>3
<1>8. TypeOK'
  <2>1. nextSeq' \in [Nodes -> 1..(MaxSeq + 1)]
    BY <1>1, <1>2, <1>3, <1>5 DEF TypeOK
  <2>. QED
    BY <1>1, <1>3, <1>4, <1>7, <2>1 DEF TypeOK, Engine!IInv, storeVars
<1>9. \A o \in Known : o.id = m.id => o.boot # m.boot
  <2> SUFFICES ASSUME NEW o \in Known, o.id = m.id, o.boot = m.boot PROVE FALSE
    OBVIOUS
  <2>1. o.alert.node = n /\ o.id[2] = nextSeq[n]
    BY <1>6 DEF IInv, Numbered
  <2>. QED
    BY <1>5, <1>6, <2>1 DEF IInv, Numbered
<1>10. Unique'
  BY <1>7, <1>9 DEF IInv, Unique
<1>11. Numbered'
  <2> SUFFICES ASSUME NEW o \in Known'
               PROVE  /\ o.id[1] = o.alert.node
                      /\ o.boot <= agentBoots[o.alert.node]
                      /\ o.boot = agentBoots[o.alert.node] => o.id[2] < nextSeq'[o.alert.node]
    BY <1>1 DEF Numbered
  <2>1. CASE o = m
    <3>1. o.id[1] = n /\ o.id[2] = nextSeq[n] /\ o.alert.node = n /\ o.boot = agentBoots[n]
      BY <1>6, <2>1
    <3>2. nextSeq'[n] = nextSeq[n] + 1
      BY <1>1, <1>2, <1>3 DEF TypeOK
    <3>3. agentBoots[n] \in Nat
      BY <1>5, LivesAreNumbers
    <3>. QED
      BY <1>5, <3>1, <3>2, <3>3
  <2>2. CASE o \in Known
    <3>1. /\ o.id[1] = o.alert.node
          /\ o.boot <= agentBoots[o.alert.node]
          /\ o.boot = agentBoots[o.alert.node] => o.id[2] < nextSeq[o.alert.node]
      BY <2>2 DEF IInv, Numbered
    <3>2. o \in Messages
      BY <1>3, <2>2 DEF TypeOK, Known, InHand
    <3>3. o.alert.node \in Nodes /\ o.id[2] \in Nat
      BY <3>2, CoordinatorAssumption DEF Messages, Engine!EngineAssumption, Engine!Alert
    <3>4. nextSeq[o.alert.node] \in Nat
      <4>1. nextSeq \in [Nodes -> 1..(MaxSeq + 1)] /\ MaxSeq \in Nat
        BY <1>3, CoordinatorAssumption DEF TypeOK
      <4>. QED
        BY <3>3, <4>1
    <3>5. DOMAIN nextSeq = Nodes
      BY <1>3 DEF TypeOK
    <3>6. nextSeq'[o.alert.node] = IF n = o.alert.node THEN nextSeq[n] + 1
                                   ELSE nextSeq[o.alert.node]
      BY <1>1, <3>3, <3>5, Zenon
    <3>7. agentBoots'[o.alert.node] = agentBoots[o.alert.node]
      BY <1>1
    <3> DEFINE s == nextSeq[o.alert.node]
               t == nextSeq'[o.alert.node]
    <3>8. s \in Nat /\ t = IF n = o.alert.node THEN s + 1 ELSE s
      BY <3>4, <3>6, Zenon
    <3>9. o.id[2] < s => o.id[2] < t
      <4> HIDE DEF n, s, t
      <4>. QED
        BY <3>3, <3>8
    <3>. QED
      BY <3>1, <3>7, <3>9, Zenon
  <2>. QED
    BY <1>7, <2>1, <2>2
<1>12. \A q, k : Backed(q, k)' <=> Backed(q, k)
  BY <1>1 DEF Backed, Stored, storeVars, Engine!SourceIp
<1>13. EngineIsBacked'
  BY <1>1, <1>12 DEF IInv, EngineIsBacked, engineVars, storeVars
<1>14. RowsAreOlder' /\ AlertsArePersisted' /\ ShownThreatsAreStored'
  BY <1>1 DEF IInv, RowsAreOlder, AlertsArePersisted, Stored, ShownThreatsAreStored,
              engineVars, storeVars
<1>15. ThreatsAreBacked'
  BY <1>1, <1>12 DEF IInv, ThreatsAreBacked, storeVars
<1>. QED
  BY <1>4, <1>8, <1>10, <1>11, <1>13, <1>14, <1>15 DEF IInv

LEMMA ReceiveInvariant ==
    ASSUME IInv, Receive
    PROVE  IInv'
<1>1. /\ inbox # <<>> /\ message' = {Head(inbox)} /\ inbox' = Tail(inbox)
      /\ receiver = "recv" /\ receiver' = "saveAlert"
      /\ UNCHANGED <<engineVars, storeVars, agentVars, boots>>
  BY DEF Receive
<1>2. /\ inbox \in Seq(Messages) /\ TypeOK /\ Engine!IInv
      /\ Len(inbox) <= InFlight /\ InFlight \in Nat
  BY CoordinatorAssumption DEF IInv, TypeOK
<1>3. /\ Tail(inbox) \in Seq(Messages) /\ Len(Tail(inbox)) = Len(inbox) - 1
      /\ Len(inbox) \in Nat \ {0}
      /\ Head(inbox) = inbox[1] /\ Head(inbox) \in Messages
      /\ \A i \in 1..Len(Tail(inbox)) : Tail(inbox)[i] = inbox[i + 1]
  BY <1>1, <1>2
<1>4. Engine!IInv'
  BY <1>1, <1>2, EngineStutters
<1>5. TypeOK'
  <2>1. \A x, y \in message' : x = y
    BY <1>1
  <2>. QED
    BY <1>1, <1>2, <1>3, <1>4, <2>1 DEF TypeOK, Engine!IInv, storeVars, agentVars
<1>6. Known' \subseteq Known
  <2>1. \A i \in 1..Len(inbox') : i + 1 \in 1..Len(inbox) /\ inbox'[i] = inbox[i + 1]
    BY <1>1, <1>3
  <2>2. Head(inbox) \in InHand
    BY <1>3 DEF InHand
  <2>3. InHand' \subseteq InHand
    BY <1>1, <2>1 DEF InHand, storeVars
  <2>. QED
    BY <1>1, <2>2, <2>3 DEF Known, storeVars
<1>7. Numbered' /\ Unique'
  BY <1>1, <1>6, KnownShrinks DEF IInv
<1>. QED
  BY <1>1, <1>4, <1>5, <1>7, StoreStutters DEF IInv, agentVars

LEMMA SaveAlertInvariant ==
    ASSUME IInv, SaveAlert
    PROVE  IInv'
<1>1. PICK m \in message :
        /\ alertRows' \in Execute(alertRows, m)
        /\ lostAlerts' = lostAlerts \cup (InsertOrIgnore(alertRows, m) \ alertRows')
        /\ recentAlerts' = Cache(recentAlerts, AlertCap, m)
        /\ saved' = saved \cup {m}
  BY DEF SaveAlert
<1>2. /\ receiver = "saveAlert" /\ receiver' = "ingest"
      /\ UNCHANGED <<engineVars, threatRows, recentThreats, lostThreats, oldRows, inbox,
                     message, agentVars, boots>>
  BY DEF SaveAlert
<1>3. TypeOK /\ Engine!IInv /\ m \in Messages /\ m \in Known
  BY <1>1 DEF IInv, TypeOK, Known
<1>4. Engine!IInv'
  BY <1>2, <1>3, EngineStutters
<1>5. /\ recentAlerts' \in Seq(Messages) /\ Len(recentAlerts') <= AlertCap
      /\ \A i \in 1..Len(recentAlerts') :
            \/ recentAlerts'[i] = m
            \/ \E j \in 1..Len(recentAlerts) : recentAlerts'[i] = recentAlerts[j]
  BY <1>1, <1>3, CacheFacts, CoordinatorAssumption DEF TypeOK
<1>6. /\ alertRows \subseteq alertRows' /\ alertRows' \subseteq alertRows \cup {m}
      /\ lostAlerts \subseteq lostAlerts' /\ lostAlerts' \subseteq lostAlerts \cup {m}
      /\ m \in alertRows' \cup lostAlerts' \/ \E r \in alertRows : r.id = m.id
  BY <1>1, TableFacts
<1>7. TypeOK'
  BY <1>1, <1>2, <1>3, <1>4, <1>5, <1>6 DEF TypeOK, Engine!IInv, agentVars
<1>8. Known' \subseteq Known
  <2>1. InHand' \subseteq InHand \cup {m}
    BY <1>2, <1>5 DEF InHand
  <2>. QED
    BY <1>2, <1>3, <1>6, <2>1 DEF Known
<1>9. Numbered' /\ Unique'
  BY <1>2, <1>8, KnownShrinks DEF IInv
<1>10. Stored(m)'
  <2>1. ASSUME NEW r \in alertRows, r.id = m.id, r.boot = m.boot
        PROVE  r = m
    BY <1>3, <2>1 DEF IInv, Unique, Known
  <2>. QED
    BY <1>6, <2>1 DEF Stored
<1>11. message = {m}
  BY <1>1, <1>3 DEF TypeOK
<1>12. (\A o : Stored(o) => Stored(o)') /\ (\A n, k : Backed(n, k) => Backed(n, k)')
  BY <1>1, <1>6 DEF Backed, Stored, Engine!SourceIp
<1>13. EngineIsBacked'
  BY <1>1, <1>2, <1>11, <1>12 DEF IInv, EngineIsBacked, engineVars
<1>14. RowsAreOlder' /\ ShownThreatsAreStored'
  BY <1>2 DEF IInv, RowsAreOlder, ShownThreatsAreStored, engineVars
<1>15. AlertsArePersisted'
  BY <1>1, <1>10, <1>12 DEF IInv, AlertsArePersisted
<1>16. ThreatsAreBacked'
  BY <1>2, <1>12 DEF IInv, ThreatsAreBacked
<1>. QED
  BY <1>4, <1>7, <1>9, <1>13, <1>14, <1>15, <1>16 DEF IInv

LEMMA IngestInvariant ==
    ASSUME IInv, IngestAlert
    PROVE  IInv'
<1>1. PICK m \in message : Engine!Ingest(m.alert)
  BY DEF IngestAlert
<1>2. /\ receiver = "ingest" /\ UNCHANGED <<storeVars, inbox, agentVars, boots>>
      /\ \/ threats' # threats /\ receiver' = "saveThreat" /\ UNCHANGED message
         \/ threats' = threats /\ receiver' = "recv" /\ message' = {}
  BY DEF IngestAlert
<1> DEFINE a == m.alert
<1>3. /\ TypeOK /\ Engine!IInv /\ m \in Known /\ a \in Inputs
      /\ a.node \in Nodes /\ m.boot \in Nat
  <2>1. /\ TypeOK /\ Engine!IInv /\ m \in Known /\ m \in Messages
    BY <1>1 DEF IInv, TypeOK, Known
  <2>. QED
    BY <2>1, CoordinatorAssumption, LivesAreNumbers
    DEF Messages, Engine!EngineAssumption, Engine!Alert
<1>4. Engine!IInv'
  BY <1>1, <1>3, EngineKeeps
<1>5. TypeOK'
  BY <1>2, <1>3, <1>4 DEF TypeOK, Engine!IInv, storeVars, agentVars
<1>6. Known' \subseteq Known
  BY <1>2 DEF Known, InHand, storeVars
<1>7. Numbered' /\ Unique'
  BY <1>2, <1>6, KnownShrinks DEF IInv
<1>8. /\ \A k \in Engine!Keys : \A e \in index'[k] :
            e \in index[k] \/ (k = Engine!SourceIp(a) /\ e.node = a.node)
      /\ threats \subseteq threats'
      /\ \A t \in threats' \ threats :
            /\ t.id = threatCounter /\ t.key = Engine!SourceIp(a)
            /\ \A n \in t.confirmedBy :
                  n = a.node \/ \E e \in index[t.key] : e.node = n
      /\ threats' # threats =>
            (threatCounter' = threatCounter + 1 /\ \E t \in threats' : t.id = threatCounter)
      /\ threats' = threats => threatCounter' = threatCounter
  BY <1>1, <1>3, IngestFacts
<1>9. Backed(a.node, Engine!SourceIp(a))
  BY <1>1, <1>2 DEF IInv, EngineIsBacked, AlertsArePersisted, Backed
<1>10. \A n, k : Backed(n, k)' <=> Backed(n, k)
  BY <1>2 DEF Backed, Stored, storeVars, Engine!SourceIp
<1>11. EngineIsBacked'
  <2>1. \A k \in Engine!Keys : \A e \in index'[k] : Backed(e.node, k)
    BY <1>8, <1>9 DEF IInv, EngineIsBacked
  <2>2. ASSUME NEW t \in threats', NEW n \in t.confirmedBy
        PROVE  Backed(n, t.key)
    <3>1. CASE t \in threats
      BY <3>1 DEF IInv, EngineIsBacked
    <3>2. CASE t \notin threats
      <4>1. t.key = Engine!SourceIp(a) /\ t.key \in Engine!Keys
        BY <1>4, <1>8, <3>2 DEF Engine!IInv, Engine!TypeOK, Engine!Threat
      <4>. QED
        BY <1>8, <1>9, <3>2, <4>1 DEF IInv, EngineIsBacked
    <3>. QED
      BY <3>1, <3>2
  <2>. QED
    BY <1>2, <1>10, <2>1, <2>2 DEF EngineIsBacked
<1>12. RowsAreOlder'
  <2>1. threatCounter \in Nat
    BY <1>3 DEF Engine!IInv, Engine!TypeOK
  <2>. QED
    BY <1>2, <1>8, <2>1 DEF IInv, RowsAreOlder, storeVars
<1>13. AlertsArePersisted' /\ ShownThreatsAreStored'
  BY <1>2 DEF IInv, AlertsArePersisted, Stored, ShownThreatsAreStored, storeVars
<1>14. ThreatsAreBacked'
  BY <1>2, <1>10 DEF IInv, ThreatsAreBacked, storeVars
<1>. QED
  BY <1>4, <1>5, <1>7, <1>11, <1>12, <1>13, <1>14 DEF IInv

LEMMA SaveThreatInvariant ==
    ASSUME IInv, SaveThreat
    PROVE  IInv'
<1>1. /\ receiver = "saveThreat" /\ receiver' = "recv" /\ message' = {}
      /\ threatRows' \in Execute(threatRows, NewThreat)
      /\ lostThreats' = lostThreats \cup (InsertOrIgnore(threatRows, NewThreat) \ threatRows')
      /\ recentThreats' = Cache(recentThreats, ThreatCap, NewThreat)
      /\ UNCHANGED <<engineVars, alertRows, recentAlerts, lostAlerts, saved, oldRows, inbox,
                     agentVars, boots>>
  BY DEF SaveThreat
<1>2. TypeOK /\ Engine!IInv
  BY DEF IInv
<1>3. Engine!IInv'
  BY <1>1, <1>2, EngineStutters
<1>4. NewThreat \in threats /\ NewThreat.id = threatCounter - 1
  BY <1>1 DEF IInv, RowsAreOlder, NewThreat
<1> DEFINE t == NewThreat
<1> HIDE DEF t
<1>5. /\ t \in Engine!Threat /\ threatCounter \in Nat
      /\ t \in threats /\ t.id = threatCounter - 1
  BY <1>2, <1>4 DEF Engine!IInv, Engine!TypeOK, t
<1>6. /\ recentThreats' \in Seq(Engine!Threat) /\ Len(recentThreats') <= ThreatCap
      /\ \A i \in 1..Len(recentThreats') :
            \/ recentThreats'[i] = t
            \/ \E j \in 1..Len(recentThreats) : recentThreats'[i] = recentThreats[j]
  BY <1>1, <1>2, <1>5, CacheFacts, CoordinatorAssumption DEF TypeOK, t
<1>7. /\ threatRows \subseteq threatRows' /\ threatRows' \subseteq threatRows \cup {t}
      /\ lostThreats \subseteq lostThreats' /\ lostThreats' \subseteq lostThreats \cup {t}
      /\ t \in threatRows' \cup lostThreats' \/ \E r \in threatRows : r.id = t.id
  BY <1>1, TableFacts DEF t
<1>8. TypeOK'
  BY <1>1, <1>2, <1>3, <1>5, <1>6, <1>7 DEF TypeOK, Engine!IInv, agentVars
<1>9. Known' \subseteq Known
  BY <1>1 DEF Known, InHand
<1>10. Numbered' /\ Unique'
  BY <1>1, <1>9, KnownShrinks DEF IInv
<1>11. \A n, k : Backed(n, k)' <=> Backed(n, k)
  BY <1>1 DEF Backed, Stored, Engine!SourceIp
<1>12. EngineIsBacked'
  BY <1>1, <1>11 DEF IInv, EngineIsBacked, engineVars
<1>13. RowsAreOlder'
  <2>1. \A r \in threatRows : r.id \in Nat
    BY <1>2 DEF TypeOK, Engine!Threat
  <2>. QED
    BY <1>1, <1>5, <1>7, <2>1 DEF IInv, RowsAreOlder, engineVars
<1>14. AlertsArePersisted'
  BY <1>1 DEF IInv, AlertsArePersisted, Stored
<1>15. ThreatsAreBacked'
  <2>1. \A n \in t.confirmedBy : Backed(n, t.key)
    BY <1>5 DEF IInv, EngineIsBacked
  <2>. QED
    BY <1>7, <1>11, <2>1 DEF IInv, ThreatsAreBacked
<1>16. ShownThreatsAreStored'
  <2>1. t \in threatRows' \cup lostThreats' \/ \E r \in oldRows : r.id = t.id
    <3>1. \A r \in threatRows \ oldRows : r.id \in Nat /\ r.id < t.id
      BY <1>1, <1>2, <1>5 DEF IInv, RowsAreOlder, TypeOK, Engine!Threat
    <3>2. t.id \in Nat
      BY <1>5 DEF Engine!Threat
    <3>. QED
      BY <1>7, <3>1, <3>2
  <2>. QED
    BY <1>1, <1>6, <1>7, <2>1 DEF IInv, ShownThreatsAreStored
<1>. QED
  BY <1>3, <1>8, <1>10, <1>12, <1>13, <1>14, <1>15, <1>16 DEF IInv

LEMMA TickInvariant ==
    ASSUME IInv, Tick
    PROVE  IInv'
<1>1. /\ UNCHANGED <<index, threatCounter, threats, heard>>
      /\ UNCHANGED <<storeVars, inbox, receiver, message, agentVars, boots>>
  BY DEF Tick, Engine!Tick
<1>2. Engine!IInv'
  BY EngineKeeps DEF IInv, Tick
<1>3. TypeOK'
  BY <1>1, <1>2 DEF IInv, TypeOK, Engine!IInv, storeVars, agentVars
<1>4. Known' \subseteq Known
  BY <1>1 DEF Known, InHand, storeVars
<1>5. Numbered' /\ Unique'
  BY <1>1, <1>4, KnownShrinks DEF IInv
<1>6. \A n, k : Backed(n, k)' <=> Backed(n, k)
  BY <1>1 DEF Backed, Stored, storeVars, Engine!SourceIp
<1>7. EngineIsBacked'
  BY <1>1, <1>6 DEF IInv, EngineIsBacked, storeVars
<1>8. RowsAreOlder' /\ AlertsArePersisted' /\ ShownThreatsAreStored'
  BY <1>1 DEF IInv, RowsAreOlder, AlertsArePersisted, Stored, ShownThreatsAreStored, storeVars
<1>9. ThreatsAreBacked'
  BY <1>1, <1>6 DEF IInv, ThreatsAreBacked, storeVars
<1>. QED
  BY <1>2, <1>3, <1>5, <1>7, <1>8, <1>9 DEF IInv

LEMMA RestartInvariant ==
    ASSUME IInv, Restart
    PROVE  IInv'
<1>1. /\ boots < MaxRestarts /\ boots' = boots + 1
      /\ index' = [k \in Engine!Keys |-> {}] /\ threats' = {}
      /\ recentAlerts' = <<>> /\ recentThreats' = <<>> /\ oldRows' = threatRows
      /\ receiver' = "recv" /\ message' = {} /\ inbox' \in {<<>>, inbox}
      /\ UNCHANGED <<alertRows, threatRows, lostAlerts, lostThreats, saved, agentVars>>
  BY DEF Restart
<1>2. Engine!IInv'
  BY RestartKeeps DEF IInv
<1>3. /\ TypeOK /\ boots \in Nat /\ boots' \in 0..MaxRestarts
      /\ AlertCap \in Nat /\ ThreatCap \in Nat /\ InFlight \in Nat
  BY <1>1, CoordinatorAssumption DEF IInv, TypeOK
<1>4. /\ <<>> \in Seq(Messages) /\ <<>> \in Seq(Engine!Threat) /\ Len(<<>>) = 0
  OBVIOUS
<1>5. TypeOK'
  <2>1. inbox' \in Seq(Messages) /\ Len(inbox') <= InFlight
    <3>1. CASE inbox' = <<>>
      BY <1>3, <1>4, <3>1
    <3>2. CASE inbox' = inbox
      BY <1>3, <3>2 DEF TypeOK
    <3>. QED
      BY <1>1, <3>1, <3>2
  <2>2. /\ recentAlerts' \in Seq(Messages) /\ Len(recentAlerts') <= AlertCap
        /\ recentThreats' \in Seq(Engine!Threat) /\ Len(recentThreats') <= ThreatCap
    BY <1>1, <1>3, <1>4
  <2>3. message' \subseteq Messages /\ \A x, y \in message' : x = y
    BY <1>1
  <2>. QED
    BY <1>1, <1>2, <1>3, <2>1, <2>2, <2>3 DEF TypeOK, Engine!IInv, agentVars
<1>6. Known' \subseteq Known
  BY <1>1, <1>4 DEF Known, InHand
<1>7. Numbered' /\ Unique'
  BY <1>1, <1>6, KnownShrinks DEF IInv
<1>8. EngineIsBacked' /\ RowsAreOlder'
  BY <1>1, <1>3 DEF EngineIsBacked, RowsAreOlder
<1>9. AlertsArePersisted' /\ ShownThreatsAreStored'
  BY <1>1, <1>4 DEF IInv, AlertsArePersisted, Stored, ShownThreatsAreStored
<1>10. ThreatsAreBacked'
  BY <1>1 DEF IInv, ThreatsAreBacked, Backed, Stored, Engine!SourceIp
<1>. QED
  BY <1>2, <1>5, <1>7, <1>8, <1>9, <1>10 DEF IInv

LEMMA AgentRestartInvariant ==
    ASSUME IInv, NEW n \in Nodes, AgentRestarts(n)
    PROVE  IInv'
<1>1. /\ agentBoots[n] < MaxAgentRestarts[n]
      /\ agentBoots' = [agentBoots EXCEPT ![n] = @ + 1]
      /\ nextSeq' = [nextSeq EXCEPT ![n] = 1]
      /\ UNCHANGED <<engineVars, storeVars, inbox, receiver, message, boots>>
  BY DEF AgentRestarts
<1>2. TypeOK /\ Engine!IInv
  BY DEF IInv
<1>3. Engine!IInv'
  BY <1>1, <1>2, EngineStutters
<1>4. /\ agentBoots[n] \in Nat /\ agentBoots[n] + 1 \in Lives
      /\ \A q \in Nodes : agentBoots[q] \in Nat /\ agentBoots'[q] \in Nat
      /\ \A q \in Nodes : agentBoots'[q] = IF q = n THEN agentBoots[q] + 1 ELSE agentBoots[q]
  <2>1. agentBoots[n] \in Nat /\ MaxAgentRestarts[n] \in Nat
    BY <1>2, LivesAreNumbers, CoordinatorAssumption DEF TypeOK
  <2>2. agentBoots[n] + 1 \in 0..MaxAgentRestarts[n]
    BY <1>1, <2>1
  <2>3. agentBoots[n] + 1 \in Lives
    BY <2>2 DEF Lives
  <2>. QED
    BY <1>1, <1>2, <2>1, <2>3, LivesAreNumbers DEF TypeOK
<1>5. TypeOK'
  <2>1. agentBoots' \in [Nodes -> Lives] /\ nextSeq' \in [Nodes -> 1..(MaxSeq + 1)]
    BY <1>1, <1>2, <1>4, CoordinatorAssumption DEF TypeOK
  <2>. QED
    BY <1>1, <1>2, <1>3, <2>1 DEF TypeOK, Engine!IInv, storeVars
<1>6. Known' = Known
  BY <1>1 DEF Known, InHand, storeVars
<1>7. Unique'
  BY <1>6 DEF IInv, Unique
<1>8. Numbered'
  <2> SUFFICES ASSUME NEW o \in Known
               PROVE  /\ o.id[1] = o.alert.node
                      /\ o.boot <= agentBoots'[o.alert.node]
                      /\ o.boot = agentBoots'[o.alert.node] => o.id[2] < nextSeq'[o.alert.node]
    BY <1>6 DEF Numbered
  <2>1. /\ o.id[1] = o.alert.node
        /\ o.boot <= agentBoots[o.alert.node]
        /\ o.boot = agentBoots[o.alert.node] => o.id[2] < nextSeq[o.alert.node]
    BY DEF IInv, Numbered
  <2>2. o \in Messages
    BY <1>2 DEF TypeOK, Known, InHand
  <2>3. o.alert.node \in Nodes /\ o.boot \in Nat
    BY <2>2, LivesAreNumbers, CoordinatorAssumption
    DEF Messages, Engine!EngineAssumption, Engine!Alert
  <2>4. o.alert.node # n => nextSeq'[o.alert.node] = nextSeq[o.alert.node]
    BY <1>1, <1>2, <2>3 DEF TypeOK
  <2>. QED
    BY <1>4, <2>1, <2>3, <2>4
<1>9. \A q, k : Backed(q, k)' <=> Backed(q, k)
  BY <1>1 DEF Backed, Stored, storeVars, Engine!SourceIp
<1>10. EngineIsBacked'
  BY <1>1, <1>9 DEF IInv, EngineIsBacked, engineVars, storeVars
<1>11. RowsAreOlder' /\ AlertsArePersisted' /\ ShownThreatsAreStored'
  BY <1>1 DEF IInv, RowsAreOlder, AlertsArePersisted, Stored, ShownThreatsAreStored,
              engineVars, storeVars
<1>12. ThreatsAreBacked'
  BY <1>1, <1>9 DEF IInv, ThreatsAreBacked, storeVars
<1>. QED
  BY <1>3, <1>5, <1>7, <1>8, <1>10, <1>11, <1>12 DEF IInv

LEMMA StutterInvariant ==
    ASSUME IInv, UNCHANGED vars
    PROVE  IInv'
<1>1. UNCHANGED <<engineVars, storeVars, inbox, receiver, message, agentVars, boots>>
  BY DEF vars
<1>2. Engine!IInv'
  BY <1>1, EngineStutters DEF IInv
<1>3. TypeOK'
  BY <1>1, <1>2 DEF IInv, TypeOK, Engine!IInv, storeVars, agentVars
<1>4. Known' \subseteq Known
  BY <1>1 DEF Known, InHand, storeVars
<1>5. Numbered' /\ Unique'
  BY <1>1, <1>4, KnownShrinks DEF IInv
<1>6. \A n, k : Backed(n, k)' <=> Backed(n, k)
  BY <1>1 DEF Backed, Stored, storeVars, Engine!SourceIp
<1>7. EngineIsBacked'
  BY <1>1, <1>6 DEF IInv, EngineIsBacked, engineVars, storeVars
<1>8. RowsAreOlder' /\ AlertsArePersisted' /\ ShownThreatsAreStored'
  BY <1>1 DEF IInv, RowsAreOlder, AlertsArePersisted, Stored, ShownThreatsAreStored,
              engineVars, storeVars
<1>9. ThreatsAreBacked'
  BY <1>1, <1>6 DEF IInv, ThreatsAreBacked, storeVars
<1>. QED
  BY <1>2, <1>3, <1>5, <1>7, <1>8, <1>9 DEF IInv

LEMMA NextInvariant == IInv /\ [Next]_vars => IInv'
<1> SUFFICES ASSUME IInv, [Next]_vars PROVE IInv'
  OBVIOUS
<1>1. ASSUME NEW a \in Inputs, FireAlert(a) PROVE IInv'
  BY <1>1, FireInvariant
<1>2. CASE Receive
  BY <1>2, ReceiveInvariant
<1>3. CASE SaveAlert
  BY <1>3, SaveAlertInvariant
<1>4. CASE IngestAlert
  BY <1>4, IngestInvariant
<1>5. CASE SaveThreat
  BY <1>5, SaveThreatInvariant
<1>6. CASE Tick
  BY <1>6, TickInvariant
<1>7. CASE Restart
  BY <1>7, RestartInvariant
<1>8. ASSUME NEW n \in Nodes, AgentRestarts(n) PROVE IInv'
  BY <1>8, AgentRestartInvariant
<1>9. CASE UNCHANGED vars
  BY <1>9, StutterInvariant
<1>. QED
  BY <1>1, <1>2, <1>3, <1>4, <1>5, <1>6, <1>7, <1>8, <1>9 DEF Next
-----------------------------------------------------------------------------
(* The theorems. *)

\* The inductive invariant holds in every reachable state.
THEOREM CoordinatorInvariant == Spec => []IInv
BY InitInvariant, NextInvariant, PTL DEF Spec

\* The coordinator's state, tables, caches and queues are always well-typed; in
\* particular the caches never exceed their sizes.
THEOREM CoordinatorTypes == Spec => []TypeOK
BY CoordinatorInvariant, PTL DEF IInv

\* The engine keeps its invariant through the coordinator's restarts.
THEOREM EngineSurvivesRestarts == Spec => []Engine!IInv
BY CoordinatorInvariant, PTL DEF IInv

\* Every alert received, in any life, is in the table, but for failed statements and
\* ids that another life of the agent used.
THEOREM ReceivedAlertsArePersisted == Spec => []AlertsArePersisted
BY CoordinatorInvariant, PTL DEF IInv

\* Every stored threat stands on saved alerts of the nodes that confirm it, which are
\* stored but for the same two reasons.
THEOREM StoredThreatsAreBacked == Spec => []ThreatsAreBacked
BY CoordinatorInvariant, PTL DEF IInv

\* In every life, a threat shown is stored, or its statement failed, or a row that the
\* last restart found has its id.  These are all the ways in which the two disagree;
\* before the first restart the last one does not exist.
THEOREM ShownThreatsAreAccounted == Spec => []ShownThreatsAreStored
BY CoordinatorInvariant, PTL DEF IInv

LEMMA CacheStep == IInv /\ [Next]_vars => [AlertWindow!Next]_recentAlerts
<1> SUFFICES ASSUME IInv, [Next]_vars, recentAlerts' # recentAlerts
             PROVE  AlertWindow!Next
  OBVIOUS
<1>1. CASE SaveAlert
  <2>1. PICK m \in message : recentAlerts' = Cache(recentAlerts, AlertCap, m)
    BY <1>1 DEF SaveAlert
  <2>2. /\ m \in Messages /\ recentAlerts \in Seq(Messages) /\ Len(recentAlerts) <= AlertCap
        /\ AlertCap \in Nat \ {0}
    BY <2>1, CoordinatorAssumption DEF IInv, TypeOK
  <2>3. AlertWindow!Push(m)
    BY <2>1, <2>2, CacheIsPush DEF AlertWindow!Push
  <2>. QED
    BY <2>2, <2>3 DEF AlertWindow!Next
<1>2. CASE Restart
  BY <1>2 DEF Restart, AlertWindow!Next, AlertWindow!Clear
<1>3. CASE ~SaveAlert /\ ~Restart
  BY <1>3 DEF Next, vars, storeVars, FireAlert, Receive, IngestAlert, SaveThreat, Tick, AgentRestarts
<1>. QED
  BY <1>1, <1>2, <1>3

\* The cache behind GET /alerts implements the sliding window of the last alerts
\* received.
THEOREM AlertsShownAreRecent == Spec => AlertsAreRecent
<1>1. Init => AlertWindow!Init
  BY DEF Init, AlertWindow!Init
<1>. QED
  BY <1>1, CacheStep, CoordinatorInvariant, PTL DEF Spec, AlertsAreRecent, AlertWindow!Spec
=============================================================================
