----------------------- MODULE CorrelationEngineProofs -----------------------
(***************************************************************************)
(* The consensus of CorrelationEngine, for every number of agents, every   *)
(* threshold and every window: its inductive invariant, and that it        *)
(* implements Consensus.                                                   *)
(***************************************************************************)
EXTENDS CorrelationEngine, FunctionTheorems, FiniteSetTheorems, TLAPS

-----------------------------------------------------------------------------
(* Lemmas about the operators. *)

\* The nodes of a finite set of entries are no more than the entries, and
\* just as many when no node has two.
LEMMA NodesOfEntries ==
    ASSUME NEW S, IsFiniteSet(S)
    PROVE  /\ IsFiniteSet({e.node : e \in S})
           /\ Cardinality({e.node : e \in S}) \in Nat
           /\ Cardinality(S) \in Nat
           /\ Cardinality({e.node : e \in S}) <= Cardinality(S)
           /\ (\A e, f \in S : e.node = f.node => e = f) =>
                 Cardinality({e.node : e \in S}) = Cardinality(S)
<1> DEFINE N == {e.node : e \in S}
           g == [e \in S |-> e.node]
<1>1. g \in Surjection(S, N)
  BY DEF Surjection
<1>2. /\ IsFiniteSet(N)
      /\ Cardinality(N) <= Cardinality(S)
      /\ Cardinality(N) = Cardinality(S) <=> g \in Injection(S, N)
  BY <1>1, FS_Surjection
<1>3. (\A e, f \in S : e.node = f.node => e = f) => g \in Injection(S, N)
  BY DEF Injection, IsInjective
<1>. QED
  BY <1>2, <1>3, FS_CardinalityType

\* The highest severity of a nonempty set of entries is one of theirs.
LEMMA MaxSeverityBounds ==
    ASSUME NEW S \in SUBSET Entry, S # {}
    PROVE  /\ MaxSeverity(S) \in Severities
           /\ \A e \in S : e.severity <= MaxSeverity(S)
<1> DEFINE V == {e.severity : e \in S}
<1>1. V \subseteq 0..3 /\ V # {}
  BY DEF Entry, Severities
<1>2. \E s \in V : \A v \in V : v <= s
  <2>1. CASE 3 \in V
    BY <1>1, <2>1
  <2>2. CASE 3 \notin V /\ 2 \in V
    BY <1>1, <2>2
  <2>3. CASE 3 \notin V /\ 2 \notin V /\ 1 \in V
    BY <1>1, <2>3
  <2>4. CASE 3 \notin V /\ 2 \notin V /\ 1 \notin V
    BY <1>1, <2>4
  <2>. QED
    BY <2>1, <2>2, <2>3, <2>4
<1>3. \E s \in V : \A e \in S : e.severity <= s
  BY <1>2
<1>4. /\ MaxSeverity(S) \in V
      /\ \A e \in S : e.severity <= MaxSeverity(S)
  BY <1>3 DEF MaxSeverity
<1>. QED
  BY <1>1, <1>4 DEF Severities

\* An entry once expired stays expired.
LEMMA ExpiredStays ==
    ASSUME NEW t \in Nat, NEW stamp \in Nat, Expired(t, stamp)
    PROVE  Expired(t + 1, stamp)
<1> DEFINE d == t - stamp
<1>1. d \in Int /\ TicksPerSec \in Nat \ {0}
  BY EngineAssumption
<1>2. d \div TicksPerSec <= (d + 1) \div TicksPerSec
  BY <1>1, SMTT(30)
<1>3. /\ d \div TicksPerSec \in Int
      /\ (d + 1) \div TicksPerSec \in Int
      /\ (t + 1) - stamp = d + 1
  BY <1>1
<1>. QED
  BY <1>2, <1>3, EngineAssumption DEF Expired

\* The clock's own tick never expires an alert of the same instant.
LEMMA NotExpiredAtOnce ==
    ASSUME NEW t \in Nat
    PROVE  ~Expired(t, t)
<1>1. t - t = 0 /\ 0 \div TicksPerSec = 0
  BY EngineAssumption, SMT
<1>. QED
  BY <1>1, EngineAssumption DEF Expired

-----------------------------------------------------------------------------
(* One call of ingest(), before it decides whether to raise a threat. *)

\* The alert behind an entry of key k: it named the key, or came from its host.
Vouches(h, e, k) == h.node = e.node /\ h.time = e.time /\ (h.named \/ h.node = k)

LEMMA KeyOfAlert ==
    ASSUME NEW a \in Inputs
    PROVE  /\ SourceIp(a) \in Keys
           /\ Hearsay(a).named \/ SourceIp(a) = a.node
           /\ Hearsay(a) \in [node : Nodes, time : {now}, named : BOOLEAN]
           /\ Hearsay(a).node = a.node /\ Hearsay(a).time = now
           /\ a.node \in Nodes /\ a.rule \in Rules /\ a.severity \in Severities
BY EngineAssumption DEF SourceIp, Hearsay, Alert, Keys

\* What ingest() holds after eviction and the alert's own contribution.
LEMMA Contribution ==
    ASSUME TypeOK, Votes, NoPendingConsensus, NEW a \in Inputs
    PROVE  LET S == Contribute(a)
           IN  /\ S \subseteq Entry /\ IsFiniteSet(S)
               /\ \A e, f \in S : e.node = f.node => e = f
               /\ \A e \in S : /\ \E h \in Heard(a) : Vouches(h, e, SourceIp(a))
                              /\ ~Expired(now, e.time)
               /\ \E e \in S : e.node = a.node
               /\ Cardinality(S) <= Threshold
               /\ Cardinality(S) = Threshold =>
                     \E e \in S : e.node = a.node /\ e.severity = a.severity
               /\ \A h \in Heard(a) :
                     \/ \E e \in S : e.node = h.node
                     \/ \E g \in Heard(a) : g.node = h.node /\ Expired(now, g.time)
<1> DEFINE k == SourceIp(a)
           kept == Evict(index[k])
           mine == [node |-> a.node, rule |-> a.rule, severity |-> a.severity, time |-> now]
           S == Contribute(a)
<1>1. k \in Keys /\ a.node \in Nodes /\ mine \in Entry /\ index[k] \subseteq Entry
  BY KeyOfAlert DEF Entry, TypeOK
<1>2. /\ IsFiniteSet(kept) /\ kept \subseteq index[k]
      /\ Cardinality(kept) < Threshold /\ Cardinality(kept) \in Nat
  <2>1. IsFiniteSet(index[k]) /\ Cardinality(index[k]) < Threshold
    BY <1>1 DEF Votes, NoPendingConsensus
  <2>2. kept \in SUBSET index[k]
    BY DEF Evict
  <2>3. IsFiniteSet(kept) /\ Cardinality(kept) <= Cardinality(index[k])
    BY <2>1, <2>2, FS_Subset
  <2>. QED
    BY <2>1, <2>2, <2>3, FS_CardinalityType, EngineAssumption
<1>3. \/ S = kept /\ \E e \in kept : e.node = a.node
      \/ S = kept \cup {mine} /\ \A e \in kept : e.node # a.node
  BY DEF Contribute, AlreadyPresent
<1>4. /\ \A e, f \in index[k] : e.node = f.node => e = f
      /\ \A e \in index[k] : \E h \in heard[k] : Vouches(h, e, k)
      /\ \A h \in heard[k] :
            \/ \E e \in index[k] : e.node = h.node
            \/ \E g \in heard[k] : g.node = h.node /\ Expired(now, g.time)
  BY <1>1 DEF Votes, Vouches
<1>5. S \subseteq Entry /\ IsFiniteSet(S)
  BY <1>1, <1>2, <1>3, FS_AddElement
<1>6. \A e, f \in S : e.node = f.node => e = f
  BY <1>2, <1>3, <1>4
<1>7. ASSUME NEW e \in S
      PROVE  (\E h \in Heard(a) : Vouches(h, e, k)) /\ ~Expired(now, e.time)
  <2>1. CASE e \in kept
    BY <2>1, <1>2, <1>4 DEF Evict, Heard
  <2>2. CASE e = mine
    <3>1. now \in Nat
      BY DEF TypeOK
    <3>2. Hearsay(a) \in Heard(a) /\ Vouches(Hearsay(a), e, k)
      BY <2>2, KeyOfAlert DEF Heard, Vouches
    <3>. QED
      BY <2>2, <3>1, <3>2, NotExpiredAtOnce
  <2>. QED
    BY <1>3, <2>1, <2>2
<1>8. Cardinality(S) <= Threshold
  <2>1. CASE S = kept
    BY <2>1, <1>2, EngineAssumption
  <2>2. CASE S = kept \cup {mine}
    <3>1. Cardinality(S) = Cardinality(kept) \/ Cardinality(S) = Cardinality(kept) + 1
      BY <2>2, <1>2, FS_AddElement
    <3>. QED
      BY <3>1, <1>2, EngineAssumption
  <2>. QED
    BY <1>3, <2>1, <2>2
<1>9. Cardinality(S) = Threshold =>
        \E e \in S : e.node = a.node /\ e.severity = a.severity
  <2>1. Cardinality(S) = Threshold => S # kept
    BY <1>2, EngineAssumption
  <2>2. mine.node = a.node /\ mine.severity = a.severity
    OBVIOUS
  <2>. QED
    BY <1>3, <2>1, <2>2
<1>10. \E e \in S : e.node = a.node
  <2>1. mine.node = a.node
    OBVIOUS
  <2>. QED
    BY <2>1, <1>3
<1>11. ASSUME NEW h \in Heard(a)
       PROVE  \/ \E e \in S : e.node = h.node
              \/ \E g \in Heard(a) : g.node = h.node /\ Expired(now, g.time)
  <2>1. CASE h.node = a.node
    BY <2>1, <1>10
  <2>2. CASE h.node # a.node /\ h \in heard[k]
    <3>1. CASE \E g \in heard[k] : g.node = h.node /\ Expired(now, g.time)
      BY <3>1 DEF Heard
    <3>2. CASE \E e \in index[k] : e.node = h.node
      <4>1. PICK e \in index[k] : e.node = h.node
        BY <3>2
      <4>2. CASE Expired(now, e.time)
        <5>1. \E g \in Heard(a) : g.node = e.node /\ g.time = e.time
          BY <1>4 DEF Heard, Vouches
        <5>. QED
          BY <4>1, <4>2, <5>1
      <4>3. CASE ~Expired(now, e.time)
        BY <4>1, <4>3, <1>3 DEF Evict
      <4>. QED
        BY <4>2, <4>3
    <3>. QED
      BY <2>2, <3>1, <3>2, <1>4
  <2>. QED
    BY <2>1, <2>2, KeyOfAlert DEF Heard
<1>. QED
  BY <1>5, <1>6, <1>7, <1>8, <1>9, <1>10, <1>11

-----------------------------------------------------------------------------
(* The inductive invariant. *)

LEMMA InitInvariant == Init => IInv
<1> SUFFICES ASSUME Init PROVE IInv
  OBVIOUS
<1>1. \A k \in Keys : index[k] = {} /\ heard[k] = {}
  BY DEF Init
<1>2. TypeOK
  BY DEF Init, TypeOK
<1>3. NoPendingConsensus
  BY <1>1, FS_EmptySet, EngineAssumption DEF NoPendingConsensus
<1>4. Votes
  BY <1>1, FS_EmptySet DEF Votes
<1>5. ExactConsensus /\ UniqueThreatIds
  BY DEF Init, ExactConsensus, UniqueThreatIds
<1>. QED
  BY <1>2, <1>3, <1>4, <1>5 DEF IInv

LEMMA TickInvariant == IInv /\ Tick => IInv'
<1> SUFFICES ASSUME IInv, Tick PROVE IInv'
  OBVIOUS
<1> USE DEF IInv
<1>1. TypeOK'
  BY DEF Tick, TypeOK
<1>2. NoPendingConsensus' /\ ExactConsensus' /\ UniqueThreatIds'
  BY DEF Tick, NoPendingConsensus, ExactConsensus, UniqueThreatIds
<1>3. Votes'
  <2>1. ASSUME NEW k \in Keys, NEW g \in heard[k], Expired(now, g.time)
        PROVE  Expired(now', g.time)
    <3>1. now \in Nat /\ g.time \in Nat /\ now' = now + 1
      BY DEF TypeOK, Tick
    <3>. QED
      BY <2>1, <3>1, ExpiredStays
  <2>. QED
    BY <2>1 DEF Votes, Tick
<1>. QED
  BY <1>1, <1>2, <1>3

LEMMA RecordInvariant ==
    ASSUME IInv, NEW a \in Inputs, Record(a, Contribute(a))
    PROVE  IInv'
<1> DEFINE k == SourceIp(a)
           S == Contribute(a)
<1> USE DEF IInv
<1>1. k \in Keys /\ a.node \in Nodes /\ now \in Nat
  BY KeyOfAlert DEF TypeOK
<1>2. /\ index' = [index EXCEPT ![k] = S]
      /\ heard' = [heard EXCEPT ![k] = Heard(a)]
      /\ Cardinality(S) < Threshold
      /\ UNCHANGED <<threatCounter, threats, now>>
  BY DEF Record
<1>3. S \subseteq Entry /\ Heard(a) \subseteq [node : Nodes, time : Nat, named : BOOLEAN]
  <2>1. S \subseteq Entry
    BY Contribution
  <2>2. heard[k] \subseteq [node : Nodes, time : Nat, named : BOOLEAN]
    BY <1>1 DEF TypeOK
  <2>3. Hearsay(a) \in [node : Nodes, time : Nat, named : BOOLEAN]
    BY <1>1, KeyOfAlert
  <2>. QED
    BY <2>1, <2>2, <2>3 DEF Heard
<1>4. TypeOK'
  BY <1>1, <1>2, <1>3 DEF TypeOK
<1>5. \A j \in Keys : /\ index'[j] = IF j = k THEN S ELSE index[j]
                      /\ heard'[j] = IF j = k THEN Heard(a) ELSE heard[j]
  BY <1>2 DEF TypeOK
<1>6. NoPendingConsensus'
  BY <1>2, <1>5 DEF NoPendingConsensus
<1>7. Votes'
  <2> SUFFICES ASSUME NEW j \in Keys
               PROVE  /\ IsFiniteSet(index'[j])
                      /\ \A e, f \in index'[j] : e.node = f.node => e = f
                      /\ \A e \in index'[j] : \E h \in heard'[j] : Vouches(h, e, j)
                      /\ \A h \in heard'[j] :
                            \/ \E e \in index'[j] : e.node = h.node
                            \/ \E g \in heard'[j] :
                                  g.node = h.node /\ Expired(now, g.time)
    BY <1>2 DEF Votes, Expired, Vouches
  <2>1. CASE j = k
    BY <2>1, <1>5, Contribution
  <2>2. CASE j # k
    BY <2>2, <1>5 DEF Votes, Vouches
  <2>. QED
    BY <2>1, <2>2
<1>8. ExactConsensus' /\ UniqueThreatIds'
  BY <1>2 DEF ExactConsensus, UniqueThreatIds
<1>. QED
  BY <1>4, <1>6, <1>7, <1>8

LEMMA RaiseInvariant ==
    ASSUME IInv, NEW a \in Inputs, Raise(a, Contribute(a))
    PROVE  IInv'
<1> DEFINE k == SourceIp(a)
           S == Contribute(a)
           t == ThreatOf(a, S)
<1> USE DEF IInv
<1>1. k \in Keys /\ a.node \in Nodes /\ a.rule \in Rules /\ now \in Nat
  BY KeyOfAlert DEF TypeOK
<1>2. /\ index' = [index EXCEPT ![k] = {}]
      /\ heard' = [heard EXCEPT ![k] = {}]
      /\ threats' = threats \cup {t}
      /\ threatCounter' = threatCounter + 1
      /\ now' = now
      /\ Cardinality(S) >= Threshold
  BY DEF Raise
<1>3. /\ S \subseteq Entry /\ IsFiniteSet(S)
      /\ \A e, f \in S : e.node = f.node => e = f
      /\ Cardinality(S) <= Threshold
      /\ \E e \in S : e.node = a.node
  BY Contribution
<1>4. Cardinality(S) = Threshold /\ Threshold \in Nat
  BY <1>2, <1>3, FS_CardinalityType, EngineAssumption
<1>5. /\ t.id = threatCounter /\ t.key = k /\ t.size = Threshold
      /\ t.confirmedBy = {e.node : e \in S}
  BY <1>4 DEF ThreatOf
<1>6. Cardinality({e.node : e \in S}) = Threshold
  BY <1>3, <1>4, NodesOfEntries
<1>7. t \in Threat
  <2>1. MaxSeverity(S) \in Severities
    BY <1>3, MaxSeverityBounds
  <2>2. Escalate(MaxSeverity(S)) \in Severities
    BY <2>1 DEF Escalate, Severities
  <2>3. {e.node : e \in S} \in SUBSET Nodes
    BY <1>3 DEF Entry
  <2>. QED
    BY <1>1, <1>4, <2>2, <2>3 DEF Threat, ThreatOf, TypeOK
<1>8. TypeOK'
  BY <1>1, <1>2, <1>7 DEF TypeOK
<1>9. \A j \in Keys : /\ index'[j] = IF j = k THEN {} ELSE index[j]
                      /\ heard'[j] = IF j = k THEN {} ELSE heard[j]
  BY <1>2 DEF TypeOK
<1>10. NoPendingConsensus'
  BY <1>9, FS_EmptySet, EngineAssumption DEF NoPendingConsensus
<1>11. Votes'
  BY <1>2, <1>9, FS_EmptySet DEF Votes, Expired
<1>12. ExactConsensus'
  BY <1>2, <1>5, <1>6 DEF ExactConsensus
<1>13. UniqueThreatIds'
  <2>1. \A u \in threats : u.id \in Nat /\ u.id < threatCounter
    BY DEF UniqueThreatIds, TypeOK, Threat
  <2>2. threatCounter \in Nat
    BY DEF TypeOK
  <2>. QED
    BY <1>2, <1>5, <2>1, <2>2 DEF UniqueThreatIds
<1>. QED
  BY <1>8, <1>10, <1>11, <1>12, <1>13

LEMMA NextInvariant == IInv /\ [Next]_vars => IInv'
<1> SUFFICES ASSUME IInv, [Next]_vars PROVE IInv'
  OBVIOUS
<1>1. CASE Tick
  BY <1>1, TickInvariant
<1>2. CASE \E a \in Inputs : Ingest(a)
  BY <1>2, RecordInvariant, RaiseInvariant DEF Ingest
<1>3. CASE UNCHANGED vars
  BY <1>3 DEF vars, IInv, TypeOK, NoPendingConsensus, Votes, Expired,
             ExactConsensus, UniqueThreatIds
<1>. QED
  BY <1>1, <1>2, <1>3 DEF Next

\* The inductive invariant holds in every reachable state.
THEOREM EngineInvariant == Spec => []IInv
BY InitInvariant, NextInvariant, PTL DEF Spec

\* The engine's state is always well-typed.
THEOREM TypeCorrect == Spec => []TypeOK
BY EngineInvariant, PTL DEF IInv

\* No call of ingest() leaves a consensus behind that it did not raise.
THEOREM ConsensusNeverPending == Spec => []NoPendingConsensus
BY EngineInvariant, PTL DEF IInv

\* Every threat is confirmed by exactly Threshold distinct nodes, and its
\* evidence says so.
THEOREM ThreatsAreExact == Spec => []ExactConsensus
BY EngineInvariant, PTL DEF IInv

\* While the engine lives, a threat id names one threat.
THEOREM ThreatIdsAreUnique == Spec => []UniqueThreatIds
BY EngineInvariant, PTL DEF IInv

-----------------------------------------------------------------------------
(* A threat outranks its trigger. *)

LEMMA RaiseOutranks ==
    ASSUME IInv, NEW a \in Inputs, Ingest(a), NEW t \in threats' \ threats
    PROVE  t.severity > a.severity \/ t.severity = 3
<1> DEFINE S == Contribute(a)
<1>1. Raise(a, S)
  BY DEF Ingest, Record
<1>2. t = ThreatOf(a, S) /\ Cardinality(S) >= Threshold
  BY <1>1 DEF Raise
<1>3. /\ S \subseteq Entry /\ IsFiniteSet(S)
      /\ Cardinality(S) <= Threshold
      /\ Cardinality(S) = Threshold =>
            \E e \in S : e.node = a.node /\ e.severity = a.severity
  BY Contribution DEF IInv
<1>4. PICK e \in S : e.severity = a.severity
  BY <1>2, <1>3, FS_CardinalityType, EngineAssumption
<1>5. MaxSeverity(S) \in Severities /\ e.severity <= MaxSeverity(S) /\ e.severity \in Severities
  BY <1>3, <1>4, MaxSeverityBounds DEF Entry
<1>6. t.severity = Escalate(MaxSeverity(S))
  BY <1>2 DEF ThreatOf
<1>. QED
  BY <1>4, <1>5, <1>6 DEF Escalate, Severities

\* Every threat outranks the alert that raised it, or is CRITICAL.
THEOREM ThreatsOutrankTriggers == Spec => OutranksTrigger
<1>1. IInv => \A a \in Inputs : Ingest(a) =>
        \A t \in threats' \ threats : t.severity > a.severity \/ t.severity = 3
  BY RaiseOutranks
<1>. QED
  BY <1>1, EngineInvariant, PTL DEF OutranksTrigger

-----------------------------------------------------------------------------
(* Who confirms a threat. *)

LEMMA RaiseIsNamed ==
    ASSUME IInv, NEW a \in Inputs, Ingest(a), NEW t \in threats' \ threats,
           NEW n \in t.confirmedBy \ {t.key}
    PROVE  \E h \in Heard(a) : h.node = n /\ h.named /\ ~Expired(now, h.time)
<1> DEFINE S == Contribute(a)
<1>1. t = ThreatOf(a, S)
  BY DEF Ingest, Record, Raise
<1>2. PICK e \in S : e.node = n
  BY <1>1 DEF ThreatOf
<1>3. n # SourceIp(a)
  BY <1>1 DEF ThreatOf
<1>4. (\E h \in Heard(a) : Vouches(h, e, SourceIp(a))) /\ ~Expired(now, e.time)
  BY Contribution DEF IInv
<1>. QED
  BY <1>2, <1>3, <1>4 DEF Vouches

\* A node that confirms a threat, other than the host whose name the key may be, named
\* the key as an address inside the window.  With ThreatsAreExact: no host reaches a
\* consensus with itself, and alerts without an address never add up to one, whichever
\* names the rules take for addresses.
THEOREM OthersAlwaysNameTheKey == Spec => OthersNameTheKey
<1>1. IInv => \A a \in Inputs : Ingest(a) =>
        \A t \in threats' \ threats : \A n \in t.confirmedBy \ {t.key} :
           \E h \in Heard(a) : h.node = n /\ h.named /\ ~Expired(now, h.time)
  BY RaiseIsNamed
<1>. QED
  BY <1>1, EngineInvariant, PTL DEF OthersNameTheKey

-----------------------------------------------------------------------------
(* The engine implements Consensus. *)

LEMMA AbstractInit == Init => Promise!Init
BY DEF Init, Promise!Init

\* Recording an alert is an abstract Hear: every steady node has a vote.
LEMMA RecordIsHear ==
    ASSUME IInv, NEW a \in Inputs, Record(a, Contribute(a))
    PROVE  Promise!Hear(SourceIp(a), Hearsay(a))
<1> DEFINE k == SourceIp(a)
           S == Contribute(a)
           V == {e.node : e \in S}
<1>1. /\ S \subseteq Entry /\ IsFiniteSet(S)
      /\ \A h \in Heard(a) :
            \/ \E e \in S : e.node = h.node
            \/ \E g \in Heard(a) : g.node = h.node /\ Expired(now, g.time)
  BY Contribution DEF IInv
<1>2. Promise!SteadyNodes(now, Heard(a)) \in SUBSET V
  <2> SUFFICES ASSUME NEW n \in Promise!SteadyNodes(now, Heard(a))
               PROVE  n \in V
    OBVIOUS
  <2>1. PICK h \in Heard(a) : h.node = n
    BY DEF Promise!SteadyNodes
  <2>2. ~\E g \in Heard(a) : g.node = n /\ Expired(now, g.time)
    BY DEF Promise!SteadyNodes, Promise!Expired, Expired
  <2>. QED
    BY <1>1, <2>1, <2>2
<1>3. Cardinality(Promise!SteadyNodes(now, Heard(a))) < Threshold
  <2>1. /\ IsFiniteSet(V) /\ Cardinality(V) \in Nat /\ Cardinality(S) \in Nat
        /\ Cardinality(V) <= Cardinality(S)
    BY <1>1, NodesOfEntries
  <2>2. /\ IsFiniteSet(Promise!SteadyNodes(now, Heard(a)))
        /\ Cardinality(Promise!SteadyNodes(now, Heard(a))) <= Cardinality(V)
    BY <1>2, <2>1, FS_Subset
  <2>3. Cardinality(S) < Threshold
    BY DEF Record
  <2>. QED
    BY <2>1, <2>2, <2>3, FS_CardinalityType, EngineAssumption
<1>4. Heard(a) = heard[k] \cup {Hearsay(a)}
  BY DEF Heard
<1>5. Promise!SteadyNodes(now, Heard(a)) \notin
        {Q \in SUBSET Nodes : Cardinality(Q) >= Threshold}
  <2>1. Cardinality(Promise!SteadyNodes(now, Heard(a))) \in Nat
    BY <1>1, <1>2, NodesOfEntries, FS_Subset, FS_CardinalityType
  <2>. QED
    BY <1>3, <2>1, EngineAssumption
<1>6. heard' = [heard EXCEPT ![k] = Heard(a)] /\ UNCHANGED <<now, threats>>
  BY DEF Record
<1>. QED
  BY <1>4, <1>5, <1>6 DEF Promise!Hear

\* Raising a threat is an abstract Report of the nodes that voted.
LEMMA RaiseIsReport ==
    ASSUME IInv, NEW a \in Inputs, Raise(a, Contribute(a))
    PROVE  \E confirming \in SUBSET Nodes :
             Promise!Report(SourceIp(a), Hearsay(a), confirming)
<1> DEFINE S == Contribute(a)
           V == {e.node : e \in S}
<1>1. /\ S \subseteq Entry /\ IsFiniteSet(S)
      /\ \A e, f \in S : e.node = f.node => e = f
      /\ \A e \in S : /\ \E h \in Heard(a) : Vouches(h, e, SourceIp(a))
                     /\ ~Expired(now, e.time)
      /\ \E e \in S : e.node = a.node
  BY Contribution DEF IInv
<1>2. V \subseteq Nodes /\ Hearsay(a).node \in V
  BY <1>1, KeyOfAlert DEF Entry
<1>3. V \subseteq Promise!RecentNodes(now, Heard(a))
  <2> SUFFICES ASSUME NEW e \in S
               PROVE  e.node \in Promise!RecentNodes(now, Heard(a))
    OBVIOUS
  <2>1. PICK h \in Heard(a) : h.node = e.node /\ h.time = e.time
    BY <1>1 DEF Vouches
  <2>2. e.node \in Nodes /\ ~Promise!Expired(now, e.time)
    BY <1>1, <1>2 DEF Promise!Expired, Expired
  <2>. QED
    BY <2>1, <2>2 DEF Promise!RecentNodes
<1>4. Cardinality(V) >= Threshold
  BY <1>1, NodesOfEntries DEF Raise
<1>5. {Summary(t) : t \in threats'} =
      {Summary(t) : t \in threats} \cup {[key |-> SourceIp(a), nodes |-> V, time |-> now]}
  <2>1. Summary(ThreatOf(a, S)) = [key |-> SourceIp(a), nodes |-> V, time |-> now]
    BY DEF Summary, ThreatOf
  <2>2. threats' = threats \cup {ThreatOf(a, S)}
    BY DEF Raise
  <2>. QED
    BY <2>1, <2>2
<1>6. /\ Heard(a) = heard[SourceIp(a)] \cup {Hearsay(a)}
      /\ heard' = [heard EXCEPT ![SourceIp(a)] = {}] /\ UNCHANGED now
  BY DEF Heard, Raise
<1>7. V \in {Q \in SUBSET Nodes : Cardinality(Q) >= Threshold}
  BY <1>2, <1>4
<1> HIDE DEF V
<1>8. Promise!Report(SourceIp(a), Hearsay(a), V)
  BY <1>2, <1>3, <1>5, <1>6, <1>7 DEF Promise!Report
<1>. QED
  BY <1>2, <1>8

LEMMA AbstractStep == IInv /\ [Next]_vars => [Promise!Next]_(Promise!vars)
<1> SUFFICES ASSUME IInv, [Next]_vars
             PROVE  [Promise!Next]_(Promise!vars)
  OBVIOUS
<1>1. CASE Tick
  BY <1>1 DEF Tick, Promise!Next, Promise!Tick
<1>2. ASSUME NEW a \in Inputs, Ingest(a)
      PROVE  Promise!Next
  <2>1. SourceIp(a) \in Keys /\ Hearsay(a) \in Promise!AtNow
    BY KeyOfAlert DEF Promise!AtNow
  <2>2. CASE Record(a, Contribute(a))
    BY <2>1, <2>2, RecordIsHear DEF Promise!Next
  <2>3. CASE Raise(a, Contribute(a))
    BY <2>1, <2>3, RaiseIsReport DEF Promise!Next
  <2>. QED
    BY <1>2, <2>2, <2>3 DEF Ingest
<1>3. CASE UNCHANGED vars
  BY <1>3 DEF vars, Promise!vars
<1>. QED
  BY <1>1, <1>2, <1>3 DEF Next

\* The engine implements the promised consensus: threats only on the word of
\* Threshold recent nodes, and never fewer threats than the steady nodes call for.
THEOREM EngineImplementsConsensus == Spec => ImplementsConsensus
BY AbstractInit, AbstractStep, EngineInvariant, PTL DEF Spec, ImplementsConsensus, Promise!Spec
=============================================================================
