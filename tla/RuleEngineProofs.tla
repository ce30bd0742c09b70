--------------------------- MODULE RuleEngineProofs ---------------------------
(***************************************************************************)
(* The built-in detector, for every ring, threshold, window and cooldown:  *)
(* its ring holds the end of the log, its cooldowns run from their alerts, *)
(* and so a rule that counts in the snapshot counts in the log.            *)
(***************************************************************************)
EXTENDS RuleEngine, SequenceTheorems, FiniteSetTheorems, FunctionTheorems, TLAPS

(***************************************************************************)
(* The ring buffer is a sliding window, for every capacity.                *)
(***************************************************************************)

\* Indices up to twice the capacity wrap at most once.
LEMMA WrapsOnce ==
    ASSUME NEW x \in 0..(2 * Cap - 1)
    PROVE  x % Cap = IF x < Cap THEN x ELSE x - Cap
<1>1. Cap \in Nat /\ Cap > 0
  BY RingAssumption
<1>2. CASE x < Cap
  BY <1>1, <1>2, SMTT(30)
<1>3. CASE ~(x < Cap)
  BY <1>1, <1>3, SMTT(30)
<1>. QED
  BY <1>2, <1>3

LEMMA SumWraps ==
    \A i \in 0..(Cap - 1) : \A n \in 0..Cap :
       (i + n) % Cap = IF i + n < Cap THEN i + n ELSE i + n - Cap
<1> SUFFICES ASSUME NEW i \in 0..(Cap - 1), NEW n \in 0..Cap
             PROVE  (i + n) % Cap = IF i + n < Cap THEN i + n ELSE i + n - Cap
  OBVIOUS
<1>1. i + n \in 0..(2 * Cap - 1)
  BY RingAssumption
<1>. QED
  BY <1>1, WrapsOnce, RingAssumption

\* The slot of the i-th oldest element.
Slot(i) == (tail + i - 1) % Cap

\* Distinct elements live in distinct slots, and the slot after the newest is
\* the next one written.
LEMMA SlotFacts ==
    ASSUME RingTypeOK, CursorsAgree
    PROVE  /\ \A i \in 1..Cap : Slot(i) \in Slots
           /\ \A i, j \in 1..Cap : Slot(i) = Slot(j) => i = j
           /\ size < Cap => head = Slot(size + 1)
           /\ size = Cap => head = tail
           /\ Slot(1) = tail
<1>1. Cap \in Nat /\ Cap > 0 /\ tail \in 0..(Cap - 1) /\ size \in 0..Cap
  BY RingAssumption DEF RingTypeOK, Slots
<1>2. \A i \in 1..Cap : Slot(i) = IF tail + i - 1 < Cap THEN tail + i - 1
                                   ELSE tail + i - 1 - Cap
  BY <1>1, WrapsOnce DEF Slot
<1>3. head = IF tail + size < Cap THEN tail + size ELSE tail + size - Cap
  BY <1>1, WrapsOnce DEF CursorsAgree
<1>. QED
  BY <1>1, <1>2, <1>3 DEF Slots

LEMMA NextSlotFacts ==
    ASSUME NEW i \in Slots
    PROVE  /\ NextSlot(i) = IF i + 1 = Cap THEN 0 ELSE i + 1
           /\ NextSlot(i) \in Slots
<1>1. Cap \in Nat /\ Cap > 0 /\ i \in 0..(Cap - 1)
  BY RingAssumption DEF Slots
<1>2. NextSlot(i) = IF i + 1 < Cap THEN i + 1 ELSE i + 1 - Cap
  BY <1>1, WrapsOnce DEF NextSlot
<1>. QED
  BY <1>1, <1>2 DEF Slots

SnapshotSeq == /\ Snapshot \in Seq(Values)
               /\ Len(Snapshot) = size

LEMMA SnapshotIsSeq == IInv => SnapshotSeq
<1> SUFFICES ASSUME RingTypeOK, CursorsAgree, NoBlankInSnapshot
             PROVE  SnapshotSeq
  BY DEF IInv
<1>1. size \in Nat /\ size \in 0..Cap /\ Cap \in Nat
  BY RingAssumption DEF RingTypeOK
<1>2. \A i \in 1..size : Snapshot[i] = storage[Slot(i)]
  BY DEF Snapshot, Slot
<1>3. \A i \in 1..size : Snapshot[i] \in Values
  <2> SUFFICES ASSUME NEW i \in 1..size PROVE Snapshot[i] \in Values
    OBVIOUS
  <2>1. Slot(i) \in Slots
    BY <1>1, SlotFacts
  <2>2. storage[Slot(i)] \in Values \cup {Blank}
    BY <2>1 DEF RingTypeOK
  <2>. QED
    BY <1>2, <2>2 DEF NoBlankInSnapshot
<1>4. Snapshot = [i \in 1..size |-> Snapshot[i]]
  BY DEF Snapshot
<1>. QED
  BY <1>1, <1>3, <1>4, IsASeq, LenProperties DEF SnapshotSeq

-----------------------------------------------------------------------------
(* A push, and a clear. *)

\* The cursors after a push.
LEMMA PushCursors ==
    ASSUME IInv, NEW v \in Values, Push(v)
    PROVE  RingTypeOK' /\ CursorsAgree'
<1>1. /\ Cap \in Nat /\ Cap > 0 /\ tail \in 0..(Cap - 1) /\ head \in 0..(Cap - 1)
      /\ size \in 0..Cap
  BY RingAssumption DEF IInv, RingTypeOK, Slots
<1>2. /\ NextSlot(head) \in Slots /\ NextSlot(tail) \in Slots
      /\ NextSlot(head) = IF head + 1 = Cap THEN 0 ELSE head + 1
      /\ NextSlot(tail) = IF tail + 1 = Cap THEN 0 ELSE tail + 1
  BY NextSlotFacts DEF IInv, RingTypeOK
<1>3. RingTypeOK'
  BY <1>1, <1>2 DEF IInv, RingTypeOK, Push
<1>4. head = IF tail + size < Cap THEN tail + size ELSE tail + size - Cap
  BY <1>1, WrapsOnce DEF IInv, CursorsAgree
<1>5. /\ tail' \in 0..(Cap - 1) /\ size' \in 0..Cap
      /\ head' = IF tail' + size' < Cap THEN tail' + size' ELSE tail' + size' - Cap
  <2>1. CASE size < Cap
    BY <1>1, <1>2, <1>4, <2>1 DEF Push
  <2>2. CASE size = Cap
    BY <1>1, <1>2, <1>4, <2>2 DEF Push
  <2>. QED
    BY <1>1, <2>1, <2>2
<1>6. (tail' + size') % Cap = head'
  BY <1>5, SumWraps
<1>. QED
  BY <1>3, <1>6 DEF CursorsAgree

\* The elements after a push: the old ones, less the oldest when the ring was
\* full, then the new one.
LEMMA PushElements ==
    ASSUME IInv, NEW v \in Values, Push(v)
    PROVE  /\ size < Cap => \A i \in 1..size' :
                Snapshot'[i] = IF i = size' THEN v ELSE Snapshot[i]
           /\ size = Cap => \A i \in 1..size' :
                Snapshot'[i] = IF i = size' THEN v ELSE Snapshot[i + 1]
<1>1. /\ Cap \in Nat /\ Cap > 0 /\ tail \in 0..(Cap - 1) /\ head \in 0..(Cap - 1)
      /\ size \in 0..Cap /\ tail' \in 0..(Cap - 1)
  BY RingAssumption, PushCursors DEF IInv, RingTypeOK, Slots
<1>2. /\ \A i \in 1..Cap : Slot(i) \in Slots
      /\ \A i, j \in 1..Cap : Slot(i) = Slot(j) => i = j
      /\ size < Cap => head = Slot(size + 1)
      /\ size = Cap => head = tail
      /\ Slot(1) = tail
  BY SlotFacts DEF IInv
<1>3. \A s \in Slots : storage'[s] = IF s = head THEN v ELSE storage[s]
  BY DEF Push, IInv, RingTypeOK
<1>4. ASSUME size < Cap, NEW i \in 1..size'
      PROVE  Snapshot'[i] = IF i = size' THEN v ELSE Snapshot[i]
  <2>1. size' = size + 1 /\ tail' = tail
    BY <1>4 DEF Push
  <2>2. Snapshot'[i] = storage'[Slot(i)]
    BY <2>1 DEF Snapshot, Slot
  <2>3. i \in 1..Cap /\ size + 1 \in 1..Cap
    BY <1>1, <1>4, <2>1
  <2>4. i # size' => Slot(i) # head
    BY <1>1, <1>2, <1>4, <2>1, <2>3
  <2>5. i # size' => Snapshot[i] = storage[Slot(i)]
    BY <1>1, <1>4, <2>1 DEF Snapshot, Slot
  <2>. QED
    BY <1>2, <1>3, <1>4, <2>1, <2>2, <2>3, <2>4, <2>5
<1>5. ASSUME size = Cap, NEW i \in 1..size'
      PROVE  Snapshot'[i] = IF i = size' THEN v ELSE Snapshot[i + 1]
  <2>1. size' = Cap /\ tail' = NextSlot(tail)
    BY <1>1, <1>5 DEF Push
  <2>2. Snapshot'[i] = storage'[(tail' + i - 1) % Cap]
    BY DEF Snapshot
  <2>3. tail' = IF tail + 1 = Cap THEN 0 ELSE tail + 1
    BY <2>1, NextSlotFacts DEF IInv, RingTypeOK
  <2>4. CASE i = Cap
    <3>1. (tail' + i - 1) % Cap = tail
      BY <1>1, <2>3, <2>4, WrapsOnce
    <3>. QED
      BY <1>1, <1>2, <1>3, <1>5, <2>1, <2>2, <2>4, <3>1 DEF Slots
  <2>5. CASE i < Cap
    <3>1. i + 1 \in 1..Cap /\ i \in 1..Cap
      BY <1>1, <2>1, <2>5
    <3>2. (tail' + i - 1) % Cap = Slot(i + 1)
      BY <1>1, <2>3, <3>1, WrapsOnce DEF Slot
    <3>3. Slot(i + 1) # head /\ Slot(i + 1) \in Slots
      BY <1>1, <1>2, <1>5, <3>1
    <3>4. Snapshot[i + 1] = storage[Slot(i + 1)]
      BY <1>5, <3>1 DEF Snapshot, Slot
    <3>. QED
      BY <1>3, <2>1, <2>2, <2>5, <3>2, <3>3, <3>4
  <2>. QED
    BY <1>1, <2>1, <2>4, <2>5
<1>. QED
  BY <1>4, <1>5

LEMMA PushInvariant ==
    ASSUME IInv, NEW v \in Values, Push(v)
    PROVE  IInv'
<1>1. RingTypeOK' /\ CursorsAgree'
  BY PushCursors
<1>2. size \in 0..Cap /\ Cap \in Nat /\ v # Blank
  BY RingAssumption DEF IInv, RingTypeOK
<1>3. CASE size < Cap
  <2>1. size' = size + 1
    BY <1>3 DEF Push
  <2>. QED
    BY <1>1, <1>2, <1>3, <2>1, PushElements DEF IInv, NoBlankInSnapshot
<1>4. CASE size = Cap
  <2>1. size' = size
    BY <1>2, <1>4 DEF Push
  <2>. QED
    BY <1>1, <1>2, <1>4, <2>1, PushElements DEF IInv, NoBlankInSnapshot
<1>. QED
  BY <1>2, <1>3, <1>4

LEMMA PushIsWindowPush ==
    ASSUME IInv, NEW v \in Values, Push(v)
    PROVE  Window!Push(v)
<1>1. /\ Snapshot \in Seq(Values) /\ Len(Snapshot) = size
      /\ Snapshot' = [i \in 1..size' |-> Snapshot'[i]]
  BY SnapshotIsSeq DEF SnapshotSeq, Snapshot
<1>2. Snapshot' \in Seq(Values) /\ Len(Snapshot') = size'
  <2>1. IInv'
    BY PushInvariant
  <2>2. SnapshotSeq'
    BY <2>1, SnapshotIsSeq, PTL
  <2>. QED
    BY <2>2 DEF SnapshotSeq
<1>3. size \in 0..Cap /\ Cap \in Nat /\ Cap > 0
  BY RingAssumption DEF IInv, RingTypeOK
<1>4. CASE size < Cap
  <2>1. size' = size + 1
    BY <1>4 DEF Push
  <2>2. Snapshot' = Append(Snapshot, v)
    BY <1>1, <1>2, <1>3, <1>4, <2>1, PushElements, AppendProperties
  <2>. QED
    BY <1>1, <1>4, <2>2 DEF Window!Push
<1>5. CASE size = Cap
  <2>1. size' = size
    BY <1>3, <1>5 DEF Push
  <2>2. Snapshot' = Append(Tail(Snapshot), v)
    <3>1. /\ Tail(Snapshot) \in Seq(Values) /\ Len(Tail(Snapshot)) = size - 1
          /\ \A i \in 1..(size - 1) : Tail(Snapshot)[i] = Snapshot[i + 1]
      BY <1>1, <1>3, <1>5, HeadTailProperties
    <3>. QED
      BY <1>1, <1>2, <1>3, <1>5, <2>1, <3>1, PushElements, AppendProperties
  <2>. QED
    BY <1>1, <1>3, <1>5, <2>2 DEF Window!Push
<1>. QED
  BY <1>3, <1>4, <1>5

LEMMA ClearFacts == IInv /\ Clear => IInv' /\ Window!Clear
<1> SUFFICES ASSUME IInv, Clear PROVE IInv' /\ Window!Clear
  OBVIOUS
<1>1. Cap \in Nat /\ Cap > 0 /\ 0 % Cap = 0
  BY RingAssumption, WrapsOnce
<1>2. RingTypeOK'
  BY <1>1 DEF Clear, IInv, RingTypeOK, Slots
<1>3. CursorsAgree' /\ NoBlankInSnapshot'
  BY <1>1 DEF Clear, CursorsAgree, NoBlankInSnapshot
<1>4. Snapshot' = <<>>
  BY DEF Clear, Snapshot
<1>. QED
  BY <1>2, <1>3, <1>4 DEF IInv, Window!Clear

LEMMA InitFacts == RingInit => IInv /\ Window!Init
<1>1. Cap \in Nat /\ Cap > 0 /\ 0 % Cap = 0
  BY RingAssumption, WrapsOnce
<1>. QED
  BY <1>1 DEF RingInit, IInv, RingTypeOK, CursorsAgree, NoBlankInSnapshot, Slots,
              Snapshot, Window!Init

LEMMA NextFacts == IInv /\ [RingNext]_ringVars => IInv' /\ [Window!Next]_Snapshot
<1> SUFFICES ASSUME IInv, [RingNext]_ringVars PROVE IInv' /\ [Window!Next]_Snapshot
  OBVIOUS
<1>1. CASE Clear
  BY <1>1, ClearFacts DEF Window!Next
<1>2. ASSUME NEW v \in Values, Push(v)
      PROVE  IInv' /\ Window!Next
  BY <1>2, PushInvariant, PushIsWindowPush DEF Window!Next
<1>3. CASE UNCHANGED ringVars
  BY <1>3 DEF ringVars, IInv, RingTypeOK, CursorsAgree, NoBlankInSnapshot, Snapshot
<1>. QED
  BY <1>1, <1>2, <1>3 DEF RingNext

-----------------------------------------------------------------------------
\* The ring's cursors and contents stay well-typed, its cursors agree with its
\* count, and no unwritten slot is ever part of a snapshot.
THEOREM RingInvariant == RingSpec => []IInv
BY InitFacts, NextFacts, PTL DEF RingSpec

\* The cursors agree with the count of elements.
THEOREM RingCursors == RingSpec => []CursorsAgree
BY RingInvariant, PTL DEF IInv

\* No snapshot shows an unwritten slot.
THEOREM RingNoBlank == RingSpec => []NoBlankInSnapshot
BY RingInvariant, PTL DEF IInv

\* A snapshot is the sliding window over the pushes.
THEOREM RingIsWindow == RingSpec => ImplementsWindow
BY RingInvariant, InitFacts, NextFacts, PTL DEF RingSpec, ImplementsWindow, Window!Spec
-----------------------------------------------------------------------------
(* The rules over it.                                                      *)

\* What the assumptions give about the constants.
LEMMA Numbers ==
    /\ Cap \in Nat /\ Cap > 0
    /\ IndexSpan \in Nat /\ SshThreshold \in Nat
    /\ Boot \in Nat /\ MaxTime \in Nat /\ MaxEvents \in Nat
    /\ \A rule \in Rules : RuleWindow[rule] \in Nat /\ Cooldown[rule] \in Nat
BY RingAssumption, RuleEngineAssumption

\* An event of the log: what is seen of it, and its time.
LEMMA EventFacts ==
    ASSUME NEW v \in Values
    PROVE  /\ v.shape \in Shapes /\ v.stamp \in Int
           /\ v.shape.ip \in Ips \cup {NoIp}
           /\ v.shape.user # NoUser => v.shape.user \in v.shape.mentions
<1>1. v \in [shape : Shapes, stamp : Int]
  BY ValuesAssumption
<1>2. v.shape \in Shape
  BY <1>1, RuleEngineAssumption
<1>. QED
  BY <1>1, <1>2, RuleEngineAssumption DEF Shape

\* The event a line becomes.
Event(s, skew) == [shape |-> s, stamp |-> Stamp(s.form, now - skew, now)]

LEMMA EventIsValue ==
    ASSUME TypeOK, NEW s \in Shapes, NEW skew \in Skews
    PROVE  Event(s, skew) \in Values
BY ValuesAssumption DEF TypeOK, Event

LEMMA KeyFacts ==
    ASSUME NEW v \in Values, NEW rule \in Rules
    PROVE  KeyOf(rule, v) \in Keys /\ KeyOf(rule, v)[1] = rule
BY EventFacts DEF KeyOf, Keys

-----------------------------------------------------------------------------
(* The ring and the log. *)

\* The place of an element of the snapshot in the log.
Offset == Len(log) - size

LEMMA PushHoldsLog ==
    ASSUME IInv, log \in Seq(Values), RingHoldsLog,
           NEW v \in Values, Push(v), log' = Append(log, v)
    PROVE  /\ RingHoldsLog'
           /\ Len(log') = Len(log) + 1
           /\ log'[Len(log')] = v
           /\ \A i \in 1..Len(log) : log'[i] = log[i]
<1>1. /\ Len(log) \in Nat /\ Len(log') = Len(log) + 1 /\ log'[Len(log) + 1] = v
      /\ \A i \in 1..Len(log) : log'[i] = log[i]
  BY AppendProperties
<1>2. Cap \in Nat /\ Cap > 0
  BY Numbers
<1>3. CASE Len(log) < Cap
  <2>1. size = Len(log) /\ size < Cap
    BY <1>3 DEF RingHoldsLog
  <2>2. size' = size + 1
    BY <2>1 DEF Push
  <2>3. \A i \in 1..size' : Snapshot'[i] = IF i = size' THEN v ELSE Snapshot[i]
    BY <2>1, PushElements
  <2>4. \A i \in 1..size : Snapshot[i] = log[Len(log) - size + i]
    BY DEF RingHoldsLog
  <2>5. \A i \in 1..size' : Snapshot'[i] = log'[Len(log') - size' + i]
    BY <1>1, <2>1, <2>2, <2>3, <2>4
  <2>6. size' = IF Len(log') < Cap THEN Len(log') ELSE Cap
    BY <1>1, <1>2, <2>1, <2>2
  <2>. QED
    BY <1>1, <2>5, <2>6 DEF RingHoldsLog
<1>4. CASE ~(Len(log) < Cap)
  <2>1. size = Cap
    BY <1>4 DEF RingHoldsLog
  <2>2. size' = Cap
    BY <1>2, <2>1 DEF Push
  <2>3. \A i \in 1..size' : Snapshot'[i] = IF i = size' THEN v ELSE Snapshot[i + 1]
    BY <2>1, PushElements
  <2>4. \A i \in 1..size : Snapshot[i] = log[Len(log) - size + i]
    BY DEF RingHoldsLog
  <2>5. \A i \in 1..size' : Snapshot'[i] = log'[Len(log') - size' + i]
    <3> SUFFICES ASSUME NEW i \in 1..size' PROVE Snapshot'[i] = log'[Len(log') - size' + i]
      OBVIOUS
    <3>1. CASE i = size'
      BY <1>1, <1>2, <2>2, <2>3, <3>1
    <3>2. CASE i # size'
      <4>1. i + 1 \in 1..size /\ Len(log) - size + (i + 1) \in 1..Len(log)
        BY <1>1, <1>2, <1>4, <2>1, <2>2, <3>2
      <4>2. Snapshot'[i] = log[Len(log) - size + (i + 1)]
        BY <2>3, <2>4, <3>2, <4>1
      <4>3. Len(log') - size' + i = Len(log) - size + (i + 1)
        BY <1>1, <1>2, <2>1, <2>2
      <4>. QED
        BY <1>1, <4>1, <4>2, <4>3
    <3>. QED
      BY <3>1, <3>2
  <2>6. size' = IF Len(log') < Cap THEN Len(log') ELSE Cap
    BY <1>1, <1>2, <1>4, <2>2
  <2>. QED
    BY <1>1, <2>5, <2>6 DEF RingHoldsLog
<1>. QED
  BY <1>1, <1>3, <1>4

-----------------------------------------------------------------------------
(* The cooldowns. *)

\* What process() does to one key.
LEMMA ProcessFacts ==
    ASSUME TypeOK, CooldownsRun, NEW v \in Values, NEW events, Process(v, events),
           now' = now
    PROVE  /\ until' \in [Keys -> Nat] /\ lastAlert' \in [Keys -> Nat \cup {Never}]
           /\ results' \subseteq [rule : Rules, key : Keys]
           /\ CooldownsRun'
           /\ \A r \in results' : /\ r.key = KeyOf(r.rule, v)
                                  /\ Fires(r.rule, v, events)
                                  /\ ~InCooldown(r.key)
           /\ \A rule \in Rules : Fires(rule, v, events) =>
                \/ InCooldown(KeyOf(rule, v)) /\ lastAlert'[KeyOf(rule, v)]
                                                  = lastAlert[KeyOf(rule, v)]
                \/ lastAlert'[KeyOf(rule, v)] = now
<1> DEFINE firing == {rule \in Rules : Fires(rule, v, events) /\ ~InCooldown(KeyOf(rule, v))}
           keys == {KeyOf(rule, v) : rule \in firing}
<1>1. /\ results' = {[rule |-> rule, key |-> KeyOf(rule, v)] : rule \in firing}
      /\ until' = [k \in Keys |-> IF k \in keys THEN now + Cooldown[k[1]] ELSE until[k]]
      /\ lastAlert' = [k \in Keys |-> IF k \in keys THEN now ELSE lastAlert[k]]
  BY DEF Process
<1>2. \A rule \in Rules : KeyOf(rule, v) \in Keys
  BY KeyFacts
<1>3. \A k \in Keys : Cooldown[k[1]] \in Nat
  BY Numbers DEF Keys
<1>4. now \in Nat
  BY Numbers DEF TypeOK
<1>5. \A rule \in firing : rule \in Rules /\ Fires(rule, v, events) /\ ~InCooldown(KeyOf(rule, v))
  OBVIOUS
<1>6. \A rule \in Rules : Fires(rule, v, events) /\ ~InCooldown(KeyOf(rule, v))
                            => KeyOf(rule, v) \in keys
  OBVIOUS
<1>7. \A rule \in Rules : KeyOf(rule, v) \in keys => ~InCooldown(KeyOf(rule, v))
  BY Zenon
<1> HIDE DEF firing, keys
<1>8. until' \in [Keys -> Nat]
  BY <1>1, <1>3, <1>4 DEF TypeOK
<1>9. lastAlert' \in [Keys -> Nat \cup {Never}]
  BY <1>1, <1>4 DEF TypeOK
<1>10. results' \subseteq [rule : Rules, key : Keys]
  BY <1>1, <1>2, <1>5
<1>11. CooldownsRun'
  <2> SUFFICES ASSUME NEW k \in Keys
               PROVE  IF lastAlert'[k] = Never THEN until'[k] = 0
                      ELSE lastAlert'[k] <= now /\ until'[k] = lastAlert'[k] + Cooldown[k[1]]
    BY DEF CooldownsRun
  <2>1. CASE k \in keys
    <3>1. until'[k] = now + Cooldown[k[1]] /\ lastAlert'[k] = now
      BY <1>1, <2>1
    <3>. QED
      BY <1>3, <1>4, <3>1 DEF Never
  <2>2. CASE k \notin keys
    <3>1. until'[k] = until[k] /\ lastAlert'[k] = lastAlert[k]
      BY <1>1, <2>2
    <3>. QED
      BY <3>1 DEF CooldownsRun
  <2>. QED
    BY <2>1, <2>2
<1>12. \A r \in results' : /\ r.key = KeyOf(r.rule, v)
                           /\ Fires(r.rule, v, events)
                           /\ ~InCooldown(r.key)
  <2> SUFFICES ASSUME NEW r \in results'
               PROVE  r.key = KeyOf(r.rule, v) /\ Fires(r.rule, v, events) /\ ~InCooldown(r.key)
    OBVIOUS
  <2>1. PICK rule \in firing : r = [rule |-> rule, key |-> KeyOf(rule, v)]
    BY <1>1
  <2>2. r.rule = rule /\ r.key = KeyOf(rule, v)
    BY <2>1
  <2>3. Fires(r.rule, v, events)
    BY <1>5, <2>2, Zenon
  <2>4. ~InCooldown(r.key)
    BY <1>5, <2>2, Zenon
  <2>. QED
    BY <2>2, <2>3, <2>4
<1>13. ASSUME NEW rule \in Rules, Fires(rule, v, events)
       PROVE  \/ InCooldown(KeyOf(rule, v)) /\ lastAlert'[KeyOf(rule, v)]
                                                  = lastAlert[KeyOf(rule, v)]
              \/ lastAlert'[KeyOf(rule, v)] = now
  <2>1. CASE InCooldown(KeyOf(rule, v))
    <3>1. KeyOf(rule, v) \notin keys
      BY <1>7, <2>1
    <3>2. lastAlert'[KeyOf(rule, v)] = lastAlert[KeyOf(rule, v)]
      BY <1>1, <1>2, <3>1
    <3>. QED
      BY <2>1, <3>2
  <2>2. CASE ~InCooldown(KeyOf(rule, v))
    <3>1. KeyOf(rule, v) \in keys
      BY <1>6, <1>13, <2>2
    <3>. QED
      BY <1>1, <1>2, <3>1
  <2>. QED
    BY <2>1, <2>2
<1>. QED
  BY <1>8, <1>9, <1>10, <1>11, <1>12, <1>13

-----------------------------------------------------------------------------
(* One line, one swap, one second. *)

LEMMA OnEventInv ==
    ASSUME EngineInv, NEW s \in Shapes, OnEvent(s)
    PROVE  EngineInv'
<1>1. PICK skew \in Skews :
          /\ Push(Event(s, skew))
          /\ \E events \in {Snapshot'} : Process(Event(s, skew), events)
          /\ log' = Append(log, Event(s, skew))
  BY DEF OnEvent, Event
<1> DEFINE v == Event(s, skew)
<1>2. v \in Values /\ now' = now /\ Len(log) < MaxEvents /\ Process(v, Snapshot')
  BY <1>1, EventIsValue DEF EngineInv, OnEvent
<1> HIDE DEF v
<1>3. IInv' /\ RingTypeOK'
  BY <1>1, <1>2, PushInvariant DEF EngineInv, IInv, v
<1>4. RingHoldsLog' /\ Len(log') = Len(log) + 1
  BY <1>1, <1>2, PushHoldsLog DEF EngineInv, TypeOK, v
<1>5. /\ until' \in [Keys -> Nat] /\ lastAlert' \in [Keys -> Nat \cup {Never}]
      /\ results' \subseteq [rule : Rules, key : Keys]
      /\ CooldownsRun'
  BY <1>2, ProcessFacts DEF EngineInv
<1>6. log' \in Seq(Values)
  BY <1>1, <1>2, AppendProperties DEF EngineInv, TypeOK, v
<1>7. Len(log') <= MaxEvents
  BY <1>2, <1>4, Numbers, LenProperties DEF EngineInv, TypeOK
<1>8. TypeOK'
  BY <1>2, <1>3, <1>5, <1>6, <1>7 DEF EngineInv, TypeOK
<1>. QED
  BY <1>3, <1>4, <1>5, <1>8 DEF EngineInv

LEMMA RingUnchanged ==
    ASSUME IInv, RingHoldsLog, UNCHANGED <<ringVars, log>>
    PROVE  IInv' /\ RingTypeOK' /\ RingHoldsLog'
BY DEF ringVars, IInv, RingTypeOK, CursorsAgree, NoBlankInSnapshot, Snapshot, RingHoldsLog

LEMMA EngineNext == EngineInv /\ [Next]_vars => EngineInv'
<1> SUFFICES ASSUME EngineInv, [Next]_vars PROVE EngineInv'
  OBVIOUS
<1>1. ASSUME NEW s \in Shapes, OnEvent(s) PROVE EngineInv'
  BY <1>1, OnEventInv
<1>2. CASE SwapBack
  <2>1. IInv' /\ RingTypeOK' /\ RingHoldsLog'
    BY <1>2, RingUnchanged DEF EngineInv, SwapBack
  <2>2. TypeOK'
    BY <1>2, <2>1 DEF EngineInv, TypeOK, SwapBack
  <2>3. CooldownsRun'
    BY <1>2 DEF CooldownsRun, SwapBack
  <2>. QED
    BY <2>1, <2>2, <2>3 DEF EngineInv
<1>3. CASE Tick
  <2>1. IInv' /\ RingTypeOK' /\ RingHoldsLog'
    BY <1>3, RingUnchanged DEF EngineInv, Tick
  <2>2. now' = now + 1 /\ now \in Nat /\ now' \in Boot..MaxTime
    BY <1>3, Numbers DEF EngineInv, TypeOK, Tick
  <2>3. TypeOK'
    BY <1>3, <2>1, <2>2 DEF EngineInv, TypeOK, Tick
  <2>4. \A k \in Keys : lastAlert[k] \in Nat \cup {Never}
    BY DEF EngineInv, TypeOK
  <2>5. CooldownsRun'
    BY <1>3, <2>2, <2>4 DEF EngineInv, CooldownsRun, Tick, Never
  <2>. QED
    BY <2>1, <2>3, <2>5 DEF EngineInv
<1>4. CASE UNCHANGED vars
  <2>1. IInv' /\ RingTypeOK' /\ RingHoldsLog'
    BY <1>4, RingUnchanged DEF EngineInv, vars
  <2>2. TypeOK' /\ CooldownsRun'
    BY <1>4, <2>1 DEF EngineInv, TypeOK, CooldownsRun, vars
  <2>. QED
    BY <2>1, <2>2 DEF EngineInv
<1>. QED
  BY <1>1, <1>2, <1>3, <1>4 DEF Next

LEMMA EngineInit == Init => EngineInv
<1> SUFFICES ASSUME Init PROVE EngineInv
  OBVIOUS
<1>1. IInv /\ RingTypeOK
  BY InitFacts DEF Init, IInv
<1>2. log \in Seq(Values) /\ Len(log) = 0 /\ size = 0
  BY EmptySeq DEF Init, RingInit
<1>3. RingHoldsLog
  BY <1>2, Numbers DEF RingHoldsLog
<1>4. now \in Boot..MaxTime
  BY RuleEngineAssumption DEF Init
<1>5. TypeOK
  BY <1>1, <1>2, <1>4, Numbers DEF Init, TypeOK
<1>6. CooldownsRun
  BY DEF Init, CooldownsRun
<1>. QED
  BY <1>1, <1>3, <1>5, <1>6 DEF EngineInv

-----------------------------------------------------------------------------
\* The ring's cursors, the types, the ring against the log and the cooldowns
\* against the alerts.
THEOREM EngineInvariant == Spec => []EngineInv
BY EngineInit, EngineNext, PTL DEF Spec

THEOREM EngineTypes == Spec => []TypeOK
BY EngineInvariant, PTL DEF EngineInv

-----------------------------------------------------------------------------
(* Counting in the snapshot is counting in the log.                        *)

\* An event v was logged and handed with the snapshot to the rules.
Logged(v) == /\ EngineInv /\ EngineInv'
             /\ v \in Values /\ now' = now
             /\ Process(v, Snapshot')
             /\ Newest' = v
             /\ Len(log') = Len(log) + 1
             /\ log'[Len(log')] = v
             /\ \A i \in 1..Len(log) : log'[i] = log[i]

LEMMA OnlyEventsAreLogged ==
    ASSUME EngineInv, EngineInv', [Next]_vars, log' # log
    PROVE  \E v \in Values : Logged(v)
<1>1. PICK s \in Shapes : OnEvent(s)
  BY DEF Next, SwapBack, Tick, vars
<1>2. PICK skew \in Skews :
          /\ Push(Event(s, skew))
          /\ \E events \in {Snapshot'} : Process(Event(s, skew), events)
          /\ log' = Append(log, Event(s, skew))
  BY <1>1 DEF OnEvent, Event
<1> DEFINE v == Event(s, skew)
<1>3. v \in Values /\ now' = now /\ Process(v, Snapshot')
  BY <1>1, <1>2, EventIsValue DEF EngineInv, OnEvent
<1> HIDE DEF v
<1>4. /\ Len(log') = Len(log) + 1 /\ log'[Len(log')] = v
      /\ \A i \in 1..Len(log) : log'[i] = log[i]
  BY <1>2, <1>3, PushHoldsLog DEF EngineInv, TypeOK, v
<1>5. Newest' = v
  BY <1>4 DEF Newest
<1>. QED
  BY <1>3, <1>4, <1>5 DEF Logged

\* The places of the log the ring still holds.
Held == {i \in 1..Len(log) : i > Len(log) - Cap}

\* Where a place of the snapshot is in the log.
LEMMA Shift ==
    ASSUME EngineInv'
    PROVE  /\ Len(Snapshot') = size' /\ size' \in Nat /\ Offset' \in Nat
           /\ \A i \in 1..size' : /\ Offset' + i \in Held'
                                  /\ Snapshot'[i] = log'[Offset' + i]
           /\ \A j \in Held' : j - Offset' \in 1..size'
           /\ \A j \in Held' : log'[j] \in Values
<1>1. SnapshotSeq'
  BY SnapshotIsSeq, PTL DEF EngineInv
<1>2. Len(Snapshot') = size'
  BY <1>1 DEF SnapshotSeq
<1>3. Len(log') \in Nat /\ log' \in Seq(Values)
  BY LenProperties DEF EngineInv, TypeOK
<1>4. size' = IF Len(log') < Cap THEN Len(log') ELSE Cap
  BY DEF EngineInv, RingHoldsLog
<1>5. \A i \in 1..size' : Snapshot'[i] = log'[Offset' + i]
  BY DEF EngineInv, RingHoldsLog, Offset
<1>6. size' \in Nat /\ Offset' \in Nat
  BY <1>3, <1>4, Numbers DEF Offset
<1>7. \A i \in 1..size' : Offset' + i \in Held'
  BY <1>3, <1>4, Numbers DEF Offset, Held
<1>8. \A j \in Held' : j - Offset' \in 1..size'
  BY <1>3, <1>4, Numbers DEF Offset, Held
<1>9. \A j \in Held' : log'[j] \in Values
  BY <1>3, ElementOfSeq DEF Held
<1>. QED
  BY <1>2, <1>5, <1>6, <1>7, <1>8, <1>9

\* The places a rule counts are, shifted, its evidence.
LEMMA EvidenceShifts ==
    ASSUME NEW v \in Values, Logged(v), NEW rule \in Rules
    PROVE  /\ \A i \in SameIp(rule, Snapshot', v) :
                 /\ i \in 1..size' /\ Offset' + i \in Evidence(rule)'
                 /\ Snapshot'[i] = log'[Offset' + i]
           /\ \A j \in Evidence(rule)' :
                 /\ j - Offset' \in SameIp(rule, Snapshot', v)
                 /\ Snapshot'[j - Offset'] = log'[j]
<1>1. /\ Len(Snapshot') = size' /\ size' \in Nat /\ Offset' \in Nat
      /\ \A i \in 1..size' : Offset' + i \in Held' /\ Snapshot'[i] = log'[Offset' + i]
      /\ \A j \in Held' : j - Offset' \in 1..size'
  BY Shift DEF Logged
<1>2. \A i : i \in SameIp(rule, Snapshot', v) <=>
              /\ i \in 1..size'
              /\ Snapshot'[i].stamp >= v.stamp - IndexSpan
              /\ Snapshot'[i].stamp >= v.stamp - RuleWindow[rule]
              /\ Snapshot'[i].shape.ip = v.shape.ip
  BY <1>1 DEF SameIp, InWindow, Indexed, Places
<1>3. \A j : j \in Evidence(rule)' <=>
              /\ j \in Held'
              /\ log'[j].stamp >= v.stamp - IndexSpan
              /\ log'[j].stamp >= v.stamp - RuleWindow[rule]
              /\ log'[j].shape.ip = v.shape.ip
  BY DEF Evidence, Held, Logged
<1>4. ASSUME NEW i \in SameIp(rule, Snapshot', v)
      PROVE  /\ i \in 1..size' /\ Offset' + i \in Evidence(rule)'
             /\ Snapshot'[i] = log'[Offset' + i]
  BY <1>1, <1>2, <1>3, <1>4
<1>5. ASSUME NEW j \in Evidence(rule)'
      PROVE  /\ j - Offset' \in SameIp(rule, Snapshot', v)
             /\ Snapshot'[j - Offset'] = log'[j]
  <2>1. j \in Held' /\ j - Offset' \in 1..size' /\ j \in Int
    BY <1>1, <1>3 DEF Held
  <2>2. Offset' + (j - Offset') = j
    BY <1>1, <2>1
  <2>3. Snapshot'[j - Offset'] = log'[j]
    BY <1>1, <2>1, <2>2
  <2>. QED
    BY <1>2, <1>3, <2>1, <2>3
<1>. QED
  BY <1>4, <1>5

\* The newest event is evidence for any rule.
LEMMA NewestIsEvidence ==
    ASSUME NEW v \in Values, Logged(v), NEW rule \in Rules
    PROVE  Len(log') \in Evidence(rule)' /\ log'[Len(log')] = v
<1>1. Len(log) \in Nat /\ Len(log') = Len(log) + 1
  BY LenProperties DEF Logged, EngineInv, TypeOK
<1>2. Len(log') \in 1..Len(log') /\ Len(log') > Len(log') - Cap
  BY <1>1, Numbers
<1>3. v.stamp >= v.stamp - RuleWindow[rule] /\ v.stamp >= v.stamp - IndexSpan
  BY EventFacts, Numbers
<1>. QED
  BY <1>2, <1>3 DEF Evidence, Logged

\* SSH: the failed logins in the snapshot are as many as those in the log.
SshHits(v) == {i \in SameIp("ssh", Snapshot', v) : SshFailure(Snapshot'[i].shape)}

LEMMA FailuresCounted ==
    ASSUME NEW v \in Values, Logged(v)
    PROVE  Cardinality(SshHits(v)) = Failures' /\ Failures' \in Nat
<1> DEFINE B == {j \in Evidence("ssh")' : SshFailure(log'[j].shape)}
           f == [i \in SshHits(v) |-> Offset' + i]
<1>1. /\ \A i \in SameIp("ssh", Snapshot', v) :
             /\ i \in 1..size' /\ Offset' + i \in Evidence("ssh")'
             /\ Snapshot'[i] = log'[Offset' + i]
      /\ \A j \in Evidence("ssh")' :
             /\ j - Offset' \in SameIp("ssh", Snapshot', v)
             /\ Snapshot'[j - Offset'] = log'[j]
  BY EvidenceShifts DEF Rules
<1>2. size' \in Nat /\ Offset' \in Nat
  BY Shift DEF Logged
<1>3. \A i \in SshHits(v) : i \in 1..size' /\ Offset' + i \in B
  BY <1>1 DEF SshHits
<1>4. \A j \in B : j - Offset' \in SshHits(v)
  BY <1>1 DEF SshHits
<1>5. \A j \in B : j \in Int
  BY DEF Evidence
<1> HIDE DEF B
<1>6. f \in [SshHits(v) -> B]
  BY <1>3
<1>7. \A a, b \in SshHits(v) : f[a] = f[b] => a = b
  BY <1>2, <1>3
<1>8. \A j \in B : \E i \in SshHits(v) : f[i] = j
  <2> SUFFICES ASSUME NEW j \in B PROVE \E i \in SshHits(v) : f[i] = j
    OBVIOUS
  <2>1. j - Offset' \in SshHits(v)
    BY <1>4
  <2>2. f[j - Offset'] = Offset' + (j - Offset')
    BY <2>1
  <2>3. Offset' + (j - Offset') = j
    BY <1>2, <1>5
  <2>. QED
    BY <2>1, <2>2, <2>3
<1>9. f \in Bijection(SshHits(v), B)
  BY <1>6, <1>7, <1>8, Fun_IsBij
<1>10. ExistsBijection(SshHits(v), B)
  BY <1>9 DEF ExistsBijection
<1>11. IsFiniteSet(SshHits(v))
  <2>1. IsFiniteSet(1..size')
    BY <1>2, FS_Interval
  <2>2. SshHits(v) \in SUBSET (1..size')
    BY <1>3
  <2>. QED
    BY <2>1, <2>2, FS_Subset
<1>12. IsFiniteSet(B) /\ Cardinality(B) = Cardinality(SshHits(v))
  BY <1>10, <1>11, FS_Bijection
<1>13. Failures' = Cardinality(B)
  BY DEF Failures, B
<1>14. Cardinality(B) \in Nat
  BY <1>12, FS_CardinalityType
<1>. QED
  BY <1>12, <1>13, <1>14

\* Port scans: the same ports.
LEMMA PortsCounted ==
    ASSUME NEW v \in Values, Logged(v)
    PROVE  (IF PortHit(v.shape) THEN {v.shape.port} ELSE {})
              \cup {Snapshot'[i].shape.port :
                      i \in {j \in SameIp("scan", Snapshot', v) : PortHit(Snapshot'[j].shape)}}
            = Ports'
<1> DEFINE E == {j \in Evidence("scan")' : PortHit(log'[j].shape)}
           S == {j \in SameIp("scan", Snapshot', v) : PortHit(Snapshot'[j].shape)}
<1>1. /\ \A i \in SameIp("scan", Snapshot', v) :
             /\ Offset' + i \in Evidence("scan")'
             /\ Snapshot'[i] = log'[Offset' + i]
      /\ \A j \in Evidence("scan")' :
             /\ j - Offset' \in SameIp("scan", Snapshot', v)
             /\ Snapshot'[j - Offset'] = log'[j]
  BY EvidenceShifts DEF Rules
<1>2. Len(log') \in Evidence("scan")' /\ log'[Len(log')] = v
  BY NewestIsEvidence DEF Rules
<1>3. PortHit(v.shape) => Len(log') \in E
  BY <1>2
<1>4. \A i \in S : Offset' + i \in E /\ Snapshot'[i] = log'[Offset' + i]
  BY <1>1
<1>5. \A j \in E : j - Offset' \in S /\ Snapshot'[j - Offset'] = log'[j]
  BY <1>1
<1>6. Ports' = {log'[j].shape.port : j \in E}
  BY DEF Ports
<1> HIDE DEF E, S
<1>7. (IF PortHit(v.shape) THEN {v.shape.port} ELSE {})
         \cup {Snapshot'[i].shape.port : i \in S} = {log'[j].shape.port : j \in E}
  <2>1. \A i \in S : \E j \in E : Snapshot'[i].shape.port = log'[j].shape.port
    BY <1>4
  <2>2. \A j \in E : \E i \in S : log'[j].shape.port = Snapshot'[i].shape.port
    BY <1>5
  <2>3. PortHit(v.shape) => \E j \in E : v.shape.port = log'[j].shape.port
    BY <1>2, <1>3
  <2>. QED
    BY <2>1, <2>2, <2>3
<1>. QED
  BY <1>6, <1>7 DEF S

\* Authentication failures: the same services.
LEMMA ServicesCounted ==
    ASSUME NEW v \in Values, Logged(v), AuthFailure(v.shape)
    PROVE  {v.shape.source}
              \cup {Snapshot'[i].shape.source :
                      i \in {j \in SameIp("multi", Snapshot', v) : AuthFailure(Snapshot'[j].shape)}}
            = Services'
<1> DEFINE E == {j \in Evidence("multi")' : AuthFailure(log'[j].shape)}
           S == {j \in SameIp("multi", Snapshot', v) : AuthFailure(Snapshot'[j].shape)}
<1>1. /\ \A i \in SameIp("multi", Snapshot', v) :
             /\ Offset' + i \in Evidence("multi")'
             /\ Snapshot'[i] = log'[Offset' + i]
      /\ \A j \in Evidence("multi")' :
             /\ j - Offset' \in SameIp("multi", Snapshot', v)
             /\ Snapshot'[j - Offset'] = log'[j]
  BY EvidenceShifts DEF Rules
<1>2. Len(log') \in E /\ log'[Len(log')] = v
  BY NewestIsEvidence DEF Rules
<1>4. \A i \in S : Offset' + i \in E /\ Snapshot'[i] = log'[Offset' + i]
  BY <1>1
<1>5. \A j \in E : j - Offset' \in S /\ Snapshot'[j - Offset'] = log'[j]
  BY <1>1
<1>6. Services' = {log'[j].shape.source : j \in E}
  BY DEF Services
<1> HIDE DEF E, S
<1>7. {v.shape.source} \cup {Snapshot'[i].shape.source : i \in S}
        = {log'[j].shape.source : j \in E}
  <2>1. \A i \in S : \E j \in E : Snapshot'[i].shape.source = log'[j].shape.source
    BY <1>4
  <2>2. \A j \in E : \E i \in S : log'[j].shape.source = Snapshot'[i].shape.source
    BY <1>5
  <2>. QED
    BY <1>2, <2>1, <2>2
<1>. QED
  BY <1>6, <1>7 DEF S

-----------------------------------------------------------------------------
(* The properties of the alerts.                                           *)

\* The rule of an alert fired on the newest event, outside its cooldown.
LEMMA AlertFacts ==
    ASSUME NEW v \in Values, Logged(v), NEW r \in results'
    PROVE  /\ r.rule \in Rules /\ r.key = KeyOf(r.rule, v)
           /\ Fires(r.rule, v, Snapshot') /\ ~InCooldown(r.key)
<1>1. EngineInv /\ TypeOK /\ CooldownsRun /\ Process(v, Snapshot') /\ now' = now
  BY DEF Logged, EngineInv
<1>2. /\ results' \subseteq [rule : Rules, key : Keys]
      /\ \A q \in results' : /\ q.key = KeyOf(q.rule, v)
                             /\ Fires(q.rule, v, Snapshot')
                             /\ ~InCooldown(q.key)
  BY <1>1, ProcessFacts
<1>3. r.rule \in Rules
  BY <1>2
<1>. QED
  BY <1>2, <1>3, Zenon

\* A cooldown that has ended ended a cooldown after the alert.
LEMMA EndedCooldown ==
    ASSUME EngineInv, NEW k \in Keys, ~InCooldown(k), lastAlert[k] # Never
    PROVE  now >= lastAlert[k] + Cooldown[k[1]]
<1>1. until[k] = lastAlert[k] + Cooldown[k[1]] /\ lastAlert[k] <= now
  BY DEF EngineInv, CooldownsRun
<1>2. now \in Nat /\ until[k] \in Nat
  BY Numbers DEF EngineInv, TypeOK
<1>. QED
  BY <1>1, <1>2 DEF InCooldown

LEMMA CooldownsStep ==
    ASSUME NEW v \in Values, Logged(v), NEW r \in results', lastAlert[r.key] # Never
    PROVE  now >= lastAlert[r.key] + Cooldown[r.rule]
<1>1. r.rule \in Rules /\ r.key = KeyOf(r.rule, v) /\ ~InCooldown(r.key)
  BY AlertFacts
<1>2. r.key \in Keys /\ r.key[1] = r.rule
  BY <1>1, KeyFacts
<1>. QED
  BY <1>1, <1>2, EndedCooldown DEF Logged

\* A rule that fires on the newest event leaves its key alerted.
LEMMA FiredIsAlerted ==
    ASSUME NEW v \in Values, Logged(v), NEW rule \in Rules, Fires(rule, v, Snapshot')
    PROVE  Alerted(rule)'
<1> DEFINE k == KeyOf(rule, v)
<1>1. EngineInv /\ TypeOK /\ CooldownsRun /\ Process(v, Snapshot') /\ now' = now /\ Newest' = v
  BY DEF Logged, EngineInv
<1>2. k \in Keys /\ k[1] = rule
  BY KeyFacts
<1>3. KeyOf(rule, Newest)' = k
  BY <1>1 DEF KeyOf
<1>4. \/ InCooldown(k) /\ lastAlert'[k] = lastAlert[k]
      \/ lastAlert'[k] = now
  BY <1>1, ProcessFacts
<1>5. now \in Nat /\ now # Never
  BY <1>1, Numbers DEF EngineInv, TypeOK, Never
<1> HIDE DEF k
<1>6. CASE InCooldown(k) /\ lastAlert'[k] = lastAlert[k]
  <2>1. now < until[k]
    BY <1>6 DEF InCooldown
  <2>2. lastAlert[k] # Never /\ until[k] = lastAlert[k] + Cooldown[rule]
    BY <1>1, <1>2, <1>5, <2>1 DEF CooldownsRun
  <2>3. lastAlert'[k] # Never /\ now' < lastAlert'[k] + Cooldown[rule]
    BY <1>1, <1>6, <2>1, <2>2
  <2>. QED
    BY <1>3, <2>3 DEF Alerted
<1>7. CASE lastAlert'[k] = now
  BY <1>1, <1>3, <1>5, <1>7 DEF Alerted
<1>. QED
  BY <1>4, <1>6, <1>7

LEMMA SshStep ==
    ASSUME NEW v \in Values, Logged(v)
    PROVE  /\ SshFires(v, Snapshot') => Failures' >= SshThreshold - 1
           /\ SshFailure(v.shape) /\ v.shape.ip # NoIp /\ Failures' >= SshThreshold
                => SshFires(v, Snapshot')
<1>1. Cardinality(SshHits(v)) = Failures' /\ Failures' \in Nat
  BY FailuresCounted
<1>2. SshFires(v, Snapshot') <=> /\ SshFailure(v.shape) /\ v.shape.ip # NoIp
                                 /\ 1 + Cardinality(SshHits(v)) >= SshThreshold
  BY DEF SshFires, SshHits
<1>3. SshThreshold \in Nat
  BY Numbers
<1>4. \A n \in Nat : (1 + n >= SshThreshold => n >= SshThreshold - 1)
                    /\ (n >= SshThreshold => 1 + n >= SshThreshold)
  BY <1>3
<1>5. /\ 1 + Failures' >= SshThreshold => Failures' >= SshThreshold - 1
      /\ Failures' >= SshThreshold => 1 + Failures' >= SshThreshold
  BY <1>1, <1>4
<1>6. SshFires(v, Snapshot') <=> /\ SshFailure(v.shape) /\ v.shape.ip # NoIp
                                 /\ 1 + Failures' >= SshThreshold
  BY <1>1, <1>2
<1>. QED
  BY <1>5, <1>6

LEMMA ScanStep ==
    ASSUME NEW v \in Values, Logged(v)
    PROVE  /\ ScanFires(v, Snapshot') => Cardinality(Ports') >= ScanThreshold
           /\ PortHit(v.shape) /\ v.shape.ip # NoIp /\ Cardinality(Ports') >= ScanThreshold
                => ScanFires(v, Snapshot')
<1>1. (IF PortHit(v.shape) THEN {v.shape.port} ELSE {})
         \cup {Snapshot'[i].shape.port :
                 i \in {j \in SameIp("scan", Snapshot', v) : PortHit(Snapshot'[j].shape)}}
       = Ports'
  BY PortsCounted
<1>2. ScanFires(v, Snapshot') <=>
         /\ v.shape.source = "kernel" /\ v.shape.text \in {"reject", "dpt"}
         /\ v.shape.ip # NoIp
         /\ Cardinality(Ports') >= ScanThreshold
  BY <1>1 DEF ScanFires
<1>. QED
  BY <1>2 DEF PortHit

LEMMA MultiStep ==
    ASSUME NEW v \in Values, Logged(v)
    PROVE  /\ MultiFires(v, Snapshot') => Cardinality(Services') >= MinServices
           /\ AuthFailure(v.shape) /\ v.shape.ip # NoIp
                /\ Cardinality(Services') >= MinServices
                => MultiFires(v, Snapshot')
<1>1. AuthFailure(v.shape) =>
        {v.shape.source}
          \cup {Snapshot'[i].shape.source :
                  i \in {j \in SameIp("multi", Snapshot', v) : AuthFailure(Snapshot'[j].shape)}}
        = Services'
  BY ServicesCounted
<1>. QED
  BY <1>1 DEF MultiFires

\* The sudo rule looks at the same events in the snapshot and in the log.
LEMMA PrivStep ==
    ASSUME NEW v \in Values, Logged(v)
    PROVE  PrivFires(v, Snapshot') <=>
              /\ SudoSession(v.shape) /\ v.shape.user # NoUser
              /\ ~NamedBefore'
<1> DEFINE Named(e) == /\ e.stamp < v.stamp
                       /\ e.stamp >= v.stamp - RuleWindow["priv"]
                       /\ e.stamp >= v.stamp - IndexSpan
                       /\ SudoSession(e.shape) /\ v.shape.user \in e.shape.mentions
<1>1. /\ Len(Snapshot') = size'
      /\ \A i \in 1..size' : Offset' + i \in Held' /\ Snapshot'[i] = log'[Offset' + i]
      /\ \A j \in Held' : j - Offset' \in 1..size' /\ j \in Int
      /\ size' \in Nat /\ Offset' \in Nat
  BY Shift DEF Logged, Held
<1>2. PrivFires(v, Snapshot') <=> /\ SudoSession(v.shape) /\ v.shape.user # NoUser
                                  /\ ~\E i \in 1..size' : Named(Snapshot'[i])
  BY <1>1 DEF PrivFires, InWindow, Indexed, Places
<1>3. NamedBefore' <=> \E j \in Held' : Named(log'[j])
  BY DEF NamedBefore, Held, Logged
<1> HIDE DEF Named
<1>4. ASSUME NEW i \in 1..size', Named(Snapshot'[i])
      PROVE  \E j \in Held' : Named(log'[j])
  BY <1>1, <1>4
<1>5. ASSUME NEW j \in Held', Named(log'[j])
      PROVE  \E i \in 1..size' : Named(Snapshot'[i])
  <2>1. j - Offset' \in 1..size' /\ Offset' + (j - Offset') = j
    BY <1>1
  <2>2. Snapshot'[j - Offset'] = log'[j]
    BY <1>1, <2>1
  <2>. QED
    BY <1>5, <2>1, <2>2
<1>. QED
  BY <1>2, <1>3, <1>4, <1>5

\* A sudo alert: no earlier session of the same user.
LEMMA PrivIsFirst ==
    ASSUME NEW v \in Values, Logged(v), PrivFires(v, Snapshot')
    PROVE  /\ SudoSession(Newest'.shape)
           /\ \A i \in 1..Len(log) :
                 /\ i > Len(log) + 1 - Cap
                 /\ log[i].stamp < Newest'.stamp
                 /\ log[i].stamp >= Newest'.stamp - RuleWindow["priv"]
                 /\ log[i].stamp >= Newest'.stamp - IndexSpan
                 /\ SudoSession(log[i].shape)
                 => log[i].shape.user # Newest'.shape.user
<1>1. Newest' = v /\ SudoSession(v.shape) /\ v.shape.user # NoUser /\ ~NamedBefore'
  BY PrivStep DEF Logged
<1> SUFFICES ASSUME NEW i \in 1..Len(log), i > Len(log) + 1 - Cap,
                    log[i].stamp < v.stamp,
                    log[i].stamp >= v.stamp - RuleWindow["priv"],
                    log[i].stamp >= v.stamp - IndexSpan,
                    SudoSession(log[i].shape), log[i].shape.user = v.shape.user
             PROVE  FALSE
  BY <1>1
<1>2. /\ Len(log) \in Nat /\ Len(log') = Len(log) + 1 /\ log'[i] = log[i]
      /\ log[i] \in Values
  BY ElementOfSeq, LenProperties DEF Logged, EngineInv, TypeOK
<1>3. v.shape.user \in log'[i].shape.mentions
  BY <1>1, <1>2, EventFacts
<1>4. i \in 1..Len(log') /\ i > Len(log') - Cap
  BY <1>2, Numbers
<1>5. NamedBefore'
  BY <1>1, <1>2, <1>3, <1>4 DEF NamedBefore
<1>. QED
  BY <1>1, <1>5

-----------------------------------------------------------------------------
\* Two alerts of one engine on one key are a cooldown apart on the wall clock.
THEOREM CooldownsAlwaysHold == Spec => CooldownsHold
<1>1. EngineInv /\ EngineInv' /\ [Next]_vars =>
        [\A r \in results' : log' # log /\ lastAlert[r.key] # Never =>
            now >= lastAlert[r.key] + Cooldown[r.rule]]_vars
  <2> SUFFICES ASSUME EngineInv, EngineInv', [Next]_vars, log' # log,
                      NEW r \in results', lastAlert[r.key] # Never
               PROVE  now >= lastAlert[r.key] + Cooldown[r.rule]
    OBVIOUS
  <2>1. PICK v \in Values : Logged(v)
    BY OnlyEventsAreLogged
  <2>. QED
    BY <2>1, CooldownsStep
<1>. QED
  BY <1>1, EngineInvariant, PTL DEF Spec, CooldownsHold

\* No alert of a rule without its evidence in the log.
THEOREM AlertsAreAlwaysJustified == Spec => AlertsAreJustified
<1> DEFINE Justified(r) ==
         \/ r.rule = "ssh"   /\ Failures' >= SshThreshold - 1
         \/ r.rule = "scan"  /\ Cardinality(Ports') >= ScanThreshold
         \/ r.rule = "multi" /\ Cardinality(Services') >= MinServices
         \/ /\ r.rule = "priv" /\ SudoSession(Newest'.shape)
            /\ \A i \in 1..Len(log) :
                 /\ i > Len(log) + 1 - Cap
                 /\ log[i].stamp < Newest'.stamp
                 /\ log[i].stamp >= Newest'.stamp - RuleWindow["priv"]
                 /\ log[i].stamp >= Newest'.stamp - IndexSpan
                 /\ SudoSession(log[i].shape)
                 => log[i].shape.user # Newest'.shape.user
<1>1. EngineInv /\ EngineInv' /\ [Next]_vars =>
        [log' # log => \A r \in results' : Justified(r)]_vars
  <2> SUFFICES ASSUME EngineInv, EngineInv', [Next]_vars, log' # log, NEW r \in results'
               PROVE  Justified(r)
    OBVIOUS
  <2>1. PICK v \in Values : Logged(v)
    BY OnlyEventsAreLogged
  <2>2. Fires(r.rule, v, Snapshot')
    BY <2>1, AlertFacts
  <2>3. CASE r.rule = "ssh" /\ SshFires(v, Snapshot')
    BY <2>1, <2>3, SshStep
  <2>4. CASE r.rule = "scan" /\ ScanFires(v, Snapshot')
    BY <2>1, <2>4, ScanStep
  <2>5. CASE r.rule = "multi" /\ MultiFires(v, Snapshot')
    BY <2>1, <2>5, MultiStep
  <2>6. CASE r.rule = "priv" /\ PrivFires(v, Snapshot')
    BY <2>1, <2>6, PrivIsFirst
  <2>. QED
    BY <2>2, <2>3, <2>4, <2>5, <2>6 DEF Fires
<1>. QED
  BY <1>1, EngineInvariant, PTL DEF Spec, AlertsAreJustified

\* No burst, and no first sudo session, goes unalerted: the key was alerted on now
\* or within the cooldown before.
THEOREM BurstsAreAlwaysAlerted == Spec => BurstsAreAlerted
<1> DEFINE Noticed ==
         /\ SshFailure(Newest'.shape) /\ Newest'.shape.ip # NoIp /\ Failures' >= SshThreshold
                => Alerted("ssh")'
         /\ PortHit(Newest'.shape) /\ Newest'.shape.ip # NoIp
                /\ Cardinality(Ports') >= ScanThreshold => Alerted("scan")'
         /\ AuthFailure(Newest'.shape) /\ Newest'.shape.ip # NoIp
                /\ Cardinality(Services') >= MinServices => Alerted("multi")'
         /\ SudoSession(Newest'.shape) /\ Newest'.shape.user # NoUser /\ ~NamedBefore'
                => Alerted("priv")'
<1>1. EngineInv /\ EngineInv' /\ [Next]_vars => [log' # log => Noticed]_vars
  <2> SUFFICES ASSUME EngineInv, EngineInv', [Next]_vars, log' # log
               PROVE  Noticed
    OBVIOUS
  <2>1. PICK v \in Values : Logged(v)
    BY OnlyEventsAreLogged
  <2>2. Newest' = v
    BY <2>1 DEF Logged
  <2>3. ASSUME SshFires(v, Snapshot') PROVE Alerted("ssh")'
    BY <2>1, <2>3, FiredIsAlerted DEF Fires, Rules
  <2>4. ASSUME ScanFires(v, Snapshot') PROVE Alerted("scan")'
    BY <2>1, <2>4, FiredIsAlerted DEF Fires, Rules
  <2>5. ASSUME MultiFires(v, Snapshot') PROVE Alerted("multi")'
    BY <2>1, <2>5, FiredIsAlerted DEF Fires, Rules
  <2>6. ASSUME PrivFires(v, Snapshot') PROVE Alerted("priv")'
    BY <2>1, <2>6, FiredIsAlerted DEF Fires, Rules
  <2>7. SshFailure(Newest'.shape) /\ Newest'.shape.ip # NoIp /\ Failures' >= SshThreshold
           => Alerted("ssh")'
    BY <2>1, <2>2, <2>3, SshStep
  <2>8. PortHit(Newest'.shape) /\ Newest'.shape.ip # NoIp
           /\ Cardinality(Ports') >= ScanThreshold => Alerted("scan")'
    BY <2>1, <2>2, <2>4, ScanStep
  <2>9. AuthFailure(Newest'.shape) /\ Newest'.shape.ip # NoIp
           /\ Cardinality(Services') >= MinServices => Alerted("multi")'
    BY <2>1, <2>2, <2>5, MultiStep
  <2>10. SudoSession(Newest'.shape) /\ Newest'.shape.user # NoUser /\ ~NamedBefore'
           => Alerted("priv")'
    BY <2>1, <2>2, <2>6, PrivStep
  <2>. QED
    BY <2>7, <2>8, <2>9, <2>10
<1>. QED
  BY <1>1, EngineInvariant, PTL DEF Spec, BurstsAreAlerted

-----------------------------------------------------------------------------
(* The stamps.                                                             *)

\* Division by the length of a year.
LEMMA Years ==
    ASSUME NEW t \in Int
    PROVE  /\ t \div YearLen \in Int /\ t % YearLen \in 0..(YearLen - 1)
           /\ t = (t \div YearLen) * YearLen + (t % YearLen)
BY ParserAssumption, SMTT(30)

\* What the host's clock is off UTC at one moment.
LEMMA ClockFacts ==
    ASSUME NEW t \in Int
    PROVE  /\ Ahead(t) \in Int /\ 0 <= Ahead(t) /\ Ahead(t) <= Day
           /\ Zone + Ahead(t) <= Day /\ -Day <= Zone + Ahead(t)
           /\ LocalYear(t) \in Int
           /\ SinceNewYear(t) \in Int /\ SinceNewYear(t) \in 0..(YearLen - 1)
           /\ t + Zone + Ahead(t) = LocalYear(t) * YearLen + SinceNewYear(t)
<1>1. /\ Saving \in Nat /\ Saving <= Day /\ Day \in Nat /\ Zone \in Int
      /\ Zone \in -Day..Day /\ Zone + Saving \in -Day..Day
  BY ParserAssumption
<1>2. Ahead(t) \in {0, Saving}
  BY DEF Ahead
<1>3. /\ Ahead(t) \in Int /\ 0 <= Ahead(t) /\ Ahead(t) <= Day
      /\ Zone + Ahead(t) <= Day /\ -Day <= Zone + Ahead(t)
  BY <1>1, <1>2
<1>4. LocalClock(t) = t + Zone + Ahead(t) /\ LocalClock(t) \in Int
  BY <1>1, <1>3 DEF LocalClock
<1>5. /\ LocalYear(t) \in Int /\ SinceNewYear(t) \in 0..(YearLen - 1)
      /\ LocalClock(t) = LocalYear(t) * YearLen + SinceNewYear(t)
  BY <1>4, Years DEF LocalYear, SinceNewYear
<1>6. SinceNewYear(t) \in Int
  BY <1>5, ParserAssumption
<1>. QED
  BY <1>3, <1>4, <1>5, <1>6

\* The year a stamp is put in is the year it was written in, or one off.
LEMMA OneYearOff ==
    ASSUME NEW time \in Nat, NEW skew \in Skews
    PROVE  LET shifted == (time - skew) + Ahead(time - skew)
           IN  \E d \in {-1, 0, 1} :
                 /\ CurrentYear(time) = LocalYear(time - skew) + d
                 /\ LocalYear(time - skew) \in Int
                 /\ SyslogStamp(time - skew, time)
                      = IF shifted + d * YearLen > time + Day
                        THEN shifted + (d - 1) * YearLen
                        ELSE shifted + d * YearLen
<1> DEFINE t == time - skew
           h == Ahead(t)
           q == LocalYear(t)
           r == SinceNewYear(t)
           c == time \div YearLen
           s == time % YearLen
<1>1. /\ YearLen \in Nat /\ YearLen > 0 /\ Day \in Nat /\ Zone \in Int /\ Day < YearLen
  BY ParserAssumption
<1>2. skew \in Nat /\ skew + Day < YearLen /\ t \in Int
  BY <1>1, RuleEngineAssumption
<1>3. /\ h \in Int /\ Zone + h <= Day /\ -Day <= Zone + h
      /\ q \in Int /\ r \in 0..(YearLen - 1) /\ t + Zone + h = q * YearLen + r
  BY <1>1, <1>2, ClockFacts
<1>4. c \in Int /\ s \in 0..(YearLen - 1) /\ time = c * YearLen + s
  BY <1>1, Years
<1>5. CurrentYear(time) = c /\ LocalYear(time - skew) = q /\ SinceNewYear(time - skew) = r
  BY DEF CurrentYear
<1>6. t = time - skew /\ h = Ahead(time - skew)
  OBVIOUS
<1> HIDE DEF t, h, q, r, c, s
<1>7. c * YearLen - q * YearLen = skew - (Zone + h) + r - s
  <2>1. c * YearLen \in Int /\ q * YearLen \in Int
    BY <1>1, <1>3, <1>4
  <2>. QED
    BY <1>1, <1>2, <1>3, <1>4, <1>6, <2>1
<1>8. (c - q) * YearLen = c * YearLen - q * YearLen
  BY <1>1, <1>3, <1>4, SMTT(30)
<1>9. (c - q) * YearLen < 2 * YearLen /\ (c - q) * YearLen > (-2) * YearLen
  <2>1. /\ skew - (Zone + h) + r - s < 2 * YearLen
        /\ skew - (Zone + h) + r - s > (-2) * YearLen
    BY <1>1, <1>2, <1>3, <1>4
  <2>. QED
    BY <1>7, <1>8, <2>1
<1>10. c - q \in {-1, 0, 1}
  <2>1. ASSUME NEW n \in Int, n * YearLen < 2 * YearLen, n * YearLen > (-2) * YearLen
        PROVE  n \in {-1, 0, 1}
    <3>1. ~(n >= 2)
      BY <1>1, <2>1, SMTT(30)
    <3>2. ~(n <= -2)
      BY <1>1, <2>1, SMTT(30)
    <3>. QED
      BY <3>1, <3>2
  <2>2. c - q \in Int
    BY <1>3, <1>4
  <2>. QED
    BY <1>9, <2>1, <2>2
<1> DEFINE d == c - q
<1>11. c * YearLen = q * YearLen + d * YearLen /\ c = q + d /\ d \in {-1, 0, 1}
  BY <1>1, <1>3, <1>4, <1>8, <1>10
<1> HIDE DEF d
<1>12. MakeTimepoint(c, r) = t + h + d * YearLen
  BY <1>1, <1>2, <1>3, <1>4, <1>11 DEF MakeTimepoint
<1>13. MakeTimepoint(c - 1, r) = t + h + (d - 1) * YearLen
  <2>1. (c - 1) * YearLen = c * YearLen - YearLen /\ (d - 1) * YearLen = d * YearLen - YearLen
    BY <1>1, <1>4, <1>11, SMTT(30)
  <2>. QED
    BY <1>1, <1>2, <1>3, <1>4, <1>11, <2>1 DEF MakeTimepoint
<1>14. SyslogStamp(time - skew, time) = IF t + h + d * YearLen > time + Day
                                     THEN t + h + (d - 1) * YearLen ELSE t + h + d * YearLen
  BY <1>5, <1>12, <1>13 DEF SyslogStamp
<1>. QED
  BY <1>3, <1>5, <1>6, <1>11, <1>14

\* A line written `skew' ago is stamped with that time, moved if it was summer, or a
\* year before that.
LEMMA StampFacts ==
    ASSUME NEW time \in Nat, NEW skew \in Skews, NEW form \in Forms
    PROVE  LET written == time - skew
               shifted == written + Ahead(written)
           IN  \/ form = "kv" /\ Stamp(form, written, time) = time
               \/ form # "kv" /\ Stamp(form, written, time) = shifted
               \/ /\ form = "syslog" /\ LocalYear(written) > CurrentYear(time)
                  /\ Stamp(form, written, time) = shifted - YearLen
<1> DEFINE written == time - skew
           h == Ahead(written)
           shifted == written + h
<1>1. /\ YearLen \in Nat /\ YearLen > 0 /\ Day \in Nat /\ Zone \in Int
      /\ skew \in Nat /\ skew + Day < YearLen /\ written \in Int
  BY ParserAssumption, RuleEngineAssumption
<1>2. /\ h \in Int /\ 0 <= h /\ h <= Day
      /\ LocalYear(written) \in Int /\ SinceNewYear(written) \in Int
      /\ written + Zone + h = LocalYear(written) * YearLen + SinceNewYear(written)
  BY <1>1, ClockFacts
<1>3. CASE form = "syslog"
  <2>1. Stamp(form, written, time) = SyslogStamp(written, time)
    BY <1>3 DEF Stamp
  <2>2. PICK d \in {-1, 0, 1} :
           /\ CurrentYear(time) = LocalYear(written) + d
           /\ SyslogStamp(written, time)
                = IF shifted + d * YearLen > time + Day
                  THEN shifted + (d - 1) * YearLen
                  ELSE shifted + d * YearLen
    BY OneYearOff
  <2>3. written = time - skew /\ shifted = written + h
    OBVIOUS
  <2> HIDE DEF written, h, shifted
  <2>4. CASE d \in {0, 1}
    <3>1. SyslogStamp(written, time) = shifted
      BY <1>1, <1>2, <2>2, <2>3, <2>4
    <3>. QED
      BY <1>3, <2>1, <3>1 DEF shifted, h, written
  <2>5. CASE d = -1
    <3>1. SyslogStamp(written, time) = shifted - YearLen
      BY <1>1, <1>2, <2>2, <2>3, <2>5
    <3>2. LocalYear(written) > CurrentYear(time)
      BY <1>2, <2>2, <2>5
    <3>. QED
      BY <1>3, <2>1, <3>1, <3>2 DEF shifted, h, written
  <2>. QED
    BY <2>4, <2>5
<1>4. CASE form = "nginx"
  <2>1. Stamp(form, written, time) = IsoStamp(written)
    BY <1>4 DEF Stamp
  <2>2. IsoStamp(written) = LocalYear(written) * YearLen + SinceNewYear(written) - Zone
    BY DEF IsoStamp, MakeTimepoint
  <2> DEFINE newYear == LocalYear(written) * YearLen
             since == SinceNewYear(written)
  <2>3. newYear \in Int /\ since \in Int /\ written + Zone + h = newYear + since
    BY <1>1, <1>2
  <2>4. shifted = written + h /\ IsoStamp(written) = newYear + since - Zone
    BY <2>2
  <2> HIDE DEF written, h, shifted, newYear, since
  <2>5. IsoStamp(written) = shifted
    BY <1>1, <1>2, <2>3, <2>4
  <2>. QED
    BY <1>4, <2>1, <2>5 DEF shifted, h, written
<1>5. CASE form = "kv"
  BY <1>5 DEF Stamp
<1>. QED
  BY <1>3, <1>4, <1>5 DEF Forms

\* The parser's stamps are wrong in the two ways of StampErrors and in no other: a line
\* of summer time by Saving, and a syslog line by a year while the host's calendar is in
\* a year that UTC is not in.
THEOREM StampsErrInTwoWays == Spec => StampErrors
<1> DEFINE Errs(skew) ==
         LET s == Newest'.shape
             written == now - skew
             shifted == written + Ahead(written)
         IN  \/ s.form = "kv" /\ Newest'.stamp = now
             \/ s.form # "kv" /\ Newest'.stamp = shifted
             \/ /\ s.form = "syslog" /\ LocalYear(written) > CurrentYear(now)
                /\ Newest'.stamp = shifted - YearLen
<1>1. EngineInv /\ EngineInv' /\ [Next]_vars
         => [log' # log => \E skew \in Skews : Errs(skew)]_vars
  <2> SUFFICES ASSUME EngineInv, EngineInv', [Next]_vars, log' # log
               PROVE  \E skew \in Skews : Errs(skew)
    OBVIOUS
  <2>1. PICK s \in Shapes : OnEvent(s)
    BY DEF Next, SwapBack, Tick, vars
  <2>2. PICK skew \in Skews : log' = Append(log, Event(s, skew))
    BY <2>1 DEF OnEvent, Event
  <2>3. Event(s, skew) \in Values /\ log \in Seq(Values)
    BY EventIsValue DEF EngineInv, TypeOK
  <2>4. Newest' = Event(s, skew)
    BY <2>2, <2>3, AppendProperties DEF Newest
  <2>5. now \in Nat /\ s.form \in Forms
    BY Numbers, RuleEngineAssumption DEF EngineInv, TypeOK, Shape
  <2>6. Newest'.shape = s /\ Newest'.stamp = Stamp(s.form, now - skew, now)
    BY <2>4 DEF Event
  <2>7. Errs(skew)
    BY <2>5, <2>6, StampFacts
  <2>. QED
    BY <2>7
<1>. QED
  BY <1>1, EngineInvariant, PTL DEF Spec, StampErrors

-----------------------------------------------------------------------------
\* The ring of a running agent is the ring buffer, and so its snapshot is the
\* sliding window over the events of the log.
THEOREM EngineRunsTheRing == Spec => RingSpec
<1>1. Init => RingInit
  BY DEF Init
<1>2. EngineInv /\ [Next]_vars => [RingNext]_ringVars
  <2> SUFFICES ASSUME EngineInv, [Next]_vars PROVE [RingNext]_ringVars
    OBVIOUS
  <2>1. ASSUME NEW s \in Shapes, OnEvent(s) PROVE RingNext
    <3>1. PICK skew \in Skews : Push(Event(s, skew))
      BY <2>1 DEF OnEvent, Event
    <3>2. Event(s, skew) \in Values
      BY EventIsValue DEF EngineInv
    <3>. QED
      BY <3>1, <3>2 DEF RingNext
  <2>2. CASE SwapBack \/ Tick \/ UNCHANGED vars
    BY <2>2 DEF SwapBack, Tick, vars
  <2>. QED
    BY <2>1, <2>2 DEF Next
<1>. QED
  BY <1>1, <1>2, EngineInvariant, PTL DEF Spec, RingSpec

THEOREM EngineIsWindow == Spec => ImplementsWindow
BY EngineRunsTheRing, RingIsWindow, PTL
=============================================================================
