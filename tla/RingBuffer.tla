----------------------------- MODULE RingBuffer -----------------------------
(***************************************************************************)
(* dlads::RingBuffer (include/dlads/ring_buffer.hpp): the circular array   *)
(* that holds an agent's recent log events.  Each member function holds    *)
(* the buffer's mutex from its first line to its last, so each is atomic.  *)
(***************************************************************************)
EXTENDS Integers, Sequences

CONSTANTS Values,   \* the events
          Blank,    \* a slot that was never written
          Cap       \* the template parameter, 4096 in agent_main.cpp

ASSUME RingAssumption == Cap \in Nat \ {0} /\ Blank \notin Values

VARIABLES storage, head, tail, size

ringVars == <<storage, head, tail, size>>

Slots == 0..(Cap - 1)

RingTypeOK == /\ storage \in [Slots -> Values \cup {Blank}]
              /\ head \in Slots
              /\ tail \in Slots
              /\ size \in 0..Cap

NextSlot(i) == (i + 1) % Cap

\* A bug: an overwriting push that leaves tail behind.
PushForgetsTail(v) ==
    /\ storage' = [storage EXCEPT ![head] = v]
    /\ head' = NextSlot(head)
    /\ size' = IF size < Cap THEN size + 1 ELSE size
    /\ tail' = tail

Push(v) ==
    /\ storage' = [storage EXCEPT ![head] = v]
    /\ head' = NextSlot(head)
    /\ IF size < Cap
       THEN size' = size + 1 /\ tail' = tail
       ELSE size' = size /\ tail' = NextSlot(tail)

Clear ==
    /\ head' = 0
    /\ tail' = 0
    /\ size' = 0
    /\ UNCHANGED storage

Snapshot == [i \in 1..size |-> storage[(tail + i - 1) % Cap]]

RingInit == /\ storage = [i \in Slots |-> Blank]
            /\ head = 0
            /\ tail = 0
            /\ size = 0

RingNext == Clear \/ \E v \in Values : Push(v)

RingSpec == RingInit /\ [][RingNext]_ringVars
-----------------------------------------------------------------------------
\* The cursors agree with the count, through every overwrite and clear: the
\* next slot written is the one after the newest element.
CursorsAgree == head = (tail + size) % Cap

\* A snapshot never shows a slot that holds no event, nor one left behind by
\* a clear: the slots from tail on were all written since.
NoBlankInSnapshot == \A i \in 1..size : Snapshot[i] # Blank

IInv == /\ RingTypeOK /\ CursorsAgree /\ NoBlankInSnapshot

\* snapshot() is the sliding window over the pushes: the last Cap of them,
\* oldest first, whatever was overwritten.
Window == INSTANCE SlidingWindow WITH window <- Snapshot

ImplementsWindow == Window!Spec
=============================================================================
