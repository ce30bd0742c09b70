------------------------ MODULE AlertPublisherProofs ------------------------
(***************************************************************************)
(* The publisher keeps its books, closes its socket in time, drains on     *)
(* stop and is a lossy channel, for every capacity and every number of     *)
(* alerts and restarts.                                                    *)
(***************************************************************************)
EXTENDS AlertPublisher, SequenceTheorems, TLAPS

\* Appending and taking the front, as the steps need them.
LEMMA AppendFacts ==
    ASSUME NEW S, NEW q \in Seq(S), NEW e \in S
    PROVE  /\ Append(q, e) \in Seq(S)
           /\ Len(Append(q, e)) = Len(q) + 1
           /\ \A i \in 1..Len(q) : Append(q, e)[i] = q[i]
           /\ Append(q, e)[Len(q) + 1] = e
BY AppendProperties

LEMMA FrontFacts ==
    ASSUME NEW S, NEW q \in Seq(S), q # <<>>
    PROVE  /\ Head(q) \in S
           /\ Tail(q) \in Seq(S)
           /\ Len(q) \in Nat \ {0}
           /\ Len(Tail(q)) = Len(q) - 1
           /\ q = <<Head(q)>> \o Tail(q)
BY HeadTailProperties

LEMMA InitInvariant == Init => IInv
<1> SUFFICES ASSUME Init PROVE IInv
  OBVIOUS
<1>1. /\ <<>> \in Seq(Alerts) /\ Len(<<>>) = 0
      /\ queue = <<>> /\ sendLog = <<>>
  BY EmptySeq DEF Init
<1>2. /\ running = FALSE /\ stopFlag = FALSE /\ sock = FALSE
      /\ sent = 0 /\ dropped = 0 /\ lost = 0 /\ starts = 0
      /\ sender = "none" /\ inHand = 0 /\ owner = "idle"
      /\ published = 0 /\ exitMark = 0
  BY DEF Init
<1>3. Len(queue) <= Capacity /\ 0 \in 0..MaxPublish
  BY <1>1, PublisherAssumption
<1>4. TypeOK
  BY <1>1, <1>2, <1>3 DEF TypeOK
<1>5. Conservation
  BY <1>1, <1>2 DEF Conservation
<1>6. SocketOpenWhileSending /\ IdsPublished /\ StopDrains
  BY <1>2 DEF SocketOpenWhileSending, IdsPublished, StopDrains
<1>. QED
  BY <1>4, <1>5, <1>6 DEF IInv

LEMMA PublishInvariant == IInv /\ Publish => IInv'
<1> SUFFICES ASSUME IInv, Publish PROVE IInv'
  OBVIOUS
<1> USE PublisherAssumption DEF IInv
<1>1. /\ queue \in Seq(Alerts) /\ Len(queue) \in Nat /\ Len(queue) <= Capacity
      /\ published \in Nat /\ published + 1 \in Alerts /\ published' = published + 1
      /\ UNCHANGED <<ownerVars, senderVars>>
  BY LenProperties DEF TypeOK, Alerts, Publish
<1>2. CASE Len(queue) >= Capacity /\ dropped' = dropped + 1 /\ UNCHANGED <<queue, sender>>
  <2>1. TypeOK'
    BY <1>1, <1>2 DEF TypeOK, ownerVars, senderVars, Alerts
  <2>2. Conservation'
    BY <1>1, <1>2 DEF TypeOK, Conservation, ownerVars, senderVars
  <2>. QED
    BY <1>1, <1>2, <2>1, <2>2 DEF TypeOK, SocketOpenWhileSending, IdsPublished,
       StopDrains, ownerVars, senderVars
<1>3. CASE /\ Len(queue) < Capacity /\ queue' = Append(queue, published + 1)
           /\ sender' = Woken(sender) /\ UNCHANGED dropped
  <2>1. /\ queue' \in Seq(Alerts) /\ Len(queue') = Len(queue) + 1
        /\ \A i \in 1..Len(queue) : queue'[i] = queue[i]
        /\ queue'[Len(queue) + 1] = published + 1
    BY <1>1, <1>3, AppendFacts
  <2>2. sender' = "sending" <=> sender = "sending"
    BY <1>3 DEF Woken
  <2>3. TypeOK'
    BY <1>1, <1>3, <2>1 DEF TypeOK, ownerVars, senderVars, Alerts, Woken
  <2>4. Conservation'
    BY <1>1, <1>3, <2>1, <2>2 DEF TypeOK, Conservation, ownerVars, senderVars
  <2>5. SocketOpenWhileSending' /\ IdsPublished'
    BY <1>1, <1>3, <2>2 DEF TypeOK, SocketOpenWhileSending, IdsPublished, Woken,
       ownerVars, senderVars
  <2>6. StopDrains'
    <3> SUFFICES ASSUME lost = 0, starts > 0, sender \in {"none", "exited"},
                        NEW i \in 1..Len(queue')
                 PROVE  queue'[i] > exitMark
      BY <1>1, <1>3 DEF StopDrains, Woken, ownerVars, senderVars
    <3>1. CASE i \in 1..Len(queue)
      BY <2>1, <3>1 DEF StopDrains
    <3>2. CASE i = Len(queue) + 1
      BY <1>1, <2>1, <3>2 DEF IdsPublished, TypeOK
    <3>. QED
      BY <1>1, <2>1, <3>1, <3>2
  <2>. QED
    BY <2>3, <2>4, <2>5, <2>6
<1>. QED
  BY <1>2, <1>3 DEF Publish

\* The owner's steps.
LEMMA OwnerInvariant ==
    IInv /\ (Start \/ StartThrows \/ StopFlag \/ StopNotify \/ StopJoin) => IInv'
<1> SUFFICES ASSUME IInv, Start \/ StartThrows \/ StopFlag \/ StopNotify \/ StopJoin
             PROVE  IInv'
  OBVIOUS
<1> USE PublisherAssumption DEF IInv, TypeOK, Conservation, SocketOpenWhileSending,
        IdsPublished, StopDrains, senderVars
<1>1. CASE Start
  <2>1. /\ sender # "sending" /\ sender' = "check"
        /\ starts' = starts + 1
        /\ UNCHANGED <<queue, dropped, owner, published, senderVars>>
    BY <1>1 DEF Start, Starting
  <2>2. sock' /\ running' /\ ~stopFlag'
    BY <1>1, Zenon DEF Start, Starting
  <2>6. running' \in BOOLEAN /\ stopFlag' \in BOOLEAN /\ sock' \in BOOLEAN
    BY <1>1, Zenon DEF Start, Starting
  <2>3. TypeOK'
    BY <2>1, <2>6
  <2>4. Conservation' /\ IdsPublished' /\ StopDrains'
    BY <2>1
  <2>5. SocketOpenWhileSending'
    BY <2>2, Zenon
  <2>. QED
    BY <2>3, <2>4, <2>5
<1>2. CASE StopFlag
  BY <1>2 DEF StopFlag
<1>3. CASE StopNotify
  BY <1>3 DEF StopNotify, Woken
<1>4. CASE StopJoin
  BY <1>4 DEF StopJoin
<1>5. CASE StartThrows
  <2>1. UNCHANGED <<queue, dropped, owner, published, senderVars, starts, sender>>
    BY <1>5 DEF StartThrows, Starting
  <2>2. sock' /\ running' /\ ~stopFlag'
    BY <1>5, Zenon DEF StartThrows, Starting
  <2>3. running' \in BOOLEAN /\ stopFlag' \in BOOLEAN /\ sock' \in BOOLEAN
    BY <1>5, Zenon DEF StartThrows, Starting
  <2>4. TypeOK'
    BY <2>1, <2>3
  <2>5. Conservation' /\ IdsPublished' /\ StopDrains'
    BY <2>1
  <2>6. SocketOpenWhileSending'
    BY <2>2, Zenon
  <2>. QED
    BY <2>4, <2>5, <2>6
<1>. QED
  BY <1>1, <1>2, <1>3, <1>4, <1>5

\* The send thread's steps.
LEMMA SendLoopInvariant == IInv /\ SendLoop => IInv'
<1> SUFFICES ASSUME IInv, SendLoop PROVE IInv'
  OBVIOUS
<1> USE PublisherAssumption DEF IInv, TypeOK, Conservation, SocketOpenWhileSending,
        IdsPublished, StopDrains, ownerVars, senderVars
<1>1. CASE Take
  <2>1. /\ Head(queue) \in Alerts /\ Tail(queue) \in Seq(Alerts)
        /\ Len(Tail(queue)) = Len(queue) - 1 /\ Len(queue) \in Nat \ {0}
    BY <1>1, FrontFacts DEF Take
  <2>. QED
    BY <1>1, <2>1 DEF Take
<1>2. CASE Sleep
  BY <1>2 DEF Sleep
<1>3. CASE Exit
  BY <1>3 DEF Exit
<1>4. CASE Send
  <2>1. Append(sendLog, inHand) \in Seq(Alerts)
    BY <1>4, AppendFacts DEF Send
  <2>. QED
    BY <1>4, <2>1, LenProperties DEF Send
<1>5. CASE SendFails
  BY <1>5, LenProperties DEF SendFails
<1>. QED
  BY <1>1, <1>2, <1>3, <1>4, <1>5 DEF SendLoop

LEMMA NextInvariant == IInv /\ [Next]_vars => IInv'
<1> SUFFICES ASSUME IInv, [Next]_vars PROVE IInv'
  OBVIOUS
<1>1. CASE UNCHANGED vars
  BY <1>1 DEF vars, IInv, TypeOK, Conservation, SocketOpenWhileSending, IdsPublished,
             StopDrains
<1>. QED
  BY <1>1, PublishInvariant, OwnerInvariant, SendLoopInvariant DEF Next

\* The inductive invariant holds in every reachable state.
THEOREM PublisherInvariant == Spec => []IInv
BY InitInvariant, NextInvariant, PTL DEF Spec

\* The publisher's state is well-typed and its queue never outgrows the capacity.
THEOREM PublisherTypes == Spec => []TypeOK
BY PublisherInvariant, PTL DEF IInv

\* The counters account for every published alert.
THEOREM NothingVanishes == Spec => []Conservation
BY PublisherInvariant, PTL DEF IInv

\* The socket stays open as long as the send thread may use it.
THEOREM SocketOutlivesSender == Spec => []SocketOpenWhileSending
BY PublisherInvariant, PTL DEF IInv

\* A stop leaves nothing queued but what was published after it.
THEOREM StopLeavesNothing == Spec => []StopDrains
BY PublisherInvariant, PTL DEF IInv
-----------------------------------------------------------------------------
LEMMA InitWakes == Init => NoLostWakeup /\ OwnerInOrder
BY DEF Init, NoLostWakeup, OwnerInOrder

\* The send thread sleeps only on an empty queue and a lowered flag; whoever changes
\* one of them wakes it, publish() at once, stop() with its next statement.
LEMMA NextWakes ==
    IInv /\ NoLostWakeup /\ OwnerInOrder /\ [Next]_vars => NoLostWakeup' /\ OwnerInOrder'
<1> SUFFICES ASSUME IInv, NoLostWakeup, OwnerInOrder, [Next]_vars
             PROVE  NoLostWakeup' /\ OwnerInOrder'
  OBVIOUS
<1>1. /\ sender \in {"none", "check", "asleep", "sending", "exited"}
      /\ owner \in {"idle", "notify", "join"}
      /\ running \in BOOLEAN /\ stopFlag \in BOOLEAN
  BY DEF IInv, TypeOK
<1> USE <1>1 DEF NoLostWakeup, OwnerInOrder, ownerVars, senderVars, Woken
<1>2. CASE Publish
  <2>1. \/ UNCHANGED <<queue, sender>>
        \/ sender' = Woken(sender)
    BY <1>2 DEF Publish
  <2>2. UNCHANGED <<running, stopFlag, owner>>
    BY <1>2 DEF Publish
  <2>. QED
    BY <2>1, <2>2
<1>3. CASE Start
  <2>1. sender' = "check" /\ owner' = "idle"
    BY <1>3 DEF Start, Starting
  <2>2. running'
    BY <1>3, Zenon DEF Start, Starting
  <2>. QED
    BY <2>1, <2>2
<1>4. CASE StopFlag
  <2>1. owner' = "notify" /\ UNCHANGED <<queue, sender, running>> /\ running
    BY <1>4 DEF StopFlag
  <2>2. stopFlag'
    BY <1>4, Zenon DEF StopFlag
  <2>. QED
    BY <2>1, <2>2
<1>5. CASE StopNotify
  BY <1>5 DEF StopNotify
<1>6. CASE StopJoin
  <2>1. owner' = "idle" /\ sender' = "none"
    BY <1>6 DEF StopJoin
  <2>2. ~running'
    BY <1>6, Zenon DEF StopJoin
  <2>. QED
    BY <2>1, <2>2
<1>7. CASE SendLoop
  <2>1. UNCHANGED <<running, stopFlag, owner>>
    BY <1>7 DEF SendLoop, Take, Sleep, Exit, Send, SendFails
  <2>2. /\ sender # "none" /\ sender' \in {"check", "asleep", "sending", "exited"}
        /\ owner = "join" => sender' # "asleep"
        /\ sender' = "asleep" => queue' = <<>> /\ ~stopFlag
    BY <1>7 DEF SendLoop, Take, Sleep, Exit, Send, SendFails
  <2>. QED
    BY <2>1, <2>2
<1>8. CASE UNCHANGED vars
  BY <1>8 DEF vars
<1>9. CASE StartThrows
  <2>1. UNCHANGED <<queue, sender, owner>> /\ owner = "idle" /\ ~running
    BY <1>9 DEF StartThrows, Starting
  <2>2. running'
    BY <1>9, Zenon DEF StartThrows, Starting
  <2>. QED
    BY <2>1, <2>2
<1>. QED
  BY <1>2, <1>3, <1>4, <1>5, <1>6, <1>7, <1>8, <1>9 DEF Next

\* Between publish(), stop() and the condition variable no wakeup is lost.
THEOREM NoWakeupIsLost == Spec => []NoLostWakeup
<1>1. Init => NoLostWakeup /\ OwnerInOrder
  BY InitWakes
<1>2. IInv /\ NoLostWakeup /\ OwnerInOrder /\ [Next]_vars => NoLostWakeup' /\ OwnerInOrder'
  BY NextWakes
<1>. QED
  BY <1>1, <1>2, PublisherInvariant, PTL DEF Spec
-----------------------------------------------------------------------------
\* The alerts in the channel: the one in hand, if any, before the queue.
LEMMA PipeFacts ==
    ASSUME NEW S, NEW q \in Seq(S), NEW h \in S
    PROVE  /\ <<>> \o q = q
           /\ <<h>> \o q # <<>>
           /\ <<h>> \o q \in Seq(S)
           /\ Head(<<h>> \o q) = h
           /\ Tail(<<h>> \o q) = q
           /\ Len(<<h>> \o q) = Len(q) + 1
           /\ \A e \in S : <<h>> \o Append(q, e) = Append(<<h>> \o q, e)
<1>1. <<h>> \in Seq(S) /\ Len(<<h>>) = 1 /\ Head(<<h>>) = h /\ Tail(<<h>>) = <<>>
      /\ <<h>> # <<>> /\ <<h>>[1] = h
  OBVIOUS
<1>2. <<>> \o q = q
  BY ConcatEmptySeq
<1>3. /\ <<h>> \o q \in Seq(S) /\ Len(<<h>> \o q) = Len(q) + 1
      /\ (<<h>> \o q)[1] = h
      /\ \A i \in 1..Len(q) : (<<h>> \o q)[i + 1] = q[i]
  BY <1>1, ConcatProperties, LenProperties
<1>4. <<h>> \o q # <<>>
  BY <1>3, LenProperties, EmptySeq
<1>5. /\ Head(<<h>> \o q) = h
      /\ Tail(<<h>> \o q) \in Seq(S) /\ Len(Tail(<<h>> \o q)) = Len(q)
      /\ \A i \in 1..Len(q) : Tail(<<h>> \o q)[i] = (<<h>> \o q)[i + 1]
  BY <1>3, <1>4, HeadTailProperties, LenProperties
<1>6. Tail(<<h>> \o q) = q
  BY <1>3, <1>5, SeqEqual
<1>7. ASSUME NEW e \in S
      PROVE  <<h>> \o Append(q, e) = Append(<<h>> \o q, e)
  BY <1>1, AppendIsConcat, ConcatAssociative, <1>3
<1>. QED
  BY <1>2, <1>3, <1>4, <1>5, <1>6, <1>7

Pipe == (IF sender = "sending" THEN <<inHand>> ELSE <<>>) \o queue

\* One step of the publisher is a step of the channel or leaves it alone.
LEMMA PublishOffers == IInv /\ Publish => Channel!Accept \/ Channel!Refuse
<1> SUFFICES ASSUME IInv, Publish PROVE Channel!Accept \/ Channel!Refuse
  OBVIOUS
<1> USE PublisherAssumption
<1>1. /\ queue \in Seq(Alerts) /\ Len(queue) \in Nat
      /\ published + 1 \in Alerts /\ published' = published + 1
      /\ inHand' = inHand /\ sendLog' = sendLog
  BY LenProperties DEF IInv, TypeOK, Alerts, Publish, senderVars
<1>2. sender = "sending" => inHand \in Alerts
  BY DEF IInv, IdsPublished
<1>3. Len(Pipe) = Len(queue) \/ Len(Pipe) = Len(queue) + 1
  <2>1. CASE sender = "sending"
    <3>1. Pipe = <<inHand>> \o queue
      BY <2>1 DEF Pipe
    <3>. QED
      BY <1>1, <1>2, <2>1, <3>1, PipeFacts
  <2>2. CASE sender # "sending"
    <3>1. Pipe = <<>> \o queue
      BY <2>2 DEF Pipe
    <3>. QED
      BY <1>1, <3>1, ConcatEmptySeq
  <2>. QED
    BY <2>1, <2>2
<1>4. CASE Len(queue) >= Capacity /\ UNCHANGED <<queue, sender>>
  <2>1. Pipe' = Pipe
    BY <1>1, <1>4 DEF Pipe
  <2>2. Len(Pipe) >= Capacity
    BY <1>3, <1>1, <1>4
  <2>. QED
    BY <1>1, <2>1, <2>2 DEF Channel!Refuse, Pipe
<1>5. CASE /\ Len(queue) < Capacity
           /\ queue' = Append(queue, published + 1) /\ sender' = Woken(sender)
  <2>1. sender' = "sending" <=> sender = "sending"
    BY <1>5 DEF Woken
  <2>2. Pipe' = Append(Pipe, published + 1)
    <3>1. CASE sender = "sending"
      <4>1. <<inHand>> \o Append(queue, published + 1)
              = Append(<<inHand>> \o queue, published + 1)
        BY <1>1, <1>2, <3>1, PipeFacts
      <4>. QED
        BY <1>1, <1>5, <2>1, <3>1, <4>1 DEF Pipe
    <3>2. CASE sender # "sending"
      <4>1. <<>> \o queue = queue /\ <<>> \o queue' = queue'
        BY <1>1, <1>5, AppendFacts, ConcatEmptySeq
      <4>2. Pipe = <<>> \o queue /\ Pipe' = <<>> \o queue'
        BY <2>1, <3>2 DEF Pipe
      <4>. QED
        BY <1>5, <4>1, <4>2
    <3>. QED
      BY <3>1, <3>2
  <2>3. Len(Pipe) <= Capacity
    BY <1>3, <1>1, <1>5
  <2>. QED
    BY <1>1, <2>2, <2>3 DEF Channel!Accept, Pipe
<1>. QED
  BY <1>4, <1>5 DEF Publish

\* Sending delivers the oldest alert; a failed send loses it.
LEMMA SendDelivers ==
    /\ IInv /\ Send => Channel!Deliver
    /\ IInv /\ SendFails => Channel!Lose
<1> SUFFICES ASSUME IInv, Send \/ SendFails
             PROVE  (Send => Channel!Deliver) /\ (SendFails => Channel!Lose)
  OBVIOUS
<1>1. /\ sender = "sending" /\ sender' # "sending"
      /\ queue' = queue /\ published' = published
      /\ queue \in Seq(Alerts) /\ inHand \in Alerts
  BY DEF IInv, TypeOK, IdsPublished, Send, SendFails
<1>2. Pipe = <<inHand>> \o queue /\ Pipe' = <<>> \o queue
  BY <1>1 DEF Pipe
<1>3. Pipe # <<>> /\ Head(Pipe) = inHand /\ Tail(Pipe) = Pipe'
  BY <1>1, <1>2, PipeFacts
<1>4. Send => sendLog' = Append(sendLog, inHand)
  BY DEF Send
<1>5. SendFails => sendLog' = sendLog
  BY DEF SendFails
<1>. QED
  BY <1>1, <1>3, <1>4, <1>5 DEF Channel!Deliver, Channel!Lose, Pipe

\* Every other step leaves the channel as it is.
LEMMA RestIsSilent ==
    IInv /\ (Start \/ StartThrows \/ StopFlag \/ StopNotify \/ StopJoin
             \/ Take \/ Sleep \/ Exit)
        => UNCHANGED Channel!vars
<1> SUFFICES ASSUME IInv,
                    Start \/ StartThrows \/ StopFlag \/ StopNotify \/ StopJoin
                    \/ Take \/ Sleep \/ Exit
             PROVE  UNCHANGED <<published, Pipe, sendLog>>
  BY DEF Channel!vars, Pipe
<1>1. CASE Take
  <2>1. /\ queue \in Seq(Alerts) /\ queue # <<>>
        /\ sender = "check" /\ sender' = "sending"
        /\ inHand' = Head(queue) /\ queue' = Tail(queue)
        /\ UNCHANGED <<published, sendLog>>
    BY <1>1 DEF IInv, TypeOK, Take
  <2>2. Pipe = <<>> \o queue /\ Pipe' = <<Head(queue)>> \o Tail(queue)
    BY <2>1 DEF Pipe
  <2>3. <<>> \o queue = queue /\ queue = <<Head(queue)>> \o Tail(queue)
    BY <2>1, ConcatEmptySeq, FrontFacts
  <2>. QED
    BY <2>1, <2>2, <2>3
<1>2. CASE Start \/ StartThrows \/ StopFlag \/ StopNotify \/ StopJoin \/ Sleep \/ Exit
  <2>1. UNCHANGED <<queue, inHand, published, sendLog>>
    BY <1>2 DEF Start, StartThrows, Starting, StopFlag, StopNotify, StopJoin, Sleep, Exit,
                ownerVars, senderVars
  <2>2. sender' = "sending" <=> sender = "sending"
    BY <1>2 DEF IInv, SocketOpenWhileSending, Start, StartThrows, Starting, StopFlag,
                StopNotify, StopJoin, Sleep, Exit, Woken
  <2>. QED
    BY <2>1, <2>2 DEF Pipe
<1>. QED
  BY <1>1, <1>2

LEMMA ChannelInit == Init => Channel!Init
<1> SUFFICES ASSUME Init PROVE published = 0 /\ Pipe = <<>> /\ sendLog = <<>>
  BY DEF Channel!Init, Pipe
<1>1. sender = "none" /\ queue = <<>>
  BY DEF Init
<1>2. Pipe = <<>> \o <<>>
  BY <1>1 DEF Pipe
<1>3. <<>> \o <<>> = <<>>
  BY EmptySeq, ConcatEmptySeq
<1>. QED
  BY <1>2, <1>3 DEF Init

LEMMA ChannelNext == IInv /\ [Next]_vars => [Channel!Next]_(Channel!vars)
<1> SUFFICES ASSUME IInv, [Next]_vars PROVE [Channel!Next]_(Channel!vars)
  OBVIOUS
<1>1. CASE UNCHANGED vars
  BY <1>1 DEF vars, Channel!vars
<1>. QED
  BY <1>1, PublishOffers, SendDelivers, RestIsSilent DEF Next, SendLoop, Channel!Next

\* The publisher refines the lossy channel: alerts come out in order, at most
\* once, and are refused only when Capacity of them wait.
THEOREM PublisherIsLossyChannel == Spec => IsLossyChannel
BY PublisherInvariant, ChannelInit, ChannelNext, PTL DEF Spec, IsLossyChannel, Channel!Spec
=============================================================================
